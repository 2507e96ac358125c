---------------------------- MODULE ReachProofs ----------------------------
(***************************************************************************)
(* What TLC checks of Reach on three states, proved for every set of       *)
(* states.                                                                 *)
(***************************************************************************)
EXTENDS Reach, TLAPS

\* At every test of the loop, reachable is prevReachable and the frontier,
\* everything that leaves prevReachable is known, and nothing is known that
\* some closed superset of the initial states lacks.
Explored ==
  pc \in {"loop", "done"} =>
    /\ reachable = prevReachable \cup image
    /\ initial \subseteq prevReachable
    /\ Image(prevReachable) \subseteq reachable
    /\ \A z \in SUBSET State :
         initial \subseteq z /\ Image(z) \subseteq z => reachable \subseteq z

Settled == pc = "done" => prevReachable = reachable

Fresh == pc = "first" => reachable = {}

IInv == TypeOK /\ Explored /\ Settled /\ Fresh

-----------------------------------------------------------------------------
\* The image of a set of states is a set of states, distributes over union
\* and so preserves inclusion.
LEMMA ImageUnion ==
  ASSUME NEW y \in SUBSET State, NEW z \in SUBSET State
  PROVE  /\ Image(y) \in SUBSET State
         /\ Image(y \cup z) = Image(y) \cup Image(z)
         /\ y \subseteq z => Image(y) \subseteq Image(z)
BY DEF Image

\* The transition relation is never written, so images stay what they are.
LEMMA ImageSteady ==
  ASSUME UNCHANGED inputs, NEW z
  PROVE  Image(z)' = Image(z)
BY DEF inputs, Image

-----------------------------------------------------------------------------
LEMMA InvInit == Init => IInv
BY DEF Init, IInv, TypeOK, Explored, Settled, Fresh

LEMMA FirstInv == IInv /\ First => IInv'
<1> SUFFICES ASSUME IInv, First PROVE IInv'
  OBVIOUS
<1>1. /\ UNCHANGED inputs /\ initial' = initial /\ trans' = trans
      /\ prevReachable' = initial /\ image' = Image(initial)
      /\ reachable' = initial \cup Image(initial) /\ pc' = "loop"
  BY DEF First, inputs
<1>2. initial \in SUBSET State
  BY DEF IInv, TypeOK
<1>3. Image(initial) \in SUBSET State
  BY <1>2, ImageUnion
<1>4. TypeOK'
  BY <1>1, <1>2, <1>3 DEF IInv, TypeOK
<1>5. ASSUME NEW z \in SUBSET State PROVE Image(z)' = Image(z)
  BY <1>1, ImageSteady
<1>6. Image(prevReachable)' = Image(initial)
  BY <1>1, <1>2, ImageSteady
<1>7. ASSUME NEW z \in SUBSET State, initial \subseteq z, Image(z) \subseteq z
      PROVE  initial \cup Image(initial) \subseteq z
  BY <1>2, <1>7, ImageUnion
<1>8. Explored'
  BY <1>1, <1>5, <1>6, <1>7 DEF Explored
<1>9. Settled'
  BY <1>1 DEF Settled
<1>10. Fresh'
  BY <1>1 DEF Fresh
<1> QED
  BY <1>4, <1>8, <1>9, <1>10 DEF IInv

LEMMA IterateInv == IInv /\ Iterate => IInv'
<1> SUFFICES ASSUME IInv, Iterate PROVE IInv'
  OBVIOUS
<1>1. /\ UNCHANGED inputs /\ initial' = initial /\ trans' = trans
      /\ prevReachable' = reachable /\ image' = Image(image)
      /\ reachable' = reachable \cup Image(image)
      /\ pc = "loop" /\ pc' = "loop"
  BY DEF Iterate, inputs
<1>2. /\ prevReachable \in SUBSET State /\ image \in SUBSET State
      /\ reachable \in SUBSET State /\ initial \in SUBSET State
  BY DEF IInv, TypeOK
<1>3. /\ reachable = prevReachable \cup image
      /\ initial \subseteq reachable
      /\ Image(prevReachable) \subseteq reachable
  BY <1>1 DEF IInv, Explored
<1>4. TypeOK'
  BY <1>1, <1>2, ImageUnion DEF IInv, TypeOK
<1>5. ASSUME NEW z \in SUBSET State PROVE Image(z)' = Image(z)
  BY <1>1, ImageSteady
<1>6. Image(prevReachable)' = Image(reachable)
  BY <1>1, <1>2, ImageSteady
<1>7. Image(reachable) \subseteq reachable \cup Image(image)
  BY <1>2, <1>3, ImageUnion
<1>8. ASSUME NEW z \in SUBSET State, initial \subseteq z, Image(z) \subseteq z
      PROVE  reachable \cup Image(image) \subseteq z
  <2>1. reachable \subseteq z
    BY <1>1, <1>8 DEF IInv, Explored
  <2>2. Image(image) \subseteq Image(z)
    BY <1>2, <1>3, <2>1, ImageUnion
  <2> QED
    BY <1>8, <2>1, <2>2
<1>9. Explored'
  BY <1>1, <1>3, <1>5, <1>6, <1>7, <1>8 DEF Explored
<1>10. Settled'
  BY <1>1 DEF Settled
<1>11. Fresh'
  BY <1>1 DEF Fresh
<1> QED
  BY <1>4, <1>9, <1>10, <1>11 DEF IInv

LEMMA ImageFailsInv == IInv /\ ImageFails => IInv'
BY DEF ImageFails, inputs, IInv, TypeOK, Explored, Settled, Fresh

LEMMA QuietInv == IInv /\ (Exit \/ UNCHANGED vars) => IInv'
<1> SUFFICES ASSUME IInv, Exit \/ UNCHANGED vars PROVE IInv'
  OBVIOUS
<1>1. /\ UNCHANGED inputs /\ initial' = initial /\ trans' = trans
      /\ prevReachable' = prevReachable /\ image' = image
      /\ reachable' = reachable
      /\ pc' \in {"loop", "done"} => pc \in {"loop", "done"}
      /\ pc' = "done" => prevReachable = reachable
      /\ pc' \in {"first", "loop", "done", "exit"}
  BY DEF Exit, inputs, vars, IInv, Settled, TypeOK
<1>2. TypeOK'
  BY <1>1 DEF IInv, TypeOK
<1>3. ASSUME NEW z \in SUBSET State PROVE Image(z)' = Image(z)
  BY <1>1, ImageSteady
<1>4. Image(prevReachable)' = Image(prevReachable)
  BY <1>1, ImageSteady
<1>5. Explored'
  BY <1>1, <1>3, <1>4 DEF IInv, Explored
<1>6. Settled'
  BY <1>1 DEF Settled
<1>7. Fresh'
  BY DEF IInv, Fresh, Exit, vars
<1> QED
  BY <1>2, <1>5, <1>6, <1>7 DEF IInv

LEMMA Inductive == IInv /\ [Next]_vars => IInv'
BY FirstInv, IterateInv, ImageFailsInv, QuietInv DEF Next

-----------------------------------------------------------------------------
\* IInv holds at every turn of the loop of main.c:188.
THEOREM Invariance == Spec => []IInv
BY InvInit, Inductive, PTL DEF Spec

\* The loop of main.c handles sets of states only.
THEOREM TypeCorrect == Spec => []TypeOK
BY Invariance, PTL DEF IInv

\* When the loop of main.c:188 ends, reachable is the least closed set that
\* holds the initial states, for every transition relation.
THEOREM ReachCorrect == Spec => []ReachableIsClosure
<1>1. IInv => ReachableIsClosure
  BY DEF IInv, Settled, Explored, ReachableIsClosure
<1> QED
  BY <1>1, Invariance, PTL

\* Only states of the last image can have successors not yet in reachable,
\* which is why main.c:190 may follow the last image alone.
THEOREM FrontierCorrect == Spec => []FrontierSuffices
<1>1. IInv => FrontierSuffices
  <2> SUFFICES ASSUME IInv, pc = "loop"
               PROVE  Image(reachable \ image) \subseteq reachable
    BY DEF FrontierSuffices
  <2>1. /\ reachable \ image \subseteq prevReachable
        /\ Image(prevReachable) \subseteq reachable
    BY DEF IInv, Explored
  <2>2. prevReachable \in SUBSET State
    BY DEF IInv, TypeOK
  <2> QED
    BY <2>1, <2>2, ImageUnion
<1> QED
  BY <1>1, Invariance, PTL

-----------------------------------------------------------------------------
\* The safety part of the refinement: the initial states of Reach are initial
\* states of Exploration and every step is an Expand, a Finish, an Abandon or
\* a stutter.
THEOREM ImplementsSafely ==
  Spec => Abstract!Init /\ [][Abstract!Next]_(Abstract!vars)
<1>1. Init => Abstract!Init
  BY DEF Init, Abstract!Init
<1>2. IInv /\ [Next]_vars => [Abstract!Next]_(Abstract!vars)
  <2> SUFFICES ASSUME IInv, [Next]_vars
               PROVE  \/ Abstract!Expand \/ Abstract!Finish \/ Abstract!Abandon
                      \/ UNCHANGED Abstract!vars
    BY DEF Abstract!Next
  <2>1. CASE First
    <3>1. /\ pc = "first" /\ pc' = "loop" /\ UNCHANGED <<trans, initial>>
          /\ reachable' = initial \cup Image(initial)
          /\ reachable = {}
      BY <2>1 DEF First, inputs, IInv, Fresh
    <3> QED
      BY <3>1 DEF Abstract!Expand, Abstract!vars, Abstract!Successors, Image
  <2>2. CASE Iterate
    <3>1. /\ pc = "loop" /\ pc' = "loop" /\ UNCHANGED <<trans, initial>>
          /\ reachable' = reachable \cup Image(image)
          /\ image \subseteq reachable
          /\ initial \subseteq reachable
      BY <2>2 DEF Iterate, inputs, IInv, Explored
    <3>2. Image(image) \subseteq Image(reachable)
      BY <3>1, ImageUnion DEF IInv, TypeOK
    <3> QED
      BY <3>1, <3>2 DEF Abstract!Expand, Abstract!vars, Abstract!Successors, Image
  <2>3. CASE Exit
    <3>1. /\ pc = "loop" /\ pc' = "done"
          /\ UNCHANGED <<trans, initial, reachable>>
          /\ Image(reachable) \subseteq reachable
          /\ initial \cup reachable = reachable
      BY <2>3 DEF Exit, inputs, IInv, Explored
    <3> QED
      BY <3>1 DEF Abstract!Finish, Abstract!Successors, Image
  <2>4. CASE ImageFails
    BY <2>4 DEF ImageFails, inputs, Abstract!Abandon
  <2>5. CASE UNCHANGED vars
    BY <2>5 DEF vars, Abstract!vars
  <2> QED
    BY <2>1, <2>2, <2>3, <2>4, <2>5 DEF Next
<1> QED
  BY <1>1, <1>2, Invariance, PTL DEF Spec
=============================================================================
