-------------------------- MODULE ModelCheckProofs --------------------------
(***************************************************************************)
(* From the loops of ctlmc.c to the answers of main(), for every set of    *)
(* states, relation and formula: each temporal operator returns the        *)
(* fixpoint that CTL means, check() computes the meaning of every formula  *)
(* and rejects nothing else, and the answers are those of the definition.  *)
(* What relates a fixpoint to the paths of the relation uses that State is *)
(* finite (FiniteStates).                                                  *)
(***************************************************************************)
EXTENDS ModelCheck, CommonLemmas

-----------------------------------------------------------------------------
\* The loops of ctlmc.c.

\* The loops keep `current' one application of the body ahead of `prev', the
\* two ordered as the kind of fixpoint asks, and `prev' on the safe side of
\* every candidate result.
Chain ==
  pc \in {"loop", "done"} =>
    /\ current = Body(prev)
    /\ op \in LeastOps =>
         /\ prev \subseteq current
         /\ \A z \in SUBSET State : Body(z) \subseteq z => prev \subseteq z
    /\ op \in GreatestOps =>
         /\ current \subseteq prev
         /\ \A z \in SUBSET State : z \subseteq Body(z) => z \subseteq prev

Settled == pc = "done" => prev = current

IInv == TypeOK /\ Chain /\ Settled

-----------------------------------------------------------------------------
\* EX and AX map sets of states to sets of states and preserve inclusion.
LEMMA PreImageMonotone ==
  ASSUME NEW y \in SUBSET State, NEW z \in SUBSET State, y \subseteq z
  PROVE  /\ EX(z) \in SUBSET State /\ AX(z) \in SUBSET State
         /\ EX(y) \subseteq EX(z)
         /\ AX(y) \subseteq AX(z)
<1>1. /\ EX(z) \in SUBSET State /\ AX(z) \in SUBSET State
      /\ EX(y) \subseteq EX(z)
  BY DEF EX, AX
<1>2. EX(State \ z) \subseteq EX(State \ y)
  BY DEF EX
<1> QED
  BY <1>1, <1>2 DEF AX

\* So do the bodies of the six loops.
LEMMA BodyMonotone ==
  ASSUME TypeOK,
         NEW y \in SUBSET State, NEW z \in SUBSET State, y \subseteq z
  PROVE  Body(z) \in SUBSET State /\ Body(y) \subseteq Body(z)
<1>1. /\ EX(z) \in SUBSET State /\ AX(z) \in SUBSET State
      /\ EX(y) \subseteq EX(z) /\ AX(y) \subseteq AX(z)
  BY PreImageMonotone
<1>2. /\ op \in LoopOps
      /\ finallyStates \subseteq State
  BY DEF TypeOK
<1>3. CASE op = "EF"
  BY <1>1, <1>2, <1>3 DEF Body, EF
<1>4. CASE op = "AF"
  BY <1>1, <1>2, <1>4 DEF Body, AF
<1>5. CASE op = "EG"
  BY <1>1, <1>2, <1>5 DEF Body, EG
<1>6. CASE op = "AG"
  BY <1>1, <1>2, <1>6 DEF Body, AG
<1>7. CASE op = "EU"
  BY <1>1, <1>2, <1>7 DEF Body, EU
<1>8. CASE op = "AU"
  BY <1>1, <1>2, <1>8 DEF Body, AU
<1> QED
  BY <1>2, <1>3, <1>4, <1>5, <1>6, <1>7, <1>8
     DEF LoopOps, LeastOps, GreatestOps, UntilOps

\* A loop body always keeps the final states of a least fixpoint and never
\* leaves those of a greatest one.
LEMMA BodyBounds ==
  ASSUME TypeOK, NEW z \in SUBSET State
  PROVE  /\ op \in LeastOps => finallyStates \subseteq Body(z)
         /\ op \in GreatestOps => Body(z) \subseteq finallyStates
<1>1. ASSUME op \in LeastOps PROVE finallyStates \subseteq Body(z)
  BY <1>1 DEF Body, EF, AF, EU, AU, LeastOps
<1>2. ASSUME op \in GreatestOps PROVE Body(z) \subseteq finallyStates
  BY <1>2 DEF Body, EG, AG, GreatestOps
<1> QED
  BY <1>1, <1>2

\* The arguments of a call never change, so neither does its equation.
LEMMA BodySteady ==
  ASSUME UNCHANGED args, NEW z
  PROVE  Body(z)' = Body(z)
BY DEF args, Body, EF, AF, EG, AG, EU, AU, EX, AX

-----------------------------------------------------------------------------
LEMMA InvInit == Init => IInv
BY DEF Init, IInv, TypeOK, Chain, Settled, UntilOps, LoopOps

\* Enter establishes the chain: the first approximation is the argument.
LEMMA EnterInv == IInv /\ Enter => IInv'
<1> SUFFICES ASSUME IInv, Enter PROVE IInv'
  OBVIOUS
<1> USE DEF IInv, Enter
<1>1. finallyStates \in SUBSET State
  BY DEF TypeOK
<1>2. Body(finallyStates) \in SUBSET State
  BY <1>1, BodyMonotone
<1>3. TypeOK'
  BY <1>1, <1>2 DEF TypeOK, args
<1>4. ASSUME NEW z \in SUBSET State PROVE Body(z)' = Body(z)
  BY BodySteady
<1>5. current' = Body(prev)'
  BY <1>1, BodySteady
<1>6. (op \in LeastOps => finallyStates \subseteq Body(finallyStates))
      /\ (op \in GreatestOps => Body(finallyStates) \subseteq finallyStates)
  BY <1>1, BodyBounds
<1>7. ASSUME NEW z \in SUBSET State
      PROVE  /\ op \in LeastOps /\ Body(z) \subseteq z => finallyStates \subseteq z
             /\ op \in GreatestOps /\ z \subseteq Body(z) => z \subseteq finallyStates
  BY BodyBounds
<1>8. op' = op /\ prev' = finallyStates /\ current' = Body(finallyStates) /\ pc' = "loop"
  BY DEF args
<1>9. Chain'
  BY <1>4, <1>5, <1>6, <1>7, <1>8 DEF Chain
<1>10. Settled'
  BY <1>8 DEF Settled
<1> QED
  BY <1>3, <1>9, <1>10

\* Iterate moves both approximations one application up (or down) the chain.
LEMMA IterateChain ==
  ASSUME IInv, pc = "loop"
  PROVE  /\ Body(current) \in SUBSET State
         /\ op \in LeastOps =>
              /\ current \subseteq Body(current)
              /\ \A z \in SUBSET State : Body(z) \subseteq z => current \subseteq z
         /\ op \in GreatestOps =>
              /\ Body(current) \subseteq current
              /\ \A z \in SUBSET State : z \subseteq Body(z) => z \subseteq current
<1> USE DEF IInv
<1>1. prev \in SUBSET State /\ current \in SUBSET State
  BY DEF TypeOK
<1>2. current = Body(prev)
  BY DEF Chain
<1>3. Body(current) \in SUBSET State
  BY <1>1, BodyMonotone
<1>4. ASSUME op \in LeastOps
      PROVE  /\ current \subseteq Body(current)
             /\ \A z \in SUBSET State : Body(z) \subseteq z => current \subseteq z
  <2>1. prev \subseteq current
    BY <1>4 DEF Chain
  <2>2. Body(prev) \subseteq Body(current)
    BY <1>1, <2>1, BodyMonotone
  <2>3. ASSUME NEW z \in SUBSET State, Body(z) \subseteq z
        PROVE  current \subseteq z
    <3>1. prev \subseteq z
      BY <1>4, <2>3 DEF Chain
    <3>2. Body(prev) \subseteq Body(z)
      BY <1>1, <3>1, BodyMonotone
    <3> QED
      BY <1>2, <2>3, <3>2
  <2> QED
    BY <1>2, <2>2, <2>3
<1>5. ASSUME op \in GreatestOps
      PROVE  /\ Body(current) \subseteq current
             /\ \A z \in SUBSET State : z \subseteq Body(z) => z \subseteq current
  <2>1. current \subseteq prev
    BY <1>5 DEF Chain
  <2>2. Body(current) \subseteq Body(prev)
    BY <1>1, <2>1, BodyMonotone
  <2>3. ASSUME NEW z \in SUBSET State, z \subseteq Body(z)
        PROVE  z \subseteq current
    <3>1. z \subseteq prev
      BY <1>5, <2>3 DEF Chain
    <3>2. Body(z) \subseteq Body(prev)
      BY <1>1, <3>1, BodyMonotone
    <3> QED
      BY <1>2, <2>3, <3>2
  <2> QED
    BY <1>2, <2>2, <2>3
<1> QED
  BY <1>3, <1>4, <1>5

LEMMA IterateInv == IInv /\ Iterate => IInv'
<1> SUFFICES ASSUME IInv, Iterate PROVE IInv'
  OBVIOUS
<1>1. /\ op' = op /\ pc = "loop" /\ pc' = "loop"
      /\ prev' = current /\ current' = Body(current)
  BY DEF Iterate, args
<1>2. ASSUME NEW z \in SUBSET State PROVE Body(z)' = Body(z)
  BY BodySteady DEF Iterate
<1>3. current \in SUBSET State /\ TypeOK
  BY DEF IInv, TypeOK
<1>4. current' = Body(prev)'
  BY <1>1, <1>3, BodySteady DEF Iterate
<1>5. TypeOK'
  BY <1>1, <1>3, IterateChain DEF TypeOK, Iterate, args
<1>6. Chain'
  BY <1>1, <1>2, <1>4, IterateChain DEF Chain
<1>7. Settled'
  BY <1>1 DEF Settled
<1> QED
  BY <1>5, <1>6, <1>7 DEF IInv

\* Return and stuttering leave the equation and both approximations alone.
LEMMA QuietInv ==
  IInv /\ (Return \/ UNCHANGED vars) => IInv'
<1> SUFFICES ASSUME IInv, Return \/ UNCHANGED vars PROVE IInv'
  OBVIOUS
<1>1. /\ UNCHANGED args
      /\ op' = op /\ prev' = prev /\ current' = current
      /\ pc' \in {"loop", "done"} => pc \in {"loop", "done"}
      /\ pc' = "done" => prev = current
      /\ pc' \in {"call", "loop", "done"}
  BY DEF Return, args, vars, IInv, Settled, TypeOK
<1>2. ASSUME NEW z \in SUBSET State PROVE Body(z)' = Body(z)
  BY <1>1, BodySteady
<1>3. prev \in SUBSET State
  BY DEF IInv, TypeOK
<1>4. Body(prev)' = Body(prev)
  BY <1>1, <1>3, BodySteady
<1>5. TypeOK'
  BY <1>1 DEF IInv, TypeOK, args
<1>6. Chain'
  BY <1>1, <1>2, <1>4 DEF IInv, Chain
<1>7. Settled'
  BY <1>1 DEF Settled
<1> QED
  BY <1>5, <1>6, <1>7 DEF IInv

LEMMA Inductive == IInv /\ [Next]_vars => IInv'
BY EnterInv, IterateInv, QuietInv DEF Next

-----------------------------------------------------------------------------
\* IInv holds before, during and after every call of EF, AF, EG, AG, EU and AU.
THEOREM Invariance == Spec => []IInv
BY InvInit, Inductive, PTL DEF Spec

\* Every BDD the loops of ctlmc.c handle is a set of states.
THEOREM TypeCorrect == Spec => []TypeOK
BY Invariance, PTL DEF IInv

\* When a loop has settled, its chain has reached the fixpoint.
LEMMA ResultIsFixpoint == IInv => FixpointResult
<1>1. ASSUME IInv, pc = "done" PROVE FixpointResult
  <2>1. prev = current /\ current = Body(prev)
    BY <1>1 DEF IInv, Settled, Chain
  <2>2. Body(current) = current
    BY <2>1
  <2> QED
    BY <1>1, <2>1, <2>2 DEF FixpointResult, IInv, Chain
<1> QED
  BY <1>1 DEF FixpointResult

\* What each of EF, AF, EG, AG, EU and AU returns is the least or greatest
\* solution of its equation, for every transition relation and argument.
THEOREM FixpointCorrect == Spec => []FixpointResult
BY ResultIsFixpoint, Invariance, PTL

\* No turn of a loop takes back what an earlier turn added (least fixpoints)
\* or adds again what one removed (greatest fixpoints).
THEOREM MonotoneApproximations == Spec => MonotoneChain
<1>1. IInv /\ [Next]_vars =>
        [pc = "loop" =>
           /\ op \in LeastOps => prev \subseteq prev' /\ current \subseteq current'
           /\ op \in GreatestOps => prev' \subseteq prev /\ current' \subseteq current
        ]_vars
  <2> SUFFICES ASSUME IInv, Next, pc = "loop"
               PROVE  /\ op \in LeastOps => prev \subseteq prev' /\ current \subseteq current'
                      /\ op \in GreatestOps => prev' \subseteq prev /\ current' \subseteq current
    OBVIOUS
  <2>1. CASE Iterate
    BY <2>1, IterateChain DEF Iterate, IInv, Chain
  <2>2. CASE Return
    BY <2>2 DEF Return
  <2> QED
    BY <2>1, <2>2 DEF Next, Enter
<1> QED
  BY <1>1, Invariance, PTL DEF Spec, MonotoneChain

-----------------------------------------------------------------------------
\* The paths of CtlPaths, of any relation r.  A path can be continued at its end and at its start.
LEMMA PathContinued ==
  ASSUME NEW r, NEW n \in Nat, NEW f \in Paths!PathOf(r, n),
         NEW t \in State, <<f[n], t>> \in r
  PROVE  [k \in 0..(n+1) |-> IF k <= n THEN f[k] ELSE t] \in Paths!PathOf(r, n+1)
<1> DEFINE g == [k \in 0..(n+1) |-> IF k <= n THEN f[k] ELSE t]
<1>1. f \in [0..n -> State] /\ \A k \in 0..(n-1) : <<f[k], f[k+1]>> \in r
  BY DEF Paths!PathOf
<1>2. g \in [0..(n+1) -> State]
  BY <1>1
<1>3. ASSUME NEW k \in 0..((n+1)-1) PROVE <<g[k], g[k+1]>> \in r
  <2>1. CASE k = n
    BY <2>1
  <2>2. CASE k # n
    BY <2>2, <1>1
  <2> QED
    BY <2>1, <2>2
<1> HIDE DEF g
<1>4. g \in Paths!PathOf(r, n+1)
  BY <1>2, <1>3 DEF Paths!PathOf
<1> QED
  BY <1>4 DEF g

LEMMA PathPreceded ==
  ASSUME NEW r, NEW n \in Nat, NEW f \in Paths!PathOf(r, n),
         NEW s \in State, <<s, f[0]>> \in r
  PROVE  [k \in 0..(n+1) |-> IF k = 0 THEN s ELSE f[k-1]] \in Paths!PathOf(r, n+1)
<1> DEFINE g == [k \in 0..(n+1) |-> IF k = 0 THEN s ELSE f[k-1]]
<1>1. f \in [0..n -> State] /\ \A k \in 0..(n-1) : <<f[k], f[k+1]>> \in r
  BY DEF Paths!PathOf
<1>2. g \in [0..(n+1) -> State]
  BY <1>1
<1>3. ASSUME NEW k \in 0..((n+1)-1) PROVE <<g[k], g[k+1]>> \in r
  <2>1. CASE k = 0
    BY <2>1
  <2>2. CASE k # 0
    BY <2>2, <1>1
  <2> QED
    BY <2>1, <2>2
<1> HIDE DEF g
<1>4. g \in Paths!PathOf(r, n+1)
  BY <1>2, <1>3 DEF Paths!PathOf
<1> QED
  BY <1>4 DEF g

\* A walk of n steps that stays in p until it reaches q.
Walk(r, f, n, p, q) ==
  f \in Paths!PathOf(r, n) /\ (\A k \in 0..(n-1) : f[k] \in p) /\ f[n] \in q

\* A walk longer than there are states visits one of them twice, and what is
\* between the two visits can be left out.
LEMMA WalkShortened ==
  ASSUME NEW r, NEW n \in Nat, n > Cardinality(State), NEW p, NEW q, NEW f, Walk(r, f, n, p, q)
  PROVE  \E m \in 0..(n-1) : \E g : Walk(r, g, m, p, q) /\ g[0] = f[0]
<1>1. f \in [0..n -> State] /\ \A k \in 0..(n-1) : <<f[k], f[k+1]>> \in r
  BY DEF Walk, Paths!PathOf
<1>2. IsFiniteSet(0..n) /\ Cardinality(0..n) = n + 1 /\ Cardinality(State) \in Nat
  BY FS_Interval, FS_CardinalityType, FiniteStates
<1>3. \E x, y \in 0..n : x # y /\ f[x] = f[y]
  BY <1>1, <1>2, FS_PigeonHole, FiniteStates
<1>4. PICK x, y \in 0..n : x < y /\ f[x] = f[y]
  BY <1>3
<1> DEFINE m == n - (y - x)
           g == [k \in 0..m |-> IF k <= x THEN f[k] ELSE f[k + (y - x)]]
<1>5. m \in 0..(n-1) /\ x <= m
  BY <1>4
<1>6. g \in [0..m -> State]
  BY <1>1, <1>4, <1>5
<1>7. ASSUME NEW k \in 0..(m-1) PROVE <<g[k], g[k+1]>> \in r /\ g[k] \in p
  <2>1. CASE k < x
    BY <1>1, <1>5, <2>1 DEF Walk
  <2>2. CASE k = x
    <3>1. g[k] = f[y] /\ g[k+1] = f[y+1] /\ y \in 0..(n-1)
      BY <1>4, <1>5, <2>2
    <3> QED
      BY <1>1, <3>1 DEF Walk
  <2>3. CASE k > x
    <3>1. g[k] = f[k + (y-x)] /\ g[k+1] = f[(k + (y-x)) + 1] /\ k + (y-x) \in 0..(n-1)
      BY <1>4, <1>5, <2>3
    <3> QED
      BY <1>1, <3>1 DEF Walk
  <2> QED
    BY <1>5, <2>1, <2>2, <2>3
<1>8. g[m] = f[n] /\ g[0] = f[0]
  BY <1>4, <1>5
<1> HIDE DEF g, m
<1>9. Walk(r, g, m, p, q)
  BY <1>6, <1>7, <1>8 DEF Walk, Paths!PathOf
<1> QED
  BY <1>5, <1>8, <1>9

\* So the walks of CtlPaths, which are no longer than there are states, are
\* all that matter.
LEMMA AnyWalk ==
  ASSUME NEW r, NEW n \in Nat, NEW p, NEW q, NEW f, Walk(r, f, n, p, q)
  PROVE  f[0] \in Paths!SomeUntil(r, p, q)
<1> DEFINE S == {m \in Nat : \E g : Walk(r, g, m, p, q) /\ g[0] = f[0]}
<1>1. PICK m \in S : \A k \in S : m <= k
  BY HasLeast
<1>2. PICK g : Walk(r, g, m, p, q) /\ g[0] = f[0]
  BY <1>1
<1>3. Cardinality(State) \in Nat
  BY FS_CardinalityType, FiniteStates
<1>4. m <= Cardinality(State)
  <2> SUFFICES ASSUME m > Cardinality(State) PROVE FALSE
    BY <1>1, <1>3
  <2>1. PICK k \in 0..(m-1) : \E h : Walk(r, h, k, p, q) /\ h[0] = g[0]
    BY <1>1, <1>2, WalkShortened
  <2> QED
    BY <1>1, <1>2, <2>1
<1>5. g \in Paths!PathOf(r, m) /\ m \in 0..Cardinality(State)
  BY <1>1, <1>2, <1>3, <1>4 DEF Walk
<1>6. g[0] \in State
  BY <1>1, <1>5 DEF Paths!PathOf
<1> QED
  BY <1>2, <1>5, <1>6 DEF Walk, Paths!SomeUntil

\* The states with a step into z.
StepInto(r, z) == {s \in State : \E t \in z : <<s, t>> \in r}

LEMMA StepIsEX ==
  ASSUME NEW z \in SUBSET State
  PROVE  StepInto(trans, z) = EX(z)
BY DEF EX, StepInto

\* What a least fixpoint over paths is: its states walk in p to q.
LEMMA UntilClosed ==
  ASSUME NEW r, NEW p \in SUBSET State, NEW q \in SUBSET State
  PROVE  q \cup (p \cap StepInto(r, Paths!SomeUntil(r, p, q))) \subseteq Paths!SomeUntil(r, p, q)
<1> DEFINE U == Paths!SomeUntil(r, p, q)
<1>1. ASSUME NEW s \in q PROVE s \in U
  <2> DEFINE f == [k \in 0..0 |-> s]
  <2>1. Walk(r, f, 0, p, q) /\ f[0] = s
    BY <1>1 DEF Walk, Paths!PathOf
  <2> QED
    BY <2>1, AnyWalk
<1>2. ASSUME NEW s \in p, NEW t \in U, <<s, t>> \in r PROVE s \in U
  <2>0. PICK n \in 0..Cardinality(State) : \E f : Walk(r, f, n, p, q) /\ f[0] = t
    BY <1>2 DEF Paths!SomeUntil, Walk
  <2>1. PICK f : Walk(r, f, n, p, q) /\ f[0] = t
    BY <2>0
  <2>2. n \in Nat /\ s \in State
    BY <2>1, FS_CardinalityType, FiniteStates
  <2> DEFINE g == [k \in 0..(n+1) |-> IF k = 0 THEN s ELSE f[k-1]]
  <2>3. g \in Paths!PathOf(r, n+1)
    BY <1>2, <2>1, <2>2, PathPreceded DEF Walk
  <2>4. (\A k \in 0..((n+1)-1) : g[k] \in p) /\ g[n+1] \in q /\ g[0] = s
    <3>1. ASSUME NEW k \in 0..((n+1)-1) PROVE g[k] \in p
      <4>1. CASE k = 0
        BY <4>1, <2>2
      <4>2. CASE k # 0
        BY <4>2, <2>1, <2>2 DEF Walk
      <4> QED
        BY <4>1, <4>2
    <3> QED
      BY <3>1, <2>1, <2>2 DEF Walk
  <2>5. Walk(r, g, n+1, p, q)
    BY <2>3, <2>4 DEF Walk
  <2> HIDE DEF g
  <2> QED
    BY <2>2, <2>4, <2>5, AnyWalk
<1> QED
  BY <1>1, <1>2 DEF StepInto

LEMMA UntilLeast ==
  ASSUME NEW r, NEW p \in SUBSET State, NEW q \in SUBSET State, NEW z \in SUBSET State,
         q \cup (p \cap StepInto(r, z)) \subseteq z
  PROVE  Paths!SomeUntil(r, p, q) \subseteq z
<1> SUFFICES ASSUME NEW s \in Paths!SomeUntil(r, p, q) PROVE s \in z
  OBVIOUS
<1>0. PICK n \in 0..Cardinality(State) : \E f : Walk(r, f, n, p, q) /\ f[0] = s
  BY DEF Paths!SomeUntil, Walk
<1>1. PICK f : Walk(r, f, n, p, q) /\ f[0] = s
  BY <1>0
<1>2. n \in Nat
  BY FS_CardinalityType, FiniteStates
<1> DEFINE S == {k \in Nat : k <= n => f[n-k] \in z}
<1>3. f \in [0..n -> State] /\ (\A k \in 0..(n-1) : <<f[k], f[k+1]>> \in r /\ f[k] \in p) /\ f[n] \in q
  BY <1>1 DEF Walk, Paths!PathOf
<1>4. 0 \in S
  BY <1>2, <1>3
<1>5. ASSUME NEW k \in S PROVE k+1 \in S
  <2> SUFFICES ASSUME k+1 <= n PROVE f[n-(k+1)] \in z
    OBVIOUS
  <2>1. f[n-k] \in z /\ n-(k+1) \in 0..(n-1) /\ (n-(k+1))+1 = n-k
    BY <1>2
  <2>2. <<f[n-(k+1)], f[n-k]>> \in r /\ f[n-(k+1)] \in p /\ f[n-(k+1)] \in State
    BY <1>2, <1>3, <2>1
  <2> QED
    BY <2>1, <2>2 DEF StepInto
<1>6. S = Nat
  BY <1>4, <1>5, SetInduction
<1>7. n \in S
  BY <1>2, <1>6
<1> QED
  BY <1>1, <1>2, <1>7

LEMMA UntilConsistent ==
  ASSUME TypeOK, NEW p \in SUBSET State, NEW q \in SUBSET State
  PROVE  Paths!SomeUntil(trans, p, q) \subseteq q \cup (p \cap EX(Paths!SomeUntil(trans, p, q)))
<1> DEFINE U == Paths!SomeUntil(trans, p, q)
           z == q \cup (p \cap EX(U))
<1>1. U \in SUBSET State
  BY DEF Paths!SomeUntil
<1>2. z \subseteq U
  BY <1>1, UntilClosed, StepIsEX
<1> HIDE DEF U
<1>3. z \in SUBSET State /\ EX(z) \subseteq EX(U)
  BY <1>1, <1>2, PreImageMonotone
<1>4. q \cup (p \cap StepInto(trans, z)) \subseteq z
  BY <1>3, StepIsEX
<1> HIDE DEF z
<1>5. Paths!SomeUntil(trans, p, q) \subseteq z
  BY <1>3, <1>4, UntilLeast
<1> QED
  BY <1>5 DEF U, z

\* What a greatest fixpoint over paths is: its states have paths in p of any
\* length.  A set whose every state has a successor in it has such paths ...
LEMMA AlwaysGreatest ==
  ASSUME TypeOK, NEW p \in SUBSET State, NEW y \in SUBSET State, y \subseteq p \cap EX(y)
  PROVE  y \subseteq Paths!SomeAlways(trans, p)
<1> SUFFICES ASSUME NEW s \in y PROVE s \in Paths!SomeAlways(trans, p)
  OBVIOUS
<1> DEFINE Stays(f, n) == f \in Paths!PathOf(trans, n) /\ f[0] = s /\ \A k \in 0..n : f[k] \in y
           S == {n \in Nat : \E f : Stays(f, n)}
<1>1. 0 \in S
  <2> DEFINE f == [k \in 0..0 |-> s]
  <2>1. Stays(f, 0)
    BY DEF Paths!PathOf
  <2> QED
    BY <2>1
<1>2. ASSUME NEW n \in S PROVE n+1 \in S
  <2>1. PICK f : Stays(f, n)
    BY <1>2
  <2>2. n \in Nat /\ f[n] \in y
    BY <1>2, <2>1
  <2>3. PICK t \in y : <<f[n], t>> \in trans
    BY <2>2 DEF EX
  <2> DEFINE g == [k \in 0..(n+1) |-> IF k <= n THEN f[k] ELSE t]
  <2>4. g \in Paths!PathOf(trans, n+1)
    BY <2>1, <2>2, <2>3, PathContinued
  <2>5. g[0] = s /\ \A k \in 0..(n+1) : g[k] \in y
    BY <2>1, <2>2, <2>3
  <2> HIDE DEF g
  <2> QED
    BY <2>2, <2>4, <2>5
<1>3. S = Nat
  BY <1>1, <1>2, SetInduction
<1>4. ASSUME NEW n \in 0..Cardinality(State)
      PROVE  \E f \in Paths!PathOf(trans, n) : f[0] = s /\ \A k \in 0..n : f[k] \in p
  <2>1. n \in S
    BY <1>3, <1>4, FS_CardinalityType, FiniteStates
  <2>2. PICK f : Stays(f, n)
    BY <2>1
  <2> QED
    BY <2>2
<1> QED
  BY <1>4 DEF Paths!SomeAlways

\* ... and a path of as many steps as there are states runs into itself, so that
\* it can be continued for ever.
LEMMA AlwaysConsistent ==
  ASSUME TypeOK, NEW p \in SUBSET State
  PROVE  Paths!SomeAlways(trans, p) \subseteq p \cap EX(Paths!SomeAlways(trans, p))
<1> DEFINE A == Paths!SomeAlways(trans, p)
<1> SUFFICES ASSUME NEW s \in A PROVE s \in p \cap EX(A)
  OBVIOUS
<1>0. PICK N \in Nat : N = Cardinality(State)
  BY FS_CardinalityType, FiniteStates
<1>1. IsFiniteSet(0..N) /\ Cardinality(State) < Cardinality(0..N)
  <2>1. IsFiniteSet(0..N) /\ Cardinality(0..N) = N + 1
    BY FS_Interval
  <2> QED
    BY <1>0, <2>1
<1>2. PICK f \in Paths!PathOf(trans, N) : f[0] = s /\ \A k \in 0..N : f[k] \in p
  BY <1>0 DEF Paths!SomeAlways
<1>3. f \in [0..N -> State] /\ \A k \in 0..(N-1) : <<f[k], f[k+1]>> \in trans
  BY <1>2 DEF Paths!PathOf
<1>4. \E a, b \in 0..N : a # b /\ f[a] = f[b]
  BY <1>1, <1>3, FS_PigeonHole, FiniteStates
<1>5. PICK a, b \in 0..N : a < b /\ f[a] = f[b]
  BY <1>4
<1> DEFINE z == {f[k] : k \in 0..b}
<1>6. z \in SUBSET State /\ z \subseteq p
  BY <1>2, <1>3, <1>5
<1>7. ASSUME NEW k \in 0..b PROVE \E t \in z : <<f[k], t>> \in trans
  <2>1. CASE k < b
    <3>1. k \in 0..(N-1) /\ k+1 \in 0..b
      BY <2>1
    <3> QED
      BY <1>3, <3>1
  <2>2. CASE k = b
    <3>1. a \in 0..(N-1) /\ a+1 \in 0..b
      BY <1>5
    <3> QED
      BY <1>3, <1>5, <2>2, <3>1
  <2>3. k < b \/ k = b
    OBVIOUS
  <2> QED
    BY <2>1, <2>2, <2>3
<1>8. z \subseteq p \cap EX(z)
  BY <1>6, <1>7 DEF EX
<1>9. s \in z
  BY <1>2, <1>5
<1> HIDE DEF z
<1>10. z \subseteq A
  BY <1>6, <1>8, AlwaysGreatest
<1>11. A \in SUBSET State
  BY DEF Paths!SomeAlways
<1> HIDE DEF A
<1>12. EX(z) \subseteq EX(A)
  BY <1>6, <1>10, <1>11, PreImageMonotone
<1> QED
  BY <1>8, <1>9, <1>12

\* What CtlFixpoint returns, compared with an operator over paths: EF and EU.
LEMMA LeastIsUntil ==
  ASSUME TypeOK, NEW p \in SUBSET State, NEW q \in SUBSET State, NEW x \in SUBSET State,
         q \cup (p \cap EX(x)) = x,
         \A z \in SUBSET State : q \cup (p \cap EX(z)) \subseteq z => x \subseteq z
  PROVE  x = Paths!SomeUntil(trans, p, q)
<1>1. Paths!SomeUntil(trans, p, q) \in SUBSET State
  BY DEF Paths!SomeUntil
<1>2. x \subseteq Paths!SomeUntil(trans, p, q)
  BY <1>1, UntilClosed, StepIsEX
<1>3. Paths!SomeUntil(trans, p, q) \subseteq x
  BY UntilLeast, StepIsEX
<1> QED
  BY <1>2, <1>3

\* The greatest solution of y = q \cup (p \cap EX(y)): its states walk in p to
\* q, or stay in p as long as one likes.  EG, and the complements of AF and AU.
LEMMA GreatestIsWeakUntil ==
  ASSUME TypeOK, NEW p \in SUBSET State, NEW q \in SUBSET State, NEW x \in SUBSET State,
         q \cup (p \cap EX(x)) = x,
         \A y \in SUBSET State : y \subseteq q \cup (p \cap EX(y)) => y \subseteq x
  PROVE  x = Paths!SomeAlways(trans, p) \cup Paths!SomeUntil(trans, p, q)
<1> DEFINE A == Paths!SomeAlways(trans, p)
           U == Paths!SomeUntil(trans, p, q)
<1>1. A \in SUBSET State /\ U \in SUBSET State
  BY DEF Paths!SomeAlways, Paths!SomeUntil
<1>2. A \subseteq p \cap EX(A) /\ U \subseteq q \cup (p \cap EX(U)) /\ q \cup (p \cap EX(U)) \subseteq U
  BY AlwaysConsistent, UntilConsistent, UntilClosed, StepIsEX
<1> HIDE DEF A, U
<1>3. A \cup U \subseteq q \cup (p \cap EX(A \cup U))
  <2>1. EX(A) \subseteq EX(A \cup U) /\ EX(U) \subseteq EX(A \cup U)
    BY <1>1, PreImageMonotone
  <2> QED
    BY <1>2, <2>1
<1>4. A \cup U \subseteq x
  BY <1>1, <1>3
<1>5. x \ U \subseteq p \cap EX(x \ U)
  <2> SUFFICES ASSUME NEW s \in x, s \notin U PROVE s \in p /\ s \in EX(x \ U)
    OBVIOUS
  <2>1. s \in p /\ s \in EX(x) /\ s \in State
    BY <1>2
  <2>2. PICK t \in x : <<s, t>> \in trans
    BY <2>1 DEF EX
  <2>3. t \notin U
    BY <1>2, <2>1, <2>2 DEF EX
  <2> QED
    BY <2>1, <2>2, <2>3 DEF EX
<1>6. x \ U \subseteq A
  BY <1>5, AlwaysGreatest DEF A
<1> QED
  BY <1>4, <1>6 DEF A, U

\* The result of each loop is a least solution of one shape or the complement
\* of a greatest one of the same shape, or the other way round.
LEMMA ResultOverPaths ==
  ASSUME IInv, FixpointResult, pc = "done"
  PROVE  current = Paths!Promise(op, trans, beforeStates, finallyStates)
<1> DEFINE x == current
           p == beforeStates
           q == finallyStates
<1>1. x \in SUBSET State /\ p \in SUBSET State /\ q \in SUBSET State /\ op \in LoopOps /\ TypeOK
  BY DEF IInv, TypeOK
<1>2. Body(x) = x
  BY DEF FixpointResult
<1>3. op \in LeastOps => \A z \in SUBSET State : Body(z) \subseteq z => x \subseteq z
  BY DEF FixpointResult
<1>4. op \in GreatestOps => \A z \in SUBSET State : z \subseteq Body(z) => z \subseteq x
  BY DEF FixpointResult
<1>5. ASSUME NEW z \in SUBSET State
      PROVE  EX(z) \in SUBSET State /\ AX(z) \in SUBSET State
  BY PreImageMonotone
<1> HIDE DEF x, p, q
<1>6. CASE op = "EF"
  <2>1. ASSUME NEW z \in SUBSET State PROVE Body(z) = q \cup (State \cap EX(z))
    BY <1>5, <1>6 DEF Body, EF, q
  <2>2. q \cup (State \cap EX(x)) = x
    BY <1>1, <1>2, <2>1
  <2>3. \A z \in SUBSET State : q \cup (State \cap EX(z)) \subseteq z => x \subseteq z
    BY <1>3, <1>6, <2>1 DEF LeastOps
  <2>4. x = Paths!SomeUntil(trans, State, q)
    BY <1>1, <2>2, <2>3, LeastIsUntil
  <2> QED
    BY <1>6, <2>4 DEF Paths!Promise, x, q
<1>7. CASE op = "EU"
  <2>1. ASSUME NEW z \in SUBSET State PROVE Body(z) = q \cup (p \cap EX(z))
    BY <1>7 DEF Body, EU, p, q
  <2>2. q \cup (p \cap EX(x)) = x
    BY <1>1, <1>2, <2>1
  <2>3. \A z \in SUBSET State : q \cup (p \cap EX(z)) \subseteq z => x \subseteq z
    BY <1>3, <1>7, <2>1 DEF LeastOps
  <2>4. x = Paths!SomeUntil(trans, p, q)
    BY <1>1, <2>2, <2>3, LeastIsUntil
  <2> QED
    BY <1>7, <2>4 DEF Paths!Promise, x, p, q
<1>8. CASE op = "EG"
  <2>1. ASSUME NEW z \in SUBSET State PROVE Body(z) = {} \cup (q \cap EX(z))
    BY <1>8 DEF Body, EG, q
  <2>2. {} \cup (q \cap EX(x)) = x
    BY <1>1, <1>2, <2>1
  <2>3. \A z \in SUBSET State : z \subseteq {} \cup (q \cap EX(z)) => z \subseteq x
    BY <1>4, <1>8, <2>1 DEF GreatestOps
  <2>4. x = Paths!SomeAlways(trans, q) \cup Paths!SomeUntil(trans, q, {})
    BY <1>1, <2>2, <2>3, GreatestIsWeakUntil
  <2>5. Paths!SomeUntil(trans, q, {}) = {}
    BY DEF Paths!SomeUntil
  <2> QED
    BY <1>8, <2>4, <2>5 DEF Paths!Promise, x, q
<1> DEFINE Not(z) == State \ z
<1>9. ASSUME NEW z \in SUBSET State
      PROVE  /\ Not(z) \in SUBSET State /\ EX(Not(z)) \in SUBSET State
             /\ \A s \in State : s \in Not(z) <=> s \notin z
             /\ State \ z = Not(z)
  BY <1>5
<1>13. ASSUME NEW z \in SUBSET State PROVE Not(Not(z)) = z
  OBVIOUS
<1> HIDE DEF Not
<1>10. CASE op = "AF"
  <2>1. ASSUME NEW z \in SUBSET State PROVE Not(Body(z)) = {} \cup (Not(q) \cap EX(Not(z)))
    <3>1. Body(z) = q \cup (State \ EX(Not(z)))
      BY <1>9, <1>10 DEF Body, AF, AX, q
    <3>2. Body(z) \in SUBSET State
      BY <1>1, BodyMonotone
    <3> QED
      BY <1>1, <1>9, <3>1, <3>2
  <2>2. {} \cup (Not(q) \cap EX(Not(x))) = Not(x)
    BY <1>1, <1>2, <2>1
  <2>3. ASSUME NEW y \in SUBSET State, y \subseteq {} \cup (Not(q) \cap EX(y)) PROVE y \subseteq Not(x)
    <3>1. Body(Not(y)) \in SUBSET State
      BY <1>9, <1>1, BodyMonotone
    <3>2. Body(Not(y)) \subseteq Not(y)
      BY <1>9, <1>13, <2>1, <2>3, <3>1
    <3>3. x \subseteq Not(y)
      BY <1>3, <1>9, <1>10, <3>2 DEF LeastOps
    <3> QED
      BY <1>1, <1>9, <3>3
  <2>4. Not(x) = Paths!SomeAlways(trans, Not(q)) \cup Paths!SomeUntil(trans, Not(q), {})
    <3>1. Not(x) \in SUBSET State /\ Not(q) \in SUBSET State /\ {} \in SUBSET State
      BY <1>1, <1>9
    <3> HIDE DEF Not
    <3> QED
      BY <3>1, <1>1, <2>2, <2>3, GreatestIsWeakUntil
  <2>5. Paths!SomeUntil(trans, Not(q), {}) = {}
    BY DEF Paths!SomeUntil
  <2>6. x = State \ Paths!SomeAlways(trans, State \ q)
    BY <1>1, <2>4, <2>5 DEF Not
  <2> QED
    BY <1>10, <2>6 DEF Paths!Promise, x, q
<1>11. CASE op = "AG"
  <2>1. ASSUME NEW z \in SUBSET State PROVE Not(Body(z)) = Not(q) \cup (State \cap EX(Not(z)))
    <3>1. Body(z) = q \cap (State \ EX(Not(z)))
      BY <1>9, <1>11 DEF Body, AG, AX, q
    <3>2. Body(z) \in SUBSET State
      BY <1>1, BodyMonotone
    <3> QED
      BY <1>1, <1>9, <3>1, <3>2
  <2>2. Not(q) \cup (State \cap EX(Not(x))) = Not(x)
    BY <1>1, <1>2, <2>1
  <2>3. ASSUME NEW y \in SUBSET State, Not(q) \cup (State \cap EX(y)) \subseteq y PROVE Not(x) \subseteq y
    <3>1. Body(Not(y)) \in SUBSET State
      BY <1>9, <1>1, BodyMonotone
    <3>2. Not(y) \subseteq Body(Not(y))
      BY <1>9, <1>13, <2>1, <2>3, <3>1
    <3>3. Not(y) \subseteq x
      BY <1>4, <1>9, <1>11, <3>2 DEF GreatestOps
    <3> QED
      BY <1>1, <1>9, <3>3
  <2>4. Not(x) = Paths!SomeUntil(trans, State, Not(q))
    <3> DEFINE y == Not(x)
               a == Not(q)
               every == State
    <3>1. y \in SUBSET State /\ a \in SUBSET State /\ every \in SUBSET State
      BY <1>1, <1>9
    <3>2. a \cup (every \cap EX(y)) = y
      BY <2>2
    <3>3. \A z \in SUBSET State : a \cup (every \cap EX(z)) \subseteq z => y \subseteq z
      BY <2>3
    <3> HIDE DEF y, a, every
    <3>4. y = Paths!SomeUntil(trans, every, a)
      BY <3>1, <1>1, <3>2, <3>3, LeastIsUntil
    <3> QED
      BY <3>4 DEF y, a, every
  <2>5. x = State \ Paths!SomeUntil(trans, State, State \ q)
    BY <1>1, <2>4 DEF Not
  <2> QED
    BY <1>11, <2>5 DEF Paths!Promise, x, q
<1>12. CASE op = "AU"
  <2> DEFINE b == p \ q
             d == State \ (p \cup q)
  <2>0. b \in SUBSET State /\ d \in SUBSET State
    BY <1>1
  <2>1. ASSUME NEW z \in SUBSET State PROVE Not(Body(z)) = d \cup (b \cap EX(Not(z)))
    <3>1. Body(z) = q \cup (p \cap (State \ EX(Not(z))))
      BY <1>9, <1>12 DEF Body, AU, AX, p, q
    <3>2. Body(z) \in SUBSET State
      BY <1>1, BodyMonotone
    <3> QED
      BY <1>1, <1>9, <3>1, <3>2
  <2>2. d \cup (b \cap EX(Not(x))) = Not(x)
    BY <1>1, <1>2, <2>1
  <2>3. ASSUME NEW y \in SUBSET State, y \subseteq d \cup (b \cap EX(y)) PROVE y \subseteq Not(x)
    <3>1. Body(Not(y)) \in SUBSET State
      BY <1>9, <1>1, BodyMonotone
    <3>2. Body(Not(y)) \subseteq Not(y)
      BY <1>9, <1>13, <2>1, <2>3, <3>1
    <3>3. x \subseteq Not(y)
      BY <1>3, <1>9, <1>12, <3>2 DEF LeastOps
    <3> QED
      BY <1>1, <1>9, <3>3
  <2>4. Not(x) = Paths!SomeAlways(trans, b) \cup Paths!SomeUntil(trans, b, d)
    <3>1. Not(x) \in SUBSET State
      BY <1>1, <1>9
    <3> HIDE DEF Not, b, d
    <3> QED
      BY <3>1, <1>1, <2>0, <2>2, <2>3, GreatestIsWeakUntil
  <2>5. x = State \ (Paths!SomeAlways(trans, b) \cup Paths!SomeUntil(trans, b, d))
    BY <1>1, <2>4 DEF Not
  <2> QED
    BY <1>12, <2>5 DEF Paths!Promise, x, p, q
<1> QED
  BY <1>1, <1>6, <1>7, <1>8, <1>10, <1>11, <1>12 DEF LoopOps, LeastOps, GreatestOps, UntilOps, x, p, q

\* What a call returns is the set of the states whose paths keep the promise of
\* its operator: a finite witness for EF and EU, paths as long as one likes for
\* EG, and no such counterexample for AF, AG and AU.
THEOREM PathsCorrect == Spec => []PathSemantics
<1>1. IInv /\ FixpointResult => PathSemantics
  BY ResultOverPaths DEF PathSemantics
<1> QED
  BY <1>1, Invariance, FixpointCorrect, PTL

-----------------------------------------------------------------------------
\* check(), which calls them.

\* The subformulas of the token sequence, and the states that satisfy them.
Shape == Begins(tokens, Variables, Unary, Binary)
SetsOf(r) == Values(tokens, Leaf, Unary, One(r), Binary, Two(r))
Sets == SetsOf(trans)

CheckType ==
  /\ label \in [Declared -> SUBSET State]
  /\ tokens \in Seq(STRING \X Nat)
  /\ i \in 0..Len(tokens)
  /\ stack = [capacity |-> Len(tokens), stack |-> stack.stack]
  /\ stack.stack \in Seq({Null} \cup SUBSET State)
  /\ Len(stack.stack) <= i
  /\ status \in {"read", "call", "returned", "exit3", "undefined"}
  /\ status = "call" => i < Len(tokens)
  /\ status \in {"read", "returned"} /\ i > 0 =>
       stack.stack # <<>> /\ recentNode = stack.stack[Len(stack.stack)]
  /\ status = "returned" => i = Len(tokens) /\ Len(stack.stack) = 1

\* Every operand so far was there: the stack is what the tokens read mean.
\* While a function runs, it computes the meaning of the next subformula.
Sound ==
  /\ stack.stack \in Seq(SUBSET State)
  /\ status # "call" => Tiles(Shape, Sets, stack.stack, i)
  /\ status = "call" =>
       /\ Shape[i+1] # 0
       /\ Tiles(Shape, Sets, stack.stack, Shape[i+1] - 1)
       /\ Sets[i+1] = Paths!Promise(op, trans, beforeStates, finallyStates)

\* A `!' found no operand: the NULL that it pushed is under all that came later.
Broken == ~IsFormula(tokens) /\ OnNull(stack.stack, Null)

Refused == status \in {"exit3", "undefined"} => ~IsFormula(tokens)

CheckInv == IInv /\ CheckType /\ (Broken \/ Sound) /\ Refused

-----------------------------------------------------------------------------
LEMMA LeafDomain == DOMAIN Leaf = Variables
BY DEF Leaf

LEMMA Disjoint == TokenKinds(DOMAIN Leaf, Unary, Binary)
<1>1. Variables \cap Unary = {} /\ Variables \cap Binary = {}
  BY DEF Variables, Unary, Binary, isOperator
<1>2. Unary \cap Binary = {}
  BY DEF Unary, Binary, TemporalUnary, TemporalBinary, BinaryOps,
         OP_NOT, OP_OR, OP_AND, OP_XOR, OP_IFF
<1> QED
  BY <1>1, <1>2, LeafDomain DEF TokenKinds

LEMMA PromiseTyped ==
  ASSUME NEW t \in LoopOps, NEW r, NEW p \in SUBSET State, NEW q \in SUBSET State
  PROVE  Paths!Promise(t, r, p, q) \in SUBSET State
BY DEF Paths!Promise, LoopOps, LeastOps, GreatestOps, Paths!SomeUntil, Paths!SomeAlways

LEMMA OfOneTyped ==
  ASSUME NEW t \in Unary, NEW r, NEW p \in SUBSET State
  PROVE  OfOne(r, t, p) \in SUBSET State
<1>1. CASE t = OP_NOT
  BY <1>1 DEF OfOne
<1>2. CASE t \in {<<"EX", 0>>, <<"AX", 0>>}
  BY <1>2 DEF OfOne, OP_NOT
<1>3. CASE t \in {<<"EF", 0>>, <<"AF", 0>>, <<"EG", 0>>, <<"AG", 0>>}
  <2>1. OfOne(r, t, p) = Paths!Promise(t[1], r, {}, p) /\ t[1] \in LoopOps
    BY <1>3 DEF OfOne, OP_NOT, LoopOps, LeastOps, GreatestOps
  <2> QED
    BY <2>1, PromiseTyped
<1> QED
  BY <1>1, <1>2, <1>3 DEF Unary, TemporalUnary

LEMMA OfTwoTyped ==
  ASSUME NEW t \in Binary, NEW r, NEW p \in SUBSET State, NEW q \in SUBSET State
  PROVE  OfTwo(r, t, p, q) \in SUBSET State
<1>1. CASE t \in BinaryOps
  BY <1>1 DEF OfTwo, BinaryOps, OP_OR, OP_AND, OP_XOR, OP_IFF
<1>2. CASE t \in TemporalBinary
  <2>1. OfTwo(r, t, p, q) = Paths!Promise(t[1], r, p, q) /\ t[1] \in LoopOps
    BY <1>2 DEF OfTwo, TemporalBinary, OP_OR, OP_AND, OP_XOR, OP_IFF, LoopOps, LeastOps
  <2> QED
    BY <2>1, PromiseTyped
<1> QED
  BY <1>1, <1>2 DEF Binary

Inputs == label \in [Declared -> SUBSET State] /\ tokens \in Seq(STRING \X Nat)

\* Every subformula stands for a set of states.
LEMMA SetsTyped ==
  ASSUME Inputs, NEW r, NEW j \in 0..Len(tokens)
  PROVE  SetsOf(r)[j] \in SUBSET State
<1> DEFINE b == Shape
           v == SetsOf(r)
           S == {n \in Nat : n <= Len(tokens) /\ v[n] \notin SUBSET State}
<1>0. Len(tokens) \in Nat
  BY DEF Inputs
<1>1. b = Begins(tokens, DOMAIN Leaf, Unary, Binary)
      /\ v = Values(tokens, Leaf, Unary, One(r), Binary, Two(r))
  BY LeafDomain DEF Shape, SetsOf
<1> HIDE DEF b, v
<1>2. ASSUME NEW n \in S PROVE FALSE
  <2>1. PICK m \in S : \A k \in S : m <= k
    BY <1>2, HasLeast
  <2>2. m \in Nat /\ m <= Len(tokens) /\ v[m] \notin SUBSET State
        /\ \A k \in 0..(m-1) : v[k] \in SUBSET State
    <3>1. \A k \in 0..(m-1) : k \in Nat /\ k <= Len(tokens) /\ ~(m <= k)
      BY <1>0, <2>1
    <3> QED
      BY <2>1, <3>1
  <2> HIDE DEF S
  <2>3. CASE m = 0
    BY <1>0, <1>1, <2>2, <2>3, Disjoint, ValuesUnfold, BeginFacts DEF AreValues, ValueAt
  <2>4. CASE m # 0
    <3>1. PICK k \in 0..(Len(tokens) - 1) : m = k + 1
      <4>1. m - 1 \in 0..(Len(tokens) - 1) /\ m = (m - 1) + 1
        BY <1>0, <2>2, <2>4
      <4> QED
        BY <4>1
    <3>2. /\ b[0] = 0 /\ b[k] \in 0..k
          /\ tokens[k+1] \in DOMAIN Leaf => b[k+1] = k+1
          /\ tokens[k+1] \in Unary  => b[k+1] = b[k]
          /\ tokens[k+1] \in Binary => b[k+1] = IF b[k] > 1 THEN b[b[k] - 1] ELSE 0
          /\ tokens[k+1] \notin DOMAIN Leaf \cup Unary \cup Binary => b[k+1] = 0
      BY <1>0, <1>1, Disjoint, BeginCases
    <3>3. /\ b[k+1] = 0 => v[k+1] = {}
          /\ b[k+1] # 0 =>
               /\ tokens[k+1] \in DOMAIN Leaf => v[k+1] = Leaf[tokens[k+1]]
               /\ tokens[k+1] \in Unary  => v[k+1] = One(r)[<<tokens[k+1], v[k]>>]
               /\ tokens[k+1] \in Binary => v[k+1] = Two(r)[<<tokens[k+1], v[b[k] - 1], v[k]>>]
      BY <1>0, <1>1, Disjoint, ValueCases
    <3>4. v[k] \in SUBSET State
      BY <2>2, <3>1
    <3>5. CASE b[k+1] = 0
      BY <2>2, <3>1, <3>3, <3>5
    <3>6. CASE tokens[k+1] \in DOMAIN Leaf /\ b[k+1] # 0
      <4>1. Leaf[tokens[k+1]] \in SUBSET State
        BY <3>6, LeafDomain DEF Leaf, Variables, Inputs
      <4> QED
        BY <2>2, <3>1, <3>3, <3>6, <4>1
    <3>7. CASE tokens[k+1] \in Unary /\ b[k+1] # 0
      <4>1. One(r)[<<tokens[k+1], v[k]>>] = OfOne(r, tokens[k+1], v[k])
        BY <3>4, <3>7 DEF One
      <4>2. OfOne(r, tokens[k+1], v[k]) \in SUBSET State
        BY <3>4, <3>7, OfOneTyped
      <4> QED
        BY <2>2, <3>1, <3>3, <3>7, <4>1, <4>2
    <3>8. CASE tokens[k+1] \in Binary /\ b[k+1] # 0
      <4>1. b[k] \in Nat /\ b[k] > 1 /\ b[k] <= k
        BY <3>2, <3>8
      <4>2. b[k] - 1 \in 0..(m-1)
        BY <3>1, <4>1
      <4>3. v[b[k] - 1] \in SUBSET State
        BY <2>2, <4>2
      <4>4. Two(r)[<<tokens[k+1], v[b[k] - 1], v[k]>>] = OfTwo(r, tokens[k+1], v[b[k] - 1], v[k])
        BY <3>4, <3>8, <4>3 DEF Two
      <4>5. OfTwo(r, tokens[k+1], v[b[k] - 1], v[k]) \in SUBSET State
        BY <3>4, <3>8, <4>3, OfTwoTyped
      <4> QED
        BY <2>2, <3>1, <3>3, <3>8, <4>4, <4>5
    <3> QED
      BY <3>2, <3>5, <3>6, <3>7, <3>8
  <2> QED
    BY <2>3, <2>4
<1>3. j \in Nat /\ j <= Len(tokens)
  BY <1>0
<1> QED
  BY <1>2, <1>3 DEF v

\* What the next token makes of the subformulas before it.
LEMMA Reads ==
  ASSUME Inputs, NEW r, NEW v, v = SetsOf(r), NEW j \in 0..(Len(tokens) - 1),
         NEW t, t = tokens[j+1]
  PROVE  /\ Shape[0] = 0 /\ Shape[j] \in 0..j
         /\ t \in Variables => Shape[j+1] = j+1 /\ v[j+1] = label[t]
         /\ t \in Unary => /\ Shape[j+1] = Shape[j]
                           /\ Shape[j+1] # 0 => v[j+1] = OfOne(r, t, v[j])
         /\ t \in Binary =>
              /\ Shape[j+1] = IF Shape[j] > 1 THEN Shape[Shape[j] - 1] ELSE 0
              /\ Shape[j+1] # 0 => v[j+1] = OfTwo(r, t, v[Shape[j] - 1], v[j])
         /\ t \notin Variables \cup Unary \cup Binary => Shape[j+1] = 0
<1> DEFINE b == Shape
<1>0. Len(tokens) \in Nat /\ j \in 0..Len(tokens)
  BY DEF Inputs
<1>1. b = Begins(tokens, DOMAIN Leaf, Unary, Binary)
      /\ v = Values(tokens, Leaf, Unary, One(r), Binary, Two(r))
  BY LeafDomain DEF Shape, SetsOf
<1> HIDE DEF b
<1>2. /\ b[0] = 0 /\ b[j] \in 0..j
      /\ tokens[j+1] \in DOMAIN Leaf => b[j+1] = j+1
      /\ tokens[j+1] \in Unary  => b[j+1] = b[j]
      /\ tokens[j+1] \in Binary => b[j+1] = IF b[j] > 1 THEN b[b[j] - 1] ELSE 0
      /\ tokens[j+1] \notin DOMAIN Leaf \cup Unary \cup Binary => b[j+1] = 0
  BY <1>0, <1>1, Disjoint, BeginCases
<1>3. /\ b[j+1] = 0 => v[j+1] = {}
      /\ b[j+1] # 0 =>
           /\ tokens[j+1] \in DOMAIN Leaf => v[j+1] = Leaf[tokens[j+1]]
           /\ tokens[j+1] \in Unary  => v[j+1] = One(r)[<<tokens[j+1], v[j]>>]
           /\ tokens[j+1] \in Binary => v[j+1] = Two(r)[<<tokens[j+1], v[b[j] - 1], v[j]>>]
  BY <1>0, <1>1, Disjoint, ValueCases
<1>4. v[j] \in SUBSET State
  BY <1>0, SetsTyped
<1>5. ASSUME t \in Variables PROVE v[j+1] = label[t]
  BY <1>0, <1>2, <1>3, <1>5, LeafDomain DEF Leaf
<1>6. ASSUME t \in Unary, b[j+1] # 0 PROVE v[j+1] = OfOne(r, t, v[j])
  <2>1. One(r)[<<t, v[j]>>] = OfOne(r, t, v[j])
    BY <1>4, <1>6 DEF One
  <2> QED
    BY <1>3, <1>6, <2>1
<1>7. ASSUME t \in Binary, b[j+1] # 0 PROVE v[j+1] = OfTwo(r, t, v[b[j] - 1], v[j])
  <2>1. b[j] \in Nat /\ b[j] > 1 /\ b[j] <= j
    BY <1>2, <1>7
  <2>2. b[j] - 1 \in 0..Len(tokens)
    BY <1>0, <2>1
  <2>3. v[b[j] - 1] \in SUBSET State
    BY <2>2, SetsTyped
  <2>4. Two(r)[<<t, v[b[j] - 1], v[j]>>] = OfTwo(r, t, v[b[j] - 1], v[j])
    BY <1>4, <1>7, <2>3 DEF Two
  <2> QED
    BY <1>3, <1>7, <2>4
<1> QED
  BY <1>2, <1>5, <1>6, <1>7, LeafDomain DEF b

\* What a token that ends no subformula means for the whole.
LEMMA NoFormula ==
  ASSUME Inputs, NEW n \in 1..Len(tokens), Shape[n] = 0
  PROVE  ~IsFormula(tokens)
<1>1. Len(tokens) \in Nat
  BY DEF Inputs
<1> QED
  BY <1>1, Stuck DEF Shape, IsFormula

\* The answer is that of the last subformula.
LEMMA WholeMeaning ==
  /\ IsFormula(tokens) <=> Shape[Len(tokens)] = 1
  /\ Meaning(trans, tokens) = Sets[Len(tokens)]
BY LeafDomain DEF IsFormula, IsPostfix, Shape, Sets, SetsOf, Meaning, PostfixValue

\* Neither changes while check() runs.
LEMMA Steady ==
  ASSUME UNCHANGED <<trans, label, tokens>>
  PROVE  /\ Shape' = Shape /\ Sets' = Sets
         /\ (IsFormula(tokens))' <=> IsFormula(tokens)
BY DEF Shape, Sets, SetsOf, Leaf, IsFormula

-----------------------------------------------------------------------------
\* What the pops of a turn find and leave; a pop of an empty stack is harmless.
Nodes == {Null} \cup SUBSET State

Holding(d) == [capacity |-> Len(tokens), stack |-> d]

LEMMA StackCalls ==
  ASSUME NEW d, NEW node
  PROVE  /\ Popped(Holding(d)) = Top(d, Null)
         /\ ddStack_pop(Holding(d)) = Holding(Beneath(d))
         /\ Len(d) < Len(tokens) => ddStack_push(Holding(d), node) = Holding(Append(d, node))
<1>1. Holding(d).stack = d /\ Holding(d).capacity = Len(tokens)
  BY DEF Holding
<1>2. ASSUME NEW x PROVE [Holding(d) EXCEPT !.stack = x] = Holding(x)
  BY DEF Holding
<1>3. Popped(Holding(d)) = Top(d, Null)
  BY <1>1 DEF Popped, Top
<1>4. ddStack_pop(Holding(d)) = Holding(Beneath(d))
  BY <1>1, <1>2 DEF ddStack_pop, Beneath
<1>5. ASSUME Len(d) < Len(tokens) PROVE ddStack_push(Holding(d), node) = Holding(Append(d, node))
  BY <1>1, <1>2, <1>5 DEF ddStack_push
<1> QED
  BY <1>3, <1>4, <1>5

LEMMA Operands ==
  ASSUME CheckType
  PROVE  /\ Operand1 = Top(stack.stack, Null) /\ Operand2 = Top(Beneath(stack.stack), Null)
         /\ Below1 = Holding(Beneath(stack.stack))
         /\ Below2 = Holding(Beneath(Beneath(stack.stack)))
<1>1. PICK d : d = stack.stack
  OBVIOUS
<1>2. stack = Holding(d)
  BY <1>1 DEF CheckType, Holding
<1>3. /\ Popped(stack) = Top(d, Null) /\ ddStack_pop(stack) = Holding(Beneath(d))
      /\ Popped(Holding(Beneath(d))) = Top(Beneath(d), Null)
      /\ ddStack_pop(Holding(Beneath(d))) = Holding(Beneath(Beneath(d)))
  BY <1>2, StackCalls
<1> QED
  BY <1>1, <1>3 DEF Operand1, Operand2, Below1, Below2

-----------------------------------------------------------------------------
\* The end of a turn.
LEMMA PushType ==
  ASSUME Inputs, CheckType, NEW c \in Seq(Nodes), NEW node \in Nodes,
         Len(c) <= i, i < Len(tokens), Push(Holding(c), node), UNCHANGED <<label, tokens>>
  PROVE  /\ CheckType' /\ Refused'
         /\ stack'.stack = Append(c, node) /\ i' = i + 1 /\ status' = "read"
<1>1. i \in Nat /\ Len(tokens) \in Nat /\ Len(c) \in Nat
  BY DEF Inputs, CheckType
<1>2. /\ stack' = [capacity |-> Len(tokens), stack |-> Append(c, node)]
      /\ recentNode' = node /\ i' = i + 1 /\ status' = "read"
  <2>1. Len(c) < Len(tokens)
    BY <1>1
  <2>2. ddStack_push(Holding(c), node) = Holding(Append(c, node))
    BY <2>1, StackCalls
  <2>3. stack' = Holding(Append(c, node))
    BY <2>2 DEF Push
  <2> QED
    BY <2>3 DEF Push, Holding
<1>3. /\ Append(c, node) \in Seq(Nodes) /\ Append(c, node) # <<>>
      /\ Len(Append(c, node)) = Len(c) + 1 /\ Append(c, node)[Len(c) + 1] = node
  OBVIOUS
<1> DEFINE a == Append(c, node)
<1> HIDE DEF a
<1>4. /\ stack'.stack = a /\ stack' = [capacity |-> Len(tokens), stack |-> a]
      /\ a \in Seq(Nodes) /\ a # <<>> /\ Len(a) = Len(c) + 1 /\ a[Len(a)] = node
  BY <1>2, <1>3 DEF a
<1>5. CheckType'
  <2>1. Len(tokens') = Len(tokens) /\ i' \in 0..Len(tokens)
    BY <1>1, <1>2
  <2>2. Len(a) <= i'
    BY <1>1, <1>2, <1>4
  <2>3. label' \in [Declared -> SUBSET State] /\ tokens' \in Seq(STRING \X Nat)
    BY DEF Inputs
  <2> QED
    BY <1>2, <1>4, <2>1, <2>2, <2>3 DEF CheckType, Nodes
<1> QED
  BY <1>2, <1>4, <1>5 DEF a, Refused

LEMMA PushSound ==
  ASSUME Inputs, CheckType, NEW c \in Seq(SUBSET State), NEW node,
         Len(c) <= i, i < Len(tokens), Push(Holding(c), node),
         UNCHANGED <<trans, label, tokens>>,
         Shape[i+1] \in Nat \ {0}, Tiles(Shape, Sets, c, Shape[i+1] - 1), node = Sets[i+1]
  PROVE  CheckType' /\ Refused' /\ Sound'
<1>1. i \in Nat /\ i + 1 \in 0..Len(tokens)
  BY DEF Inputs, CheckType
<1>2. node \in SUBSET State
  BY <1>1, SetsTyped DEF Sets
<1>3. c \in Seq(Nodes) /\ node \in Nodes
  <2>1. SUBSET State \subseteq Nodes
    BY DEF Nodes
  <2> QED
    BY <1>2, <2>1, SeqMonotonic
<1>4. /\ CheckType' /\ Refused'
      /\ stack'.stack = Append(c, node) /\ i' = i + 1 /\ status' = "read"
  BY <1>3, PushType
<1>5. Tiles(Shape, Sets, Append(c, Sets[i+1]), i+1)
  BY <1>1, <1>2, TilesPush
<1>6. Shape' = Shape /\ Sets' = Sets
  BY Steady
<1>7. Append(c, node) \in Seq(SUBSET State)
  BY <1>2
<1>8. Tiles(Shape', Sets', stack'.stack, i')
  BY <1>4, <1>5, <1>6
<1> QED
  BY <1>4, <1>7, <1>8 DEF Sound

LEMMA PushOnNull ==
  ASSUME Inputs, CheckType, NEW c \in Seq(Nodes), NEW node \in Nodes,
         Len(c) <= i, i < Len(tokens), Push(Holding(c), node),
         UNCHANGED <<trans, label, tokens>>, ~IsFormula(tokens),
         (OnNull(c, Null) /\ node # Null) \/ (c = <<>> /\ node = Null)
  PROVE  CheckType' /\ Refused' /\ Broken'
<1>1. CheckType' /\ Refused' /\ stack'.stack = Append(c, node)
  BY PushType
<1>2. OnNull(Append(c, node), Null)
  BY AppendOnNull
<1>3. ~(IsFormula(tokens))'
  BY Steady
<1>4. OnNull(stack'.stack, Null)
  BY <1>1, <1>2
<1> QED
  BY <1>1, <1>3, <1>4 DEF Broken, OnNull

-----------------------------------------------------------------------------
\* What the operators compute is what they mean.
LEMMA ApplyMeaning ==
  ASSUME NEW t \in BinaryOps, NEW r, NEW a \in SUBSET State, NEW b \in SUBSET State
  PROVE  Apply(t, a, b) = OfTwo(r, t, b, a)
<1>1. CASE t = OP_OR
  BY <1>1 DEF Apply, OfTwo, OP_OR, OP_AND, OP_XOR, OP_IFF
<1>2. CASE t = OP_AND
  BY <1>2 DEF Apply, OfTwo, OP_OR, OP_AND, OP_XOR, OP_IFF
<1>3. CASE t = OP_XOR
  BY <1>3 DEF Apply, OfTwo, OP_OR, OP_AND, OP_XOR, OP_IFF
<1>4. CASE t = OP_IFF
  BY <1>4 DEF Apply, OfTwo, OP_OR, OP_AND, OP_XOR, OP_IFF
<1> QED
  BY <1>1, <1>2, <1>3, <1>4 DEF BinaryOps

LEMMA NextMeaning ==
  ASSUME TypeOK, NEW p \in SUBSET State
  PROVE  /\ OfOne(trans, <<"EX", 0>>, p) = EX(p)
         /\ OfOne(trans, <<"AX", 0>>, p) = AX(p)
<1>1. \A e \in trans : e = <<e[1], e[2]>> /\ e[1] \in State /\ e[2] \in State
  BY DEF TypeOK
<1>2. OfOne(trans, <<"EX", 0>>, p) = {s \in State : \E e \in trans : e[1] = s /\ e[2] \in p}
  BY DEF OfOne, OP_NOT
<1>3. OfOne(trans, <<"AX", 0>>, p) = {s \in State : \A e \in trans : e[1] = s => e[2] \in p}
  BY DEF OfOne, OP_NOT
<1>4. ASSUME NEW s \in State
      PROVE  /\ (\E e \in trans : e[1] = s /\ e[2] \in p) <=> \E t \in p : <<s, t>> \in trans
             /\ (\A e \in trans : e[1] = s => e[2] \in p)
                  <=> ~ \E t \in State \ p : <<s, t>> \in trans
  BY <1>1
<1> QED
  BY <1>2, <1>3, <1>4 DEF EX, AX

\* check() stops, after the last token or in front of one.
LEMMA StopInv ==
  ASSUME CheckInv, status = "read", UNCHANGED vars,
         UNCHANGED <<label, tokens, i, stack, recentNode>>,
         \/ status' \in {"exit3", "undefined"} /\ ~IsFormula(tokens)
         \/ status' = "returned" /\ i = Len(tokens) /\ Len(stack.stack) = 1
  PROVE  CheckInv'
<1>1. UNCHANGED <<trans, label, tokens>>
  BY DEF vars
<1>2. IInv'
  BY QuietInv DEF CheckInv
<1>3. CheckType'
  BY DEF CheckInv, CheckType
<1>4. Shape' = Shape /\ Sets' = Sets /\ ((IsFormula(tokens))' <=> IsFormula(tokens))
  BY <1>1, Steady
<1>5. Refused'
  BY <1>4 DEF Refused
<1>6. CASE Sound
  <2>1. /\ stack'.stack \in Seq(SUBSET State) /\ status' # "call"
        /\ Tiles(Shape', Sets', stack'.stack, i')
    BY <1>4, <1>6 DEF Sound
  <2> QED
    BY <1>2, <1>3, <1>5, <2>1 DEF CheckInv, Sound
<1>7. CASE Broken
  <2>1. Broken'
    BY <1>4, <1>7 DEF Broken, OnNull
  <2> QED
    BY <1>2, <1>3, <1>5, <2>1 DEF CheckInv
<1> QED
  BY <1>6, <1>7 DEF CheckInv

\* What the next token is to the subformulas.
LEMMA Turn ==
  ASSUME CheckInv, Reading
  PROVE  /\ Inputs /\ i \in 0..(Len(tokens) - 1) /\ i + 1 \in 1..Len(tokens) /\ i < Len(tokens)
         /\ Shape[0] = 0 /\ Shape[i] \in 0..i
         /\ token \in Variables => Shape[i+1] = i+1 /\ Sets[i+1] = label[token]
         /\ token \in Unary => /\ Shape[i+1] = Shape[i]
                               /\ Shape[i+1] # 0 => Sets[i+1] = OfOne(trans, token, Sets[i])
         /\ token \in Binary =>
              /\ Shape[i+1] = IF Shape[i] > 1 THEN Shape[Shape[i] - 1] ELSE 0
              /\ Shape[i+1] # 0 => Sets[i+1] = OfTwo(trans, token, Sets[Shape[i] - 1], Sets[i])
         /\ token \notin Variables \cup Unary \cup Binary => Shape[i+1] = 0
         /\ Shape[i+1] = 0 => ~IsFormula(tokens)
<1>1. Inputs /\ i \in 0..(Len(tokens) - 1) /\ i + 1 \in 1..Len(tokens) /\ i < Len(tokens)
  BY DEF CheckInv, CheckType, Inputs, Reading
<1>2. Shape[i+1] = 0 => ~IsFormula(tokens)
  BY <1>1, NoFormula
<1>3. token = tokens[i+1]
  BY DEF token
<1> QED
  BY <1>1, <1>2, <1>3, Reads DEF Sets

StackIs(d) == stack.stack = d

\* The operands of an operator, and what is beneath them.
LEMMA UnaryOperand ==
  ASSUME CheckInv, Reading, token \in Unary, NEW d, StackIs(d)
  PROVE  /\ d \in Seq(Nodes) /\ Operand1 \in Nodes /\ Below1 = Holding(Beneath(d))
         /\ Beneath(d) \in Seq(Nodes) /\ Len(Beneath(d)) <= i
         /\ Operand1 = Null => ~IsFormula(tokens) /\ Beneath(d) = <<>>
         /\ Operand1 # Null /\ Broken => OnNull(Beneath(d), Null)
         /\ Operand1 # Null /\ Sound =>
              /\ Beneath(d) \in Seq(SUBSET State)
              /\ Shape[i+1] \in Nat \ {0} /\ Tiles(Shape, Sets, Beneath(d), Shape[i+1] - 1)
              /\ Sets[i+1] = OfOne(trans, token, Operand1)
<1>1. d \in Seq({Null} \cup SUBSET State) /\ Len(d) <= i /\ i \in Nat /\ CheckType
  BY DEF CheckInv, CheckType, StackIs
<1>2. Operand1 = Top(d, Null) /\ Below1 = Holding(Beneath(d))
  BY <1>1, Operands DEF StackIs
<1>3. PICK n : n = i + 1
  OBVIOUS
<1>4. /\ Shape[0] = 0 /\ Shape[n] = Shape[i]
      /\ Shape[n] # 0 => Sets[n] = OfOne(trans, token, Sets[i])
      /\ Shape[n] = 0 => ~IsFormula(tokens)
  BY <1>3, Turn
<1>5. Null \notin SUBSET State
  BY NullIsNoSet
<1>6. /\ Top(d, Null) \in {Null} \cup SUBSET State
      /\ Beneath(d) \in Seq({Null} \cup SUBSET State) /\ Len(Beneath(d)) <= Len(d)
      /\ d \in Seq(SUBSET State) /\ Tiles(Shape, Sets, d, i) =>
           /\ Top(d, Null) = Null => Shape[n] = 0 /\ Beneath(d) = <<>>
           /\ Top(d, Null) # Null =>
                /\ Top(d, Null) = Sets[i] /\ Beneath(d) \in Seq(SUBSET State)
                /\ Shape[n] \in Nat \ {0} /\ Tiles(Shape, Sets, Beneath(d), Shape[n] - 1)
      /\ OnNull(d, Null) =>
           /\ Top(d, Null) = Null => Beneath(d) = <<>>
           /\ Top(d, Null) # Null => OnNull(Beneath(d), Null)
  BY <1>1, <1>4, <1>5, UnaryStack
<1>7. Sound => d \in Seq(SUBSET State) /\ Tiles(Shape, Sets, d, i)
  BY DEF Sound, Reading, StackIs
<1>8. Broken => ~IsFormula(tokens) /\ OnNull(d, Null)
  BY DEF Broken, StackIs
<1>9. Len(Beneath(d)) <= i
  <2>1. Len(d) \in Nat /\ Len(Beneath(d)) \in Nat
    BY <1>1, <1>6
  <2> QED
    BY <1>1, <1>6, <2>1
<1>10. Operand1 = Null => ~IsFormula(tokens) /\ Beneath(d) = <<>>
  BY <1>2, <1>4, <1>6, <1>7, <1>8 DEF CheckInv
<1>11. Operand1 # Null /\ Sound =>
         /\ Beneath(d) \in Seq(SUBSET State)
         /\ Shape[n] \in Nat \ {0} /\ Tiles(Shape, Sets, Beneath(d), Shape[n] - 1)
         /\ Sets[n] = OfOne(trans, token, Operand1)
  BY <1>2, <1>4, <1>6, <1>7
<1> QED
  BY <1>1, <1>2, <1>3, <1>6, <1>8, <1>9, <1>10, <1>11 DEF Nodes

LEMMA BinaryOperands ==
  ASSUME CheckInv, Reading, token \in Binary, NEW d, StackIs(d)
  PROVE  /\ d \in Seq(Nodes) /\ Operand1 \in Nodes /\ Operand2 \in Nodes
         /\ Below2 = Holding(Beneath(Beneath(d)))
         /\ Beneath(Beneath(d)) \in Seq(Nodes) /\ Len(Beneath(Beneath(d))) <= i
         /\ Null \in {Operand1, Operand2} => ~IsFormula(tokens)
         /\ Null \notin {Operand1, Operand2} /\ Broken => OnNull(Beneath(Beneath(d)), Null)
         /\ Null \notin {Operand1, Operand2} /\ Sound =>
              /\ Beneath(Beneath(d)) \in Seq(SUBSET State)
              /\ Shape[i+1] \in Nat \ {0}
              /\ Tiles(Shape, Sets, Beneath(Beneath(d)), Shape[i+1] - 1)
              /\ Sets[i+1] = OfTwo(trans, token, Operand2, Operand1)
<1>1. d \in Seq({Null} \cup SUBSET State) /\ Len(d) <= i /\ i \in Nat /\ CheckType
  BY DEF CheckInv, CheckType, StackIs
<1>2. Operand1 = Top(d, Null) /\ Operand2 = Top(Beneath(d), Null) /\ Below2 = Holding(Beneath(Beneath(d)))
  BY <1>1, Operands DEF StackIs
<1>3. PICK n : n = i + 1
  OBVIOUS
<1>4. /\ Shape[0] = 0 /\ Joins(Shape, i, n)
      /\ Shape[n] # 0 => Sets[n] = OfTwo(trans, token, Sets[Shape[i] - 1], Sets[i])
      /\ Shape[n] = 0 => ~IsFormula(tokens)
  BY <1>3, Turn DEF Joins
<1>5. Null \notin SUBSET State
  BY NullIsNoSet
<1>6. /\ Top(d, Null) \in {Null} \cup SUBSET State /\ Top(Beneath(d), Null) \in {Null} \cup SUBSET State
      /\ Beneath(Beneath(d)) \in Seq({Null} \cup SUBSET State) /\ Len(Beneath(Beneath(d))) <= Len(d)
      /\ d \in Seq(SUBSET State) /\ Tiles(Shape, Sets, d, i) =>
           /\ Top(d, Null) = Null \/ Top(Beneath(d), Null) = Null => Shape[n] = 0
           /\ Top(d, Null) # Null /\ Top(Beneath(d), Null) # Null =>
                /\ Top(d, Null) = Sets[i] /\ Top(Beneath(d), Null) = Sets[Shape[i] - 1]
                /\ Beneath(Beneath(d)) \in Seq(SUBSET State)
                /\ Shape[n] \in Nat \ {0} /\ Tiles(Shape, Sets, Beneath(Beneath(d)), Shape[n] - 1)
      /\ OnNull(d, Null) /\ Top(d, Null) # Null /\ Top(Beneath(d), Null) # Null => OnNull(Beneath(Beneath(d)), Null)
  <2>1. d \in Seq({Null} \cup SUBSET State) /\ Shape[0] = 0 /\ Joins(Shape, i, n)
    BY <1>1, <1>4
  <2> QED
    BY ONLY <1>5, <2>1, BinaryStack
<1>7. Sound => d \in Seq(SUBSET State) /\ Tiles(Shape, Sets, d, i)
  BY DEF Sound, Reading, StackIs
<1>8. Broken => ~IsFormula(tokens) /\ OnNull(d, Null)
  BY DEF Broken, StackIs
<1>9. Len(Beneath(Beneath(d))) <= i
  <2>1. Len(d) \in Nat /\ Len(Beneath(Beneath(d))) \in Nat
    BY <1>1, <1>6
  <2> QED
    BY <1>1, <1>6, <2>1
<1>10. Null \in {Operand1, Operand2} => ~IsFormula(tokens)
  BY <1>2, <1>4, <1>6, <1>7, <1>8 DEF CheckInv
<1>11. Null \notin {Operand1, Operand2} /\ Sound =>
         /\ Beneath(Beneath(d)) \in Seq(SUBSET State)
         /\ Shape[n] \in Nat \ {0} /\ Tiles(Shape, Sets, Beneath(Beneath(d)), Shape[n] - 1)
         /\ Sets[n] = OfTwo(trans, token, Operand2, Operand1)
  BY <1>2, <1>4, <1>6, <1>7
<1> QED
  BY <1>1, <1>2, <1>3, <1>6, <1>8, <1>9, <1>10, <1>11 DEF Nodes

-----------------------------------------------------------------------------
\* The actions of check().
LEMMA QuietFixpoint ==
  ASSUME CheckInv, UNCHANGED vars
  PROVE  IInv' /\ UNCHANGED trans
BY QuietInv DEF CheckInv, vars

LEMMA RefuseInv == CheckInv /\ Refuse => CheckInv'
<1> SUFFICES ASSUME CheckInv, Refuse PROVE CheckInv'
  OBVIOUS
<1>1. Reading /\ UNCHANGED vars /\ UNCHANGED <<i, stack, recentNode>> /\ status' = "exit3"
  BY DEF Refuse
<1>2. token \notin Variables \cup Unary \cup Binary
  <2>1. ASSUME token \in Unary \cup Binary PROVE isOperator(token) /\ ~isPrimedToken(token)
    <3>1. isOperator(token)
      BY <2>1 DEF isOperator, Unary, Binary
    <3>2. token[2] = 0
      BY <2>1 DEF Unary, Binary, BinaryOps, TemporalUnary, TemporalBinary,
                  OP_NOT, OP_OR, OP_AND, OP_XOR, OP_IFF
    <3> QED
      BY <3>1, <3>2 DEF isPrimedToken
  <2> QED
    BY <2>1 DEF Refuse, Variables
<1>3. ~IsFormula(tokens)
  BY <1>1, <1>2, Turn
<1> QED
  BY <1>1, <1>3, StopInv DEF Reading

LEMMA ReadWithoutInv == CheckInv /\ ReadWithout => CheckInv'
<1> SUFFICES ASSUME CheckInv, ReadWithout PROVE CheckInv'
  OBVIOUS
<1>1. Reading /\ UNCHANGED vars /\ UNCHANGED <<i, stack, recentNode>> /\ status' = "undefined"
  BY DEF ReadWithout
<1>2. PICK d : StackIs(d)
  BY DEF StackIs
<1>3. ~IsFormula(tokens)
  <2>1. CASE token \in Binary /\ Null \in {Operand1, Operand2}
    BY <1>1, <1>2, <2>1, BinaryOperands
  <2>2. CASE token \in Unary /\ Operand1 = Null
    BY <1>1, <1>2, <2>2, UnaryOperand
  <2> QED
    BY <2>1, <2>2 DEF ReadWithout, Binary, Unary
<1> QED
  BY <1>1, <1>3, StopInv DEF Reading

LEMMA AtEndInv == CheckInv /\ (ReturnRoot \/ Malformed) => CheckInv'
<1> SUFFICES ASSUME CheckInv, ReturnRoot \/ Malformed PROVE CheckInv'
  OBVIOUS
<1>1. /\ status = "read" /\ UNCHANGED vars /\ UNCHANGED <<label, tokens, i, stack, recentNode>>
      /\ i = Len(tokens)
  BY DEF ReturnRoot, Malformed, AtEnd
<1>2. CASE ReturnRoot
  BY <1>1, <1>2, StopInv DEF ReturnRoot
<1>3. CASE Malformed
  <2>1. ~IsFormula(tokens)
    <3>1. CASE Sound
      <4>0. PICK d : StackIs(d)
        BY DEF StackIs
      <4>1. d \in Seq(SUBSET State) /\ Tiles(Shape, Sets, d, i)
        BY <1>1, <3>1, <4>0 DEF Sound, StackIs
      <4>2. Shape[0] = 0
        <5>1. Len(tokens) \in Nat
          BY DEF CheckInv, CheckType
        <5>2. Shape[0] \in 0..0
          BY <5>1, BeginFacts DEF Shape
        <5> QED
          BY <5>2
      <4>3. /\ Len(d) = 1 <=> Shape[i] = 1
            /\ Len(d) = 1 => d[1] = Sets[i]
        BY <4>1, <4>2, TilesOne
      <4> QED
        BY <1>1, <1>3, <4>0, <4>3, WholeMeaning DEF Malformed, StackIs
    <3>2. CASE Broken
      BY <3>2 DEF Broken
    <3> QED
      BY <3>1, <3>2 DEF CheckInv
  <2> QED
    BY <1>1, <1>3, <2>1, StopInv DEF Malformed
<1> QED
  BY <1>2, <1>3

\* The actions that end with a push.
LEMMA TurnInv ==
  ASSUME CheckInv, Reading, UNCHANGED vars, NEW c \in Seq(Nodes), NEW node \in Nodes,
         Len(c) <= i, Push(Holding(c), node),
         \/ /\ Sound /\ c \in Seq(SUBSET State) /\ node = Sets[i+1]
            /\ Shape[i+1] \in Nat \ {0} /\ Tiles(Shape, Sets, c, Shape[i+1] - 1)
         \/ ~IsFormula(tokens) /\ ((OnNull(c, Null) /\ node # Null) \/ (c = <<>> /\ node = Null))
  PROVE  CheckInv'
<1>1. Inputs /\ i < Len(tokens) /\ CheckType
  BY Turn DEF CheckInv
<1>2. IInv' /\ UNCHANGED <<trans, label, tokens>>
  BY QuietFixpoint DEF Reading
<1>3. CASE /\ Sound /\ c \in Seq(SUBSET State) /\ node = Sets[i+1]
           /\ Shape[i+1] \in Nat \ {0} /\ Tiles(Shape, Sets, c, Shape[i+1] - 1)
  <2>1. CheckType' /\ Refused' /\ Sound'
    BY <1>1, <1>2, <1>3, PushSound
  <2> QED
    BY <1>2, <2>1 DEF CheckInv
<1>4. CASE ~IsFormula(tokens) /\ ((OnNull(c, Null) /\ node # Null) \/ (c = <<>> /\ node = Null))
  <2>1. CheckType' /\ Refused' /\ Broken'
    BY <1>1, <1>2, <1>4, PushOnNull
  <2> QED
    BY <1>2, <2>1 DEF CheckInv
<1> QED
  BY <1>3, <1>4

LEMMA ReadVariableInv == CheckInv /\ ReadVariable => CheckInv'
<1> SUFFICES ASSUME CheckInv, ReadVariable PROVE CheckInv'
  OBVIOUS
<1>1. PICK d : StackIs(d)
  BY DEF StackIs
<1>2. /\ Reading /\ UNCHANGED vars /\ token \in Variables
      /\ stack = Holding(d) /\ Push(Holding(d), label[token])
      /\ d \in Seq(Nodes) /\ Len(d) <= i /\ i \in Nat
  BY <1>1 DEF ReadVariable, Variables, CheckInv, CheckType, StackIs, Holding, Nodes
<1>3. label[token] \in SUBSET State /\ label[token] \in Nodes /\ label[token] # Null
  BY <1>2, NullIsNoSet DEF Variables, CheckInv, CheckType, Nodes
<1>4. CASE Sound
  <2>1. /\ Shape[i+1] = i+1 /\ label[token] = Sets[i+1] /\ Shape[i+1] \in Nat \ {0}
        /\ Shape[i+1] - 1 = i
    BY <1>2, Turn
  <2>2. d \in Seq(SUBSET State) /\ Tiles(Shape, Sets, d, i)
    BY <1>1, <1>2, <1>4 DEF Sound, StackIs, Reading
  <2>3. Tiles(Shape, Sets, d, Shape[i+1] - 1)
    BY <2>1, <2>2
  <2> QED
    BY <1>2, <1>3, <1>4, <2>1, <2>2, <2>3, TurnInv
<1>5. CASE Broken
  <2>1. ~IsFormula(tokens) /\ OnNull(d, Null)
    BY <1>1, <1>5 DEF Broken, StackIs
  <2> QED
    BY <1>2, <1>3, <2>1, TurnInv
<1> QED
  BY <1>4, <1>5 DEF CheckInv

LEMMA ReadNotInv == CheckInv /\ ReadNot => CheckInv'
<1> SUFFICES ASSUME CheckInv, ReadNot PROVE CheckInv'
  OBVIOUS
<1> DEFINE node == IF Operand1 = Null THEN Null ELSE State \ Operand1
<1>1. PICK d : StackIs(d)
  BY DEF StackIs
<1>2. Reading /\ UNCHANGED vars /\ token = OP_NOT /\ token \in Unary /\ Push(Below1, node)
  BY DEF ReadNot, Unary
<1>3. /\ Operand1 \in Nodes /\ Below1 = Holding(Beneath(d))
      /\ Beneath(d) \in Seq(Nodes) /\ Len(Beneath(d)) <= i
      /\ Operand1 = Null => ~IsFormula(tokens) /\ Beneath(d) = <<>>
      /\ Operand1 # Null /\ Broken => OnNull(Beneath(d), Null)
      /\ Operand1 # Null /\ Sound =>
           /\ Beneath(d) \in Seq(SUBSET State)
           /\ Shape[i+1] \in Nat \ {0} /\ Tiles(Shape, Sets, Beneath(d), Shape[i+1] - 1)
           /\ Sets[i+1] = OfOne(trans, token, Operand1)
  BY <1>1, <1>2, UnaryOperand
<1>4. Push(Holding(Beneath(d)), node)
  BY <1>2, <1>3
<1>5. node \in Nodes /\ (Operand1 # Null => node \in SUBSET State /\ node # Null)
  <2>1. State \ Operand1 \in SUBSET State
    OBVIOUS
  <2> QED
    BY <2>1, NullIsNoSet DEF Nodes
<1>6. OfOne(trans, token, Operand1) = State \ Operand1
  BY <1>2 DEF OfOne, OP_NOT
<1>7. CASE Operand1 = Null
  <2>1. node = Null
    BY <1>7
  <2> HIDE DEF node
  <2> QED
    BY <1>2, <1>3, <1>4, <1>5, <1>7, <2>1, TurnInv
<1>8. CASE Operand1 # Null
  <2>1. node = State \ Operand1
    BY <1>8
  <2> HIDE DEF node
  <2>2. CASE Sound
    <3>1. node = Sets[i+1]
      BY <1>3, <1>6, <1>8, <2>1, <2>2
    <3> QED
      BY <1>2, <1>3, <1>4, <1>5, <1>8, <2>2, <3>1, TurnInv
  <2>3. CASE Broken
    <3>1. ~IsFormula(tokens) /\ OnNull(Beneath(d), Null) /\ node # Null
      BY <1>3, <1>5, <1>8, <2>3 DEF Broken
    <3> QED
      BY <1>2, <1>3, <1>4, <1>5, <3>1, TurnInv
  <2> QED
    BY <2>2, <2>3 DEF CheckInv
<1> QED
  BY <1>7, <1>8

LEMMA ReadBinaryInv == CheckInv /\ ReadBinary => CheckInv'
<1> SUFFICES ASSUME CheckInv, ReadBinary PROVE CheckInv'
  OBVIOUS
<1>1. PICK d : StackIs(d)
  BY DEF StackIs
<1>2. PICK c : c = Beneath(Beneath(d))
  OBVIOUS
<1>3. PICK node : node = Apply(token, Operand1, Operand2)
  OBVIOUS
<1>4. /\ Reading /\ UNCHANGED vars /\ token \in BinaryOps /\ token \in Binary
      /\ Null \notin {Operand1, Operand2} /\ Push(Below2, node)
  BY <1>3 DEF ReadBinary, Binary
<1>5. /\ Operand1 \in Nodes /\ Operand2 \in Nodes /\ Below2 = Holding(c)
      /\ c \in Seq(Nodes) /\ Len(c) <= i
      /\ Broken => OnNull(c, Null)
      /\ Sound => /\ c \in Seq(SUBSET State)
                  /\ Shape[i+1] \in Nat \ {0} /\ Tiles(Shape, Sets, c, Shape[i+1] - 1)
                  /\ Sets[i+1] = OfTwo(trans, token, Operand2, Operand1)
  BY <1>1, <1>2, <1>4, BinaryOperands
<1>6. Push(Holding(c), node)
  BY <1>4, <1>5
<1>7. /\ Operand1 \in SUBSET State /\ Operand2 \in SUBSET State
      /\ node = OfTwo(trans, token, Operand2, Operand1)
  <2>1. Operand1 \in SUBSET State /\ Operand2 \in SUBSET State
    BY <1>4, <1>5 DEF Nodes
  <2> QED
    BY <1>3, <1>4, <2>1, ApplyMeaning
<1>8. node \in Nodes /\ node # Null
  <2>1. node \in SUBSET State
    BY <1>4, <1>7, OfTwoTyped
  <2> QED
    BY <2>1, NullIsNoSet DEF Nodes
<1>9. CASE Sound
  <2>1. node = Sets[i+1]
    BY <1>5, <1>7, <1>9
  <2> QED
    BY <1>4, <1>5, <1>6, <1>8, <1>9, <2>1, TurnInv
<1>10. CASE Broken
  <2>1. ~IsFormula(tokens) /\ OnNull(c, Null)
    BY <1>5, <1>10 DEF Broken
  <2> QED
    BY <1>4, <1>5, <1>6, <1>8, <2>1, TurnInv
<1> QED
  BY <1>9, <1>10 DEF CheckInv

LEMMA ReadNextInv == CheckInv /\ ReadNext => CheckInv'
<1> SUFFICES ASSUME CheckInv, ReadNext PROVE CheckInv'
  OBVIOUS
<1>1. PICK d : StackIs(d)
  BY DEF StackIs
<1>2. PICK c : c = Beneath(d)
  OBVIOUS
<1>3. PICK node : node = IF token[1] = "EX" THEN EX(Operand1) ELSE AX(Operand1)
  OBVIOUS
<1>4. /\ Reading /\ UNCHANGED vars /\ token \in {<<"EX", 0>>, <<"AX", 0>>} /\ token \in Unary
      /\ Operand1 # Null /\ Push(Below1, node)
  BY <1>3 DEF ReadNext, Unary, TemporalUnary
<1>5. /\ Operand1 \in Nodes /\ Below1 = Holding(c)
      /\ c \in Seq(Nodes) /\ Len(c) <= i
      /\ Broken => OnNull(c, Null)
      /\ Sound => /\ c \in Seq(SUBSET State)
                  /\ Shape[i+1] \in Nat \ {0} /\ Tiles(Shape, Sets, c, Shape[i+1] - 1)
                  /\ Sets[i+1] = OfOne(trans, token, Operand1)
  BY <1>1, <1>2, <1>4, UnaryOperand
<1>6. Push(Holding(c), node)
  BY <1>4, <1>5
<1>7. Operand1 \in SUBSET State /\ node = OfOne(trans, token, Operand1)
  <2>1. Operand1 \in SUBSET State /\ TypeOK
    BY <1>4, <1>5 DEF Nodes, CheckInv, IInv
  <2>2. CASE token = <<"EX", 0>>
    BY <1>3, <2>1, <2>2, NextMeaning
  <2>3. CASE token = <<"AX", 0>>
    BY <1>3, <2>1, <2>3, NextMeaning
  <2> QED
    BY <1>4, <2>1, <2>2, <2>3
<1>8. node \in Nodes /\ node # Null
  <2>1. node \in SUBSET State
    BY <1>4, <1>7, OfOneTyped
  <2> QED
    BY <2>1, NullIsNoSet DEF Nodes
<1>9. CASE Sound
  <2>1. node = Sets[i+1]
    BY <1>5, <1>7, <1>9
  <2> QED
    BY <1>4, <1>5, <1>6, <1>8, <1>9, <2>1, TurnInv
<1>10. CASE Broken
  <2>1. ~IsFormula(tokens) /\ OnNull(c, Null)
    BY <1>5, <1>10 DEF Broken
  <2> QED
    BY <1>4, <1>5, <1>6, <1>8, <2>1, TurnInv
<1> QED
  BY <1>9, <1>10 DEF CheckInv

-----------------------------------------------------------------------------
\* The actions that call a function, and the function itself.
LEMMA CallInv ==
  ASSUME CheckInv, Reading, NEW c \in Seq(Nodes), Len(c) <= i,
         stack' = Holding(c), status' = "call", pc' = "call",
         UNCHANGED <<trans, prev, current, i, recentNode>>,
         op' \in LoopOps, beforeStates' \in SUBSET State, finallyStates' \in SUBSET State,
         \/ /\ Sound /\ c \in Seq(SUBSET State)
            /\ Shape[i+1] \in Nat \ {0} /\ Tiles(Shape, Sets, c, Shape[i+1] - 1)
            /\ Sets[i+1] = Paths!Promise(op', trans, beforeStates', finallyStates')
         \/ ~IsFormula(tokens) /\ OnNull(c, Null)
  PROVE  CheckInv'
<1>1. /\ UNCHANGED <<trans, label, tokens>> /\ Inputs /\ CheckType
      /\ i \in 0..Len(tokens) /\ i < Len(tokens)
  BY Turn DEF Reading, CheckInv, CheckType
<1>2. IInv'
  BY DEF CheckInv, IInv, TypeOK, Chain, Settled
<1>3. stack' = [capacity |-> Len(tokens), stack |-> c] /\ stack'.stack = c
  BY DEF Holding
<1>4. CheckType'
  BY <1>1, <1>3 DEF CheckType, Nodes
<1>5. Refused'
  BY DEF Refused
<1>6. Shape' = Shape /\ Sets' = Sets /\ ((IsFormula(tokens))' <=> IsFormula(tokens))
  BY <1>1, Steady
<1>7. CASE /\ Sound /\ c \in Seq(SUBSET State)
           /\ Shape[i+1] \in Nat \ {0} /\ Tiles(Shape, Sets, c, Shape[i+1] - 1)
           /\ Sets[i+1] = Paths!Promise(op', trans, beforeStates', finallyStates')
  <2>1. Sound'
    BY <1>1, <1>3, <1>6, <1>7 DEF Sound
  <2> QED
    BY <1>2, <1>4, <1>5, <2>1 DEF CheckInv
<1>8. CASE ~IsFormula(tokens) /\ OnNull(c, Null)
  <2>1. Broken'
    BY <1>3, <1>6, <1>8 DEF Broken, OnNull
  <2> QED
    BY <1>2, <1>4, <1>5, <2>1 DEF CheckInv
<1> QED
  BY <1>7, <1>8

LEMMA CallUnaryInv == CheckInv /\ CallUnary => CheckInv'
<1> SUFFICES ASSUME CheckInv, CallUnary PROVE CheckInv'
  OBVIOUS
<1>1. PICK d : StackIs(d)
  BY DEF StackIs
<1>2. PICK c : c = Beneath(d)
  OBVIOUS
<1>3. /\ Reading /\ token \in {<<t, 0>> : t \in {"EF", "AF", "EG", "AG"}}
      /\ token \in Unary /\ Operand1 # Null
      /\ stack' = Below1 /\ status' = "call" /\ pc' = "call"
      /\ UNCHANGED <<trans, prev, current, i, recentNode>>
      /\ op' = token[1] /\ beforeStates' = {} /\ finallyStates' = Operand1
  BY DEF CallUnary, Unary, TemporalUnary, LoopOps, LeastOps, GreatestOps, UntilOps
<1>4. /\ Operand1 \in Nodes /\ Below1 = Holding(c)
      /\ c \in Seq(Nodes) /\ Len(c) <= i
      /\ Broken => OnNull(c, Null)
      /\ Sound => /\ c \in Seq(SUBSET State)
                  /\ Shape[i+1] \in Nat \ {0} /\ Tiles(Shape, Sets, c, Shape[i+1] - 1)
                  /\ Sets[i+1] = OfOne(trans, token, Operand1)
  BY <1>1, <1>2, <1>3, UnaryOperand
<1>5. /\ op' \in LoopOps /\ beforeStates' \in SUBSET State /\ finallyStates' \in SUBSET State
      /\ stack' = Holding(c)
  BY <1>3, <1>4 DEF LoopOps, LeastOps, GreatestOps, Nodes
<1>6. OfOne(trans, token, Operand1) = Paths!Promise(op', trans, beforeStates', finallyStates')
  BY <1>3 DEF OfOne, OP_NOT
<1>7. CASE Sound
  BY <1>3, <1>4, <1>5, <1>6, <1>7, CallInv
<1>8. CASE Broken
  <2>1. ~IsFormula(tokens) /\ OnNull(c, Null)
    BY <1>4, <1>8 DEF Broken
  <2> QED
    BY <1>3, <1>4, <1>5, <2>1, CallInv
<1> QED
  BY <1>7, <1>8 DEF CheckInv

LEMMA CallUntilInv == CheckInv /\ CallUntil => CheckInv'
<1> SUFFICES ASSUME CheckInv, CallUntil PROVE CheckInv'
  OBVIOUS
<1>1. PICK d : StackIs(d)
  BY DEF StackIs
<1>2. PICK c : c = Beneath(Beneath(d))
  OBVIOUS
<1>3. /\ Reading /\ token \in {<<"EU", 0>>, <<"AU", 0>>} /\ token \in Binary
      /\ Null \notin {Operand1, Operand2}
      /\ stack' = Below2 /\ status' = "call" /\ pc' = "call"
      /\ UNCHANGED <<trans, prev, current, i, recentNode>>
      /\ op' = token[1] /\ beforeStates' = Operand2 /\ finallyStates' = Operand1
  BY DEF CallUntil, Binary, TemporalBinary
<1>4. /\ Operand1 \in Nodes /\ Operand2 \in Nodes /\ Below2 = Holding(c)
      /\ c \in Seq(Nodes) /\ Len(c) <= i
      /\ Broken => OnNull(c, Null)
      /\ Sound => /\ c \in Seq(SUBSET State)
                  /\ Shape[i+1] \in Nat \ {0} /\ Tiles(Shape, Sets, c, Shape[i+1] - 1)
                  /\ Sets[i+1] = OfTwo(trans, token, Operand2, Operand1)
  BY <1>1, <1>2, <1>3, BinaryOperands
<1>5. /\ op' \in LoopOps /\ beforeStates' \in SUBSET State /\ finallyStates' \in SUBSET State
      /\ stack' = Holding(c)
  BY <1>3, <1>4 DEF LoopOps, LeastOps, GreatestOps, Nodes
<1>6. OfTwo(trans, token, Operand2, Operand1)
        = Paths!Promise(op', trans, beforeStates', finallyStates')
  BY <1>3 DEF OfTwo, OP_OR, OP_AND, OP_XOR, OP_IFF
<1>7. CASE Sound
  BY <1>3, <1>4, <1>5, <1>6, <1>7, CallInv
<1>8. CASE Broken
  <2>1. ~IsFormula(tokens) /\ OnNull(c, Null)
    BY <1>4, <1>8 DEF Broken
  <2> QED
    BY <1>3, <1>4, <1>5, <2>1, CallInv
<1> QED
  BY <1>7, <1>8 DEF CheckInv

LEMMA ComputeInv == CheckInv /\ Compute => CheckInv'
<1> SUFFICES ASSUME CheckInv, Compute PROVE CheckInv'
  OBVIOUS
<1>1. /\ status = "call" /\ Next /\ UNCHANGED args
      /\ UNCHANGED <<label, tokens, i, stack, recentNode, status>>
  BY DEF Compute, own, Next, Enter, Iterate, Return
<1>2. UNCHANGED <<trans, op, beforeStates, finallyStates, label, tokens>>
  BY <1>1 DEF args
<1>3. IInv'
  BY <1>1, Inductive DEF CheckInv
<1>4. CheckType' /\ Refused'
  BY <1>1 DEF CheckInv, CheckType, Refused
<1>5. Shape' = Shape /\ Sets' = Sets /\ ((IsFormula(tokens))' <=> IsFormula(tokens))
  BY <1>2, Steady
<1>6. CASE Sound
  <2>1. Sound'
    BY <1>1, <1>2, <1>5, <1>6 DEF Sound
  <2> QED
    BY <1>3, <1>4, <2>1 DEF CheckInv
<1>7. CASE Broken
  <2>1. Broken'
    BY <1>1, <1>5, <1>7 DEF Broken, OnNull
  <2> QED
    BY <1>3, <1>4, <2>1 DEF CheckInv
<1> QED
  BY <1>6, <1>7 DEF CheckInv

\* What a function returns is what its operator means.
LEMMA ResumeInv == CheckInv /\ Resume => CheckInv'
<1> SUFFICES ASSUME CheckInv, Resume PROVE CheckInv'
  OBVIOUS
<1>1. PICK d : StackIs(d)
  BY DEF StackIs
<1>2. /\ status = "call" /\ pc = "done" /\ Push(stack, current)
      /\ UNCHANGED <<label, tokens>> /\ UNCHANGED vars
  BY DEF Resume
<1>3. /\ Inputs /\ CheckType /\ i < Len(tokens) /\ i \in 0..Len(tokens)
      /\ stack = Holding(d) /\ d \in Seq(Nodes) /\ Len(d) <= i
  BY <1>1, <1>2 DEF CheckInv, CheckType, Inputs, StackIs, Holding, Nodes
<1>4. IInv' /\ UNCHANGED <<trans, label, tokens>>
  BY <1>2, QuietFixpoint
<1>5. Push(Holding(d), current)
  BY <1>2, <1>3
<1>6. current = Paths!Promise(op, trans, beforeStates, finallyStates)
  BY <1>2, ResultIsFixpoint, ResultOverPaths DEF CheckInv
<1>7. current \in SUBSET State /\ current \in Nodes /\ current # Null
  BY NullIsNoSet DEF CheckInv, IInv, TypeOK, Nodes
<1>8. CASE Sound
  <2>1. /\ d \in Seq(SUBSET State) /\ Shape[i+1] # 0 /\ current = Sets[i+1]
        /\ Tiles(Shape, Sets, d, Shape[i+1] - 1)
    BY <1>1, <1>2, <1>6, <1>8 DEF Sound, StackIs
  <2>2. Shape[i+1] \in Nat \ {0}
    <3>1. i + 1 \in 0..Len(tokens) /\ Len(tokens) \in Nat
      BY <1>3 DEF Inputs
    <3>2. Shape[i+1] \in 0..(i+1)
      BY <3>1, BeginFacts DEF Shape
    <3> QED
      BY <1>3, <2>1, <3>2
  <2>3. CheckType' /\ Refused' /\ Sound'
    BY <1>3, <1>4, <1>5, <2>1, <2>2, PushSound
  <2> QED
    BY <1>4, <2>3 DEF CheckInv
<1>9. CASE Broken
  <2>1. ~IsFormula(tokens) /\ OnNull(d, Null)
    BY <1>1, <1>9 DEF Broken, StackIs
  <2>2. CheckType' /\ Refused' /\ Broken'
    BY <1>3, <1>4, <1>5, <1>7, <2>1, PushOnNull
  <2> QED
    BY <1>4, <2>2 DEF CheckInv
<1> QED
  BY <1>8, <1>9 DEF CheckInv

-----------------------------------------------------------------------------
LEMMA CheckInvInit == CheckInit => CheckInv
<1> SUFFICES ASSUME CheckInit PROVE CheckInv
  OBVIOUS
<1>1. /\ op = "EF" /\ beforeStates = {} /\ finallyStates = {} /\ prev = {} /\ current = {}
      /\ pc = "done" /\ trans \in SUBSET (State \X State)
      /\ label \in [Declared -> SUBSET State] /\ tokens \in Seq(STRING \X Nat)
      /\ i = 0 /\ status = "read" /\ stack = [capacity |-> Len(tokens), stack |-> <<>>]
  BY Tokenised DEF CheckInit, ddStack_init
<1>2. TypeOK
  BY <1>1 DEF TypeOK, LoopOps, LeastOps
<1>3. Body({}) = {}
  BY <1>1 DEF Body, EF, EX
<1>4. IInv
  BY <1>1, <1>2, <1>3 DEF IInv, Chain, Settled, LeastOps, GreatestOps
<1>5. stack.stack = <<>> /\ <<>> \in Seq({Null} \cup SUBSET State) /\ Len(<<>>) = 0
      /\ <<>> \in Seq(SUBSET State) /\ Len(tokens) \in Nat
  BY <1>1
<1>6. CheckType
  BY <1>1, <1>5 DEF CheckType
<1>7. Tiles(Shape, Sets, <<>>, 0)
  BY TilesEmpty
<1>8. Sound
  BY <1>1, <1>5, <1>7 DEF Sound
<1>9. Refused
  BY <1>1 DEF Refused
<1> QED
  BY <1>4, <1>6, <1>8, <1>9 DEF CheckInv

LEMMA CheckInductive == CheckInv /\ [CheckNext]_checkVars => CheckInv'
<1>1. ASSUME CheckInv, UNCHANGED checkVars PROVE CheckInv'
  <2>1. UNCHANGED vars /\ UNCHANGED <<label, tokens, i, stack, recentNode, status>>
    BY <1>1 DEF checkVars, own
  <2>2. IInv' /\ UNCHANGED trans
    BY <1>1, <2>1, QuietFixpoint
  <2>3. UNCHANGED <<op, beforeStates, finallyStates>>
    BY <2>1 DEF vars
  <2>4. CheckType' /\ Refused'
    BY <1>1, <2>1 DEF CheckInv, CheckType, Refused
  <2>5. Shape' = Shape /\ Sets' = Sets /\ ((IsFormula(tokens))' <=> IsFormula(tokens))
    BY <2>1, <2>2, Steady
  <2>6. CASE Sound
    <3>1. Sound'
      BY <2>1, <2>2, <2>3, <2>5, <2>6 DEF Sound
    <3> QED
      BY <2>2, <2>4, <3>1 DEF CheckInv
  <2>7. CASE Broken
    <3>1. Broken'
      BY <2>1, <2>5, <2>7 DEF Broken, OnNull
    <3> QED
      BY <2>2, <2>4, <3>1 DEF CheckInv
  <2> QED
    BY <1>1, <2>6, <2>7 DEF CheckInv
<1> QED
  BY <1>1, RefuseInv, ReadVariableInv, ReadNotInv, ReadBinaryInv, ReadNextInv, CallUnaryInv,
     CallUntilInv, ReadWithoutInv, ComputeInv, ResumeInv, AtEndInv DEF CheckNext

\* In front of every token, and while a function runs, the stack of check()
\* holds the meanings of the subformulas read, unless an operand was missing.
THEOREM CheckInvariance == CheckSpec => []CheckInv
BY CheckInvInit, CheckInductive, PTL DEF CheckSpec

\* What check() returns is the set of states that satisfy the formula, for
\* every transition relation, labelling and nesting of the operators.
LEMMA ReturnedMeaning == CheckInv => ResultIsMeaning /\ RejectsOnlyIllFormed
<1> SUFFICES ASSUME CheckInv PROVE ResultIsMeaning /\ RejectsOnlyIllFormed
  OBVIOUS
<1>1. ASSUME status = "returned"
      PROVE  /\ recentNode # Null => IsFormula(tokens) /\ recentNode = Meaning(trans, tokens)
             /\ recentNode = Null => ~IsFormula(tokens)
  <2>1. PICK d : StackIs(d)
    BY DEF StackIs
  <2>2. i = Len(tokens) /\ Len(d) = 1
    BY <1>1, <2>1 DEF CheckInv, CheckType, StackIs
  <2>3. recentNode = d[1]
    BY <1>1, <2>1, <2>2 DEF CheckInv, CheckType, StackIs
  <2>4. CASE Sound
    <3>1. d \in Seq(SUBSET State) /\ Tiles(Shape, Sets, d, i)
      BY <1>1, <2>1, <2>4 DEF Sound, StackIs
    <3>2. Shape[0] = 0
      <4>1. Len(tokens) \in Nat
        BY DEF CheckInv, CheckType
      <4>2. Shape[0] \in 0..0
        BY <4>1, BeginFacts DEF Shape
      <4> QED
        BY <4>2
    <3>3. /\ Len(d) = 1 <=> Shape[i] = 1
          /\ Len(d) = 1 => d[1] = Sets[i]
      BY <3>1, <3>2, TilesOne
    <3>4. d[1] \in SUBSET State
      BY <2>2, <3>1
    <3> QED
      BY <2>2, <2>3, <3>3, <3>4, NullIsNoSet, WholeMeaning
  <2>5. CASE Broken
    BY <2>1, <2>3, <2>5 DEF Broken, OnNull, StackIs
  <2> QED
    BY <2>4, <2>5 DEF CheckInv
<1> QED
  BY <1>1 DEF ResultIsMeaning, RejectsOnlyIllFormed, CheckInv, Refused

\* The states that check() returns are those that satisfy the formula, for
\* every model and formula.
THEOREM CheckCorrect == CheckSpec => []ResultIsMeaning
BY CheckInvariance, ReturnedMeaning, PTL

\* Only a sequence that is no formula over declared variables makes check()
\* exit, pass NULL to CUDD or return NULL.
THEOREM CheckRejects == CheckSpec => []RejectsOnlyIllFormed
BY CheckInvariance, ReturnedMeaning, PTL

-----------------------------------------------------------------------------
(***************************************************************************)
(* The answers of main().                                                  *)
(***************************************************************************)
Reached == INSTANCE ReachProofs WITH pc <- reachPc

Answered ==
  /\ expected \in SUBSET State
  /\ status = "returned" => reachPc = "done"
  /\ stage = "answered" =>
       /\ status = "returned"
       /\ recentNode # Null
       /\ alsoReachable = recentNode \cap reachable
       /\ alsoInitial = initial \cap recentNode

MainInv == CheckInv /\ Reached!IInv /\ Answered

LEMMA MainInvInit == MainInit => MainInv
<1> SUFFICES ASSUME MainInit PROVE MainInv
  OBVIOUS
<1>1. CheckInv
  BY CheckInvInit DEF MainInit
<1>2. Reached!IInv
  <2>1. Reached!Init
    BY DEF MainInit, Reaching!Init, Reached!Init
  <2> QED
    BY <2>1, Reached!InvInit
<1>3. Answered
  BY DEF MainInit, CheckInit, Answered
<1> QED
  BY <1>1, <1>2, <1>3 DEF MainInv

LEMMA MainInductive == MainInv /\ [MainNext]_mainVars => MainInv'
<1> SUFFICES ASSUME MainInv, [MainNext]_mainVars PROVE MainInv'
  OBVIOUS
<1>1. [CheckNext]_checkVars
  BY DEF MainNext, mainVars, Explore, Check, Answer, AnswerNull
<1>2. CheckInv'
  BY <1>1, CheckInductive DEF MainInv
<1>3. UNCHANGED trans
  <2>1. CheckNext => UNCHANGED trans
    BY DEF CheckNext, Refuse, ReadVariable, ReadNot, ReadBinary, ReadNext, CallUnary, CallUntil,
           ReadWithout, Compute, Next, Enter, Iterate, Return, args, Resume,
           ReturnRoot, Malformed, AtEnd, vars
  <2>2. UNCHANGED checkVars => UNCHANGED trans
    BY DEF checkVars, vars
  <2> QED
    BY <1>1, <2>1, <2>2
<1>4. [Reached!Next]_(Reached!vars)
  <2>1. CASE Explore
    <3>1. Reaching!Next
      BY <2>1 DEF Explore
    <3>2. Reached!Next
      BY <3>1 DEF Reaching!Next, Reaching!First, Reaching!Iterate, Reaching!Exit,
                  Reaching!ImageFails, Reaching!Image, Reaching!inputs,
                  Reached!Next, Reached!First, Reached!Iterate, Reached!Exit,
                  Reached!ImageFails, Reached!Image, Reached!inputs
    <3> QED
      BY <3>2
  <2>2. CASE UNCHANGED reachVars
    BY <1>3, <2>2 DEF reachVars, Reached!vars
  <2> QED
    BY <2>1, <2>2 DEF MainNext, mainVars, Check, Answer, AnswerNull
<1>5. Reached!IInv'
  BY <1>4, Reached!Inductive DEF MainInv
<1>6. Answered'
  <2>1. CASE Explore
    <3>1. reachPc # "done"
      BY <2>1 DEF Explore, Reaching!Next, Reaching!First, Reaching!Iterate, Reaching!Exit,
                  Reaching!ImageFails
    <3>2. status # "returned" /\ UNCHANGED <<status, expected, stage>>
      BY <2>1, <3>1 DEF Explore, MainInv, Answered, checkVars, own, answers
    <3> QED
      BY <3>2 DEF MainInv, Answered
  <2>2. CASE Check
    <3>1. status # "returned" /\ reachPc = "done" /\ UNCHANGED <<reachPc, expected, stage>>
      BY <2>2 DEF Check, CheckNext, Refuse, ReadVariable, ReadNot, ReadBinary, ReadNext, CallUnary,
                  CallUntil, ReadWithout, Compute, Resume, ReturnRoot, Malformed, AtEnd, Reading,
                  reachVars, answers
    <3> QED
      BY <3>1 DEF MainInv, Answered
  <2>3. CASE Answer
    BY <2>3 DEF Answer, MainInv, Answered, checkVars, own, reachVars
  <2>4. CASE AnswerNull
    BY <2>4 DEF AnswerNull, MainInv, Answered, checkVars, own, reachVars
  <2>5. CASE UNCHANGED mainVars
    BY <2>5 DEF mainVars, MainInv, Answered, checkVars, own, reachVars, answers
  <2> QED
    BY <2>1, <2>2, <2>3, <2>4, <2>5 DEF MainNext
<1> QED
  BY <1>2, <1>5, <1>6 DEF MainInv

\* The loop of main.c:188, check() and the two intersections after it keep
\* their invariants when one follows the other.
THEOREM MainInvariance == MainSpec => []MainInv
BY MainInvInit, MainInductive, PTL DEF MainSpec

\* What the answers are made of, once they are given.
LEMMA AnswerFacts ==
  ASSUME MainInv, stage = "answered"
  PROVE  /\ trans \in SUBSET (State \X State) /\ initial \in SUBSET State
         /\ reachable \in SUBSET State /\ recentNode = Meaning(trans, tokens)
         /\ alsoReachable = recentNode \cap reachable /\ alsoInitial = initial \cap recentNode
         /\ initial \subseteq reachable
         /\ \A s \in reachable, t \in State : <<s, t>> \in trans => t \in reachable
         /\ \A z \in SUBSET State :
              initial \subseteq z /\ (\A s \in z, t \in State : <<s, t>> \in trans => t \in z)
                => reachable \subseteq z
<1>1. Reached!TypeOK /\ Reached!Explored /\ Reached!Settled /\ Answered
  BY DEF MainInv, Reached!IInv
<1>2. reachPc = "done" /\ prevReachable = reachable
  BY <1>1 DEF Answered, Reached!Settled
<1>3. /\ initial \subseteq reachable /\ Reached!Image(reachable) \subseteq reachable
      /\ \A z \in SUBSET State :
           initial \subseteq z /\ Reached!Image(z) \subseteq z => reachable \subseteq z
  BY <1>1, <1>2 DEF Reached!Explored
<1>4. recentNode = Meaning(trans, tokens)
  BY <1>1, ReturnedMeaning DEF MainInv, Answered, ResultIsMeaning
<1> QED
  BY <1>1, <1>3, <1>4 DEF Answered, Reached!TypeOK, Reached!Image

\* The loop of main.c reaches what paths from the initial states lead to.
LEMMA ReachedByPaths ==
  ASSUME MainInv, stage = "answered"
  PROVE  reachable = Paths!SomeUntil(Backwards, State, initial)
<1> DEFINE U == Paths!SomeUntil(Backwards, State, initial)
<1>1. U \in SUBSET State
  BY DEF Paths!SomeUntil
<1>2. \A s, t \in State : <<t, s>> \in Backwards <=> <<s, t>> \in trans
  <2>1. \A e \in trans : e = <<e[1], e[2]>>
    BY AnswerFacts
  <2> QED
    BY <2>1 DEF Backwards
<1>3. initial \in SUBSET State /\ reachable \in SUBSET State /\ State \in SUBSET State
  BY AnswerFacts
<1>4. reachable \subseteq U
  <2>1. initial \cup (State \cap StepInto(Backwards, U)) \subseteq U
    BY <1>3, UntilClosed
  <2> HIDE DEF U
  <2>2. \A s \in U, t \in State : <<s, t>> \in trans => t \in U
    BY <1>1, <1>2, <2>1 DEF StepInto
  <2> QED
    BY <1>1, <2>1, <2>2, AnswerFacts
<1>5. U \subseteq reachable
  <2>1. initial \cup (State \cap StepInto(Backwards, reachable)) \subseteq reachable
    BY <1>2, <1>3, AnswerFacts DEF StepInto
  <2> QED
    BY <1>3, <2>1, UntilLeast
<1> QED
  BY <1>4, <1>5

\* Both answers of main.c are those of the definition, for every model, every
\* property and every set of expected states.
THEOREM AnswersCorrect == MainSpec => []AnswersRight
<1>1. MainInv => AnswersRight
  <2> SUFFICES ASSUME MainInv, stage = "answered"
               PROVE  /\ StatesAreExpected <=>
                           expected = Meaning(trans, tokens)
                                        \cap Paths!SomeUntil(Backwards, State, initial)
                      /\ InitialStatesSatisfy <=> initial \subseteq Meaning(trans, tokens)
    BY DEF AnswersRight
  <2> QED
    BY AnswerFacts, ReachedByPaths DEF StatesAreExpected, InitialStatesSatisfy
<1> QED
  BY <1>1, MainInvariance, PTL

-----------------------------------------------------------------------------
(***************************************************************************)
(* A part of the model that no transition leaves is checked on its own.    *)
(***************************************************************************)
Closed(z) == z \in SUBSET State /\ \A s \in z, t \in State : <<s, t>> \in trans => t \in z

Inside(z) == {e \in trans : e[1] \in z}

Alike(z, p, q) == z \cap p = z \cap q

LEMMA PathsInside ==
  ASSUME TypeOK, NEW z, Closed(z), NEW n \in Nat, NEW f, f[0] \in z
  PROVE  /\ f \in Paths!PathOf(trans, n) <=> f \in Paths!PathOf(Inside(z), n)
         /\ f \in Paths!PathOf(trans, n) => \A k \in 0..n : f[k] \in z
<1>1. ASSUME f \in Paths!PathOf(Inside(z), n) PROVE f \in Paths!PathOf(trans, n)
  BY <1>1 DEF Paths!PathOf, Inside
<1>2. ASSUME f \in Paths!PathOf(trans, n)
      PROVE  f \in Paths!PathOf(Inside(z), n) /\ \A k \in 0..n : f[k] \in z
  <2>1. f \in [0..n -> State] /\ \A k \in 0..(n-1) : <<f[k], f[k+1]>> \in trans
    BY <1>2 DEF Paths!PathOf
  <2> DEFINE S == {k \in Nat : k <= n => f[k] \in z}
  <2>2. 0 \in S
    OBVIOUS
  <2>3. ASSUME NEW k \in S PROVE k + 1 \in S
    <3> SUFFICES ASSUME k + 1 <= n PROVE f[k+1] \in z
      OBVIOUS
    <3>1. k \in Nat /\ f[k] \in z /\ k \in 0..(n-1) /\ k + 1 \in 0..n
      OBVIOUS
    <3>2. f[k+1] \in State /\ <<f[k], f[k+1]>> \in trans
      BY <2>1, <3>1
    <3> QED
      BY <3>1, <3>2 DEF Closed
  <2>4. S \in SUBSET Nat
    OBVIOUS
  <2> HIDE DEF S
  <2>5. S = Nat
    BY <2>2, <2>3, <2>4, SetInduction
  <2>6. \A k \in 0..n : f[k] \in z
    BY <2>5 DEF S
  <2>7. \A k \in 0..(n-1) : <<f[k], f[k+1]>> \in Inside(z)
    BY <2>1, <2>6 DEF Inside
  <2> QED
    BY <2>1, <2>6, <2>7 DEF Paths!PathOf
<1> QED
  BY <1>1, <1>2

LEMMA UntilInside ==
  ASSUME TypeOK, NEW z, Closed(z), NEW p, NEW q, NEW u, NEW v, Alike(z, p, u), Alike(z, q, v)
  PROVE  Alike(z, Paths!SomeUntil(trans, p, q), Paths!SomeUntil(Inside(z), u, v))
<1> SUFFICES ASSUME NEW s \in z
             PROVE  s \in Paths!SomeUntil(trans, p, q) <=> s \in Paths!SomeUntil(Inside(z), u, v)
  BY DEF Alike
<1>1. Cardinality(State) \in Nat /\ s \in State
  BY FiniteStates, FS_CardinalityType DEF Closed
<1>2. ASSUME NEW n \in 0..Cardinality(State), NEW f, f[0] = s
      PROVE  /\ f \in Paths!PathOf(trans, n) /\ (\A k \in 0..(n-1) : f[k] \in p) /\ f[n] \in q
             <=> /\ f \in Paths!PathOf(Inside(z), n) /\ (\A k \in 0..(n-1) : f[k] \in u)
                 /\ f[n] \in v
  <2>1. n \in Nat /\ f[0] \in z
    BY <1>1, <1>2
  <2>2. /\ f \in Paths!PathOf(trans, n) <=> f \in Paths!PathOf(Inside(z), n)
        /\ f \in Paths!PathOf(trans, n) => \A k \in 0..n : f[k] \in z
    BY <2>1, PathsInside
  <2> QED
    BY <2>1, <2>2 DEF Alike
<1> QED
  BY <1>1, <1>2 DEF Paths!SomeUntil

LEMMA AlwaysInside ==
  ASSUME TypeOK, NEW z, Closed(z), NEW p, NEW u, Alike(z, p, u)
  PROVE  Alike(z, Paths!SomeAlways(trans, p), Paths!SomeAlways(Inside(z), u))
<1> SUFFICES ASSUME NEW s \in z
             PROVE  s \in Paths!SomeAlways(trans, p) <=> s \in Paths!SomeAlways(Inside(z), u)
  BY DEF Alike
<1>1. Cardinality(State) \in Nat /\ s \in State
  BY FiniteStates, FS_CardinalityType DEF Closed
<1>2. ASSUME NEW n \in 0..Cardinality(State), NEW f, f[0] = s
      PROVE  f \in Paths!PathOf(trans, n) /\ (\A k \in 0..n : f[k] \in p)
             <=> f \in Paths!PathOf(Inside(z), n) /\ (\A k \in 0..n : f[k] \in u)
  <2>1. n \in Nat /\ f[0] \in z
    BY <1>1, <1>2
  <2>2. /\ f \in Paths!PathOf(trans, n) <=> f \in Paths!PathOf(Inside(z), n)
        /\ f \in Paths!PathOf(trans, n) => \A k \in 0..n : f[k] \in z
    BY <2>1, PathsInside
  <2> QED
    BY <2>1, <2>2 DEF Alike
<1> QED
  BY <1>1, <1>2 DEF Paths!SomeAlways

LEMMA PromiseInside ==
  ASSUME TypeOK, NEW z, Closed(z), NEW t \in LoopOps,
         NEW p, NEW q, NEW u, NEW v, Alike(z, p, u), Alike(z, q, v)
  PROVE  Alike(z, Paths!Promise(t, trans, p, q), Paths!Promise(t, Inside(z), u, v))
<1> DEFINE U(a, b) == Paths!SomeUntil(trans, a, b)
           V(a, b) == Paths!SomeUntil(Inside(z), a, b)
           A(a) == Paths!SomeAlways(trans, a)
           B(a) == Paths!SomeAlways(Inside(z), a)
<1>1. /\ Alike(z, State, State) /\ Alike(z, State \ q, State \ v) /\ Alike(z, p \ q, u \ v)
      /\ Alike(z, State \ (p \cup q), State \ (u \cup v))
  BY DEF Alike
<1>2. /\ Alike(z, U(State, q), V(State, v)) /\ Alike(z, U(p, q), V(u, v))
      /\ Alike(z, U(State, State \ q), V(State, State \ v))
      /\ Alike(z, U(p \ q, State \ (p \cup q)), V(u \ v, State \ (u \cup v)))
  BY <1>1, UntilInside
<1>3. /\ Alike(z, A(q), B(v)) /\ Alike(z, A(State \ q), B(State \ v))
      /\ Alike(z, A(p \ q), B(u \ v))
  BY <1>1, AlwaysInside
<1> HIDE DEF U, V, A, B
<1>4. /\ Alike(z, State \ A(State \ q), State \ B(State \ v))
      /\ Alike(z, State \ U(State, State \ q), State \ V(State, State \ v))
      /\ Alike(z, State \ (A(p \ q) \cup U(p \ q, State \ (p \cup q))),
                  State \ (B(u \ v) \cup V(u \ v, State \ (u \cup v))))
  BY <1>2, <1>3 DEF Alike
<1> USE DEF U, V, A, B
<1>5. CASE t = "EF"
  BY <1>2, <1>5 DEF Paths!Promise
<1>6. CASE t = "EG"
  BY <1>3, <1>6 DEF Paths!Promise
<1>7. CASE t = "EU"
  BY <1>2, <1>7 DEF Paths!Promise
<1>8. CASE t = "AF"
  BY <1>4, <1>8 DEF Paths!Promise
<1>9. CASE t = "AG"
  BY <1>4, <1>9 DEF Paths!Promise
<1>10. CASE t = "AU"
  BY <1>4, <1>10 DEF Paths!Promise
<1> QED
  BY <1>5, <1>6, <1>7, <1>8, <1>9, <1>10 DEF LoopOps, LeastOps, GreatestOps

LEMMA OfOneInside ==
  ASSUME TypeOK, NEW z, Closed(z), NEW t \in Unary, NEW p, NEW u, Alike(z, p, u)
  PROVE  Alike(z, OfOne(trans, t, p), OfOne(Inside(z), t, u))
<1>1. \A e \in trans : e[1] \in z => e \in Inside(z) /\ e[2] \in z
  <2>1. \A e \in trans : e = <<e[1], e[2]>> /\ e[2] \in State
    BY DEF TypeOK
  <2> QED
    BY <2>1 DEF Inside, Closed
<1>2. Inside(z) \subseteq trans
  BY DEF Inside
<1>3. CASE t = OP_NOT
  BY <1>3 DEF OfOne, OP_NOT, Alike
<1>4. CASE t = <<"EX", 0>>
  <2>1. /\ OfOne(trans, t, p) = {s \in State : \E e \in trans : e[1] = s /\ e[2] \in p}
        /\ OfOne(Inside(z), t, u) = {s \in State : \E e \in Inside(z) : e[1] = s /\ e[2] \in u}
    BY <1>4 DEF OfOne, OP_NOT
  <2> QED
    BY <1>1, <1>2, <2>1 DEF Alike
<1>5. CASE t = <<"AX", 0>>
  <2>1. /\ OfOne(trans, t, p) = {s \in State : \A e \in trans : e[1] = s => e[2] \in p}
        /\ OfOne(Inside(z), t, u) = {s \in State : \A e \in Inside(z) : e[1] = s => e[2] \in u}
    BY <1>5 DEF OfOne, OP_NOT
  <2> QED
    BY <1>1, <1>2, <2>1 DEF Alike
<1>6. CASE t \in {<<"EF", 0>>, <<"AF", 0>>, <<"EG", 0>>, <<"AG", 0>>}
  <2>1. /\ OfOne(trans, t, p) = Paths!Promise(t[1], trans, {}, p)
        /\ OfOne(Inside(z), t, u) = Paths!Promise(t[1], Inside(z), {}, u)
        /\ t[1] \in LoopOps
    BY <1>6 DEF OfOne, OP_NOT, LoopOps, LeastOps, GreatestOps
  <2>2. Alike(z, {}, {})
    BY DEF Alike
  <2> QED
    BY <2>1, <2>2, PromiseInside
<1> QED
  BY <1>3, <1>4, <1>5, <1>6 DEF Unary, TemporalUnary

LEMMA OfTwoInside ==
  ASSUME TypeOK, NEW z, Closed(z), NEW t \in Binary,
         NEW p, NEW q, NEW u, NEW v, Alike(z, p, u), Alike(z, q, v)
  PROVE  Alike(z, OfTwo(trans, t, p, q), OfTwo(Inside(z), t, u, v))
<1>1. CASE t \in BinaryOps
  <2> USE DEF OP_OR, OP_AND, OP_XOR, OP_IFF
  <2>1. CASE t = OP_OR
    BY <2>1 DEF OfTwo, Alike
  <2>2. CASE t = OP_AND
    BY <2>2 DEF OfTwo, Alike
  <2>3. CASE t = OP_XOR
    BY <2>3 DEF OfTwo, Alike
  <2>4. CASE t = OP_IFF
    BY <2>4 DEF OfTwo, Alike
  <2> QED
    BY <1>1, <2>1, <2>2, <2>3, <2>4 DEF BinaryOps
<1>2. CASE t \in TemporalBinary
  <2>1. /\ OfTwo(trans, t, p, q) = Paths!Promise(t[1], trans, p, q)
        /\ OfTwo(Inside(z), t, u, v) = Paths!Promise(t[1], Inside(z), u, v)
        /\ t[1] \in LoopOps
    BY <1>2 DEF OfTwo, TemporalBinary, OP_OR, OP_AND, OP_XOR, OP_IFF, LoopOps, LeastOps
  <2> QED
    BY <2>1, PromiseInside
<1> QED
  BY <1>1, <1>2 DEF Binary

\* Reads, without arithmetic in what it tells.
LEMMA ReadsAt ==
  ASSUME Inputs, NEW r, NEW v, v = SetsOf(r), NEW j \in 0..(Len(tokens) - 1),
         NEW m, m = j + 1, NEW t, t = tokens[m]
  PROVE  /\ Shape[0] = 0 /\ Shape[j] \in 0..j
         /\ t \in Variables => Shape[m] = m /\ v[m] = label[t]
         /\ t \in Unary => /\ Shape[m] = Shape[j]
                           /\ Shape[m] # 0 => v[m] = OfOne(r, t, v[j])
         /\ t \in Binary =>
              /\ Shape[m] = IF Shape[j] > 1 THEN Shape[Shape[j] - 1] ELSE 0
              /\ Shape[m] # 0 => v[m] = OfTwo(r, t, v[Shape[j] - 1], v[j])
         /\ t \notin Variables \cup Unary \cup Binary => Shape[m] = 0
BY Reads

LEMMA NoSubformula ==
  ASSUME Inputs, NEW r, NEW v, v = SetsOf(r), NEW j \in 0..Len(tokens), Shape[j] = 0
  PROVE  v[j] = {}
<1> DEFINE b == Shape
<1>0. Len(tokens) \in Nat
  BY DEF Inputs
<1>1. b = Begins(tokens, DOMAIN Leaf, Unary, Binary)
      /\ v = Values(tokens, Leaf, Unary, One(r), Binary, Two(r)) /\ b[j] = 0
  BY LeafDomain DEF Shape, SetsOf
<1> HIDE DEF b
<1>2. AreValues(tokens, Leaf, Unary, One(r), Binary, Two(r), b, Len(tokens), v)
  BY <1>0, <1>1, ValuesUnfold
<1>3. v[j] = ValueAt(tokens, Leaf, Unary, One(r), Binary, Two(r), b, v, j)
  BY <1>2 DEF AreValues
<1> QED
  BY <1>1, <1>3 DEF ValueAt

\* Every subformula holds of the same states of the closed part.
LEMMA SetsInside ==
  ASSUME Inputs, TypeOK, NEW z, Closed(z), NEW j \in 0..Len(tokens)
  PROVE  Alike(z, SetsOf(trans)[j], SetsOf(Inside(z))[j])
<1>1. PICK x : x = SetsOf(trans)
  OBVIOUS
<1>2. PICK y : y = SetsOf(Inside(z))
  OBVIOUS
<1> DEFINE S == {n \in Nat : n <= Len(tokens) => Alike(z, x[n], y[n])}
<1>3. Len(tokens) \in Nat
  BY DEF Inputs
<1>4. 0 \in S
  <2>1. x[0] = {} /\ y[0] = {}
    <3>1. Shape[0] \in 0..0 /\ 0 \in 0..Len(tokens)
      BY <1>3, BeginFacts DEF Shape
    <3> QED
      BY <1>1, <1>2, <3>1, NoSubformula
  <2> QED
    BY <2>1 DEF Alike
<1>5. ASSUME NEW n \in Nat, \A m \in 0..n : m \in S PROVE n + 1 \in S
  <2>0. PICK m \in Nat : m = n + 1
    OBVIOUS
  <2> SUFFICES ASSUME m <= Len(tokens) PROVE Alike(z, x[m], y[m])
    BY <2>0
  <2>1. PICK t : t = tokens[m]
    OBVIOUS
  <2>2. n \in 0..(Len(tokens) - 1) /\ m \in 0..Len(tokens)
    BY <1>3, <2>0
  <2>3. \A k \in 0..n : Alike(z, x[k], y[k])
    <3>1. \A k \in 0..n : k <= Len(tokens)
      BY <1>3, <2>0
    <3> QED
      BY <1>5, <3>1
  <2> HIDE DEF S
  <2>4. /\ Shape[0] = 0 /\ Shape[n] \in 0..n
        /\ t \in Variables => Shape[m] = m /\ x[m] = label[t]
        /\ t \in Unary => /\ Shape[m] = Shape[n]
                          /\ Shape[m] # 0 => x[m] = OfOne(trans, t, x[n])
        /\ t \in Binary =>
             /\ Shape[m] = IF Shape[n] > 1 THEN Shape[Shape[n] - 1] ELSE 0
             /\ Shape[m] # 0 => x[m] = OfTwo(trans, t, x[Shape[n] - 1], x[n])
        /\ t \notin Variables \cup Unary \cup Binary => Shape[m] = 0
    BY <1>1, <2>0, <2>1, <2>2, ReadsAt
  <2>5. /\ Shape[0] = 0 /\ Shape[n] \in 0..n
        /\ t \in Variables => Shape[m] = m /\ y[m] = label[t]
        /\ t \in Unary => /\ Shape[m] = Shape[n]
                          /\ Shape[m] # 0 => y[m] = OfOne(Inside(z), t, y[n])
        /\ t \in Binary =>
             /\ Shape[m] = IF Shape[n] > 1 THEN Shape[Shape[n] - 1] ELSE 0
             /\ Shape[m] # 0 => y[m] = OfTwo(Inside(z), t, y[Shape[n] - 1], y[n])
        /\ t \notin Variables \cup Unary \cup Binary => Shape[m] = 0
    BY <1>2, <2>0, <2>1, <2>2, ReadsAt
  <2>6. Shape[m] = 0 => x[m] = {} /\ y[m] = {}
    BY <1>1, <1>2, <2>2, NoSubformula
  <2>7. CASE Shape[m] = 0
    BY <2>6, <2>7 DEF Alike
  <2>8. CASE t \in Variables
    BY <2>4, <2>5, <2>8 DEF Alike
  <2>9. CASE t \in Unary /\ Shape[m] # 0
    <3>1. Alike(z, x[n], y[n])
      BY <2>3
    <3> QED
      BY <2>4, <2>5, <2>9, <3>1, OfOneInside
  <2>10. CASE t \in Binary /\ Shape[m] # 0
    <3>1. Alike(z, x[n], y[n])
      BY <2>3
    <3>2. Shape[n] - 1 \in 0..n
      BY <2>4, <2>10
    <3>3. Alike(z, x[Shape[n] - 1], y[Shape[n] - 1])
      BY <2>3, <3>2
    <3> QED
      BY <2>4, <2>5, <2>10, <3>1, <3>3, OfTwoInside
  <2> QED
    BY <2>4, <2>7, <2>8, <2>9, <2>10
<1>6. \A n \in Nat : n \in S
  <2> DEFINE T == {n \in Nat : \A m \in 0..n : m \in S}
  <2>1. T \in SUBSET Nat /\ 0 \in T
    BY <1>4
  <2>2. \A n \in T : n + 1 \in T
    BY <1>5
  <2>3. \A n \in T : n \in S
    OBVIOUS
  <2> HIDE DEF T, S
  <2>4. T = Nat
    BY <2>1, <2>2, SetInduction
  <2> QED
    BY <2>3, <2>4
<1>7. j \in Nat /\ j <= Len(tokens)
  BY <1>3
<1> QED
  BY <1>1, <1>2, <1>6, <1>7

\* That check() looks at unreachable states as well changes no answer.
THEOREM UnreachableIgnored == MainSpec => []UnreachableStatesDoNotMatter
<1>1. ASSUME MainInv, stage = "answered"
      PROVE  alsoReachable =
               reachable \cap Meaning({e \in trans : e[1] \in reachable}, tokens)
  <2>1. PICK z : z = reachable
    OBVIOUS
  <2>2. TypeOK /\ Inputs /\ Closed(z)
    <3>1. TypeOK /\ Inputs
      BY <1>1 DEF MainInv, CheckInv, IInv, CheckType, Inputs
    <3> QED
      BY <1>1, <2>1, <3>1, AnswerFacts DEF Closed
  <2>3. Len(tokens) \in 0..Len(tokens)
    BY <2>2 DEF Inputs
  <2>4. Alike(z, SetsOf(trans)[Len(tokens)], SetsOf(Inside(z))[Len(tokens)])
    BY <2>2, <2>3, SetsInside
  <2>5. /\ Meaning(trans, tokens) = SetsOf(trans)[Len(tokens)]
        /\ Meaning(Inside(z), tokens) = SetsOf(Inside(z))[Len(tokens)]
    BY DEF Meaning, PostfixValue, SetsOf
  <2>6. alsoReachable = Meaning(trans, tokens) \cap z
    BY <1>1, <2>1, AnswerFacts
  <2>7. alsoReachable = z \cap Meaning(Inside(z), tokens)
    BY <2>4, <2>5, <2>6 DEF Alike
  <2> QED
    BY <2>1, <2>7 DEF Inside
<1>2. MainInv => UnreachableStatesDoNotMatter
  BY <1>1 DEF UnreachableStatesDoNotMatter
<1> QED
  BY <1>2, MainInvariance, PTL
=============================================================================
