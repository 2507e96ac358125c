---------------------------- MODULE CtlFixpoint ----------------------------
(***************************************************************************)
(* The temporal operators of ctlmc.c.  EX and AX are one pre-image each;   *)
(* EF, AF, EG, AG, EU and AU share one shape of loop, which recomputes     *)
(* `current' from itself until Cudd_EquivDC reports that it no longer      *)
(* differs from `prev'.                                                    *)
(*                                                                         *)
(* A BDD over the unprimed variables is the set of states it accepts and   *)
(* the transition BDD is a set of pairs of states; module Image relates    *)
(* the two representations.  Cudd_EquivDC with the constant 0 as its       *)
(* don't-care set is equality.                                             *)
(***************************************************************************)
EXTENDS Naturals, FiniteSets

CONSTANT State

\* A state is a valuation of the variables in the manager of CUDD.
ASSUME FiniteStates == IsFiniteSet(State)

VARIABLES
  trans,          \* context.transition
  op,             \* the operator whose function is running
  beforeStates,   \* first argument of EU and AU
  finallyStates,  \* last argument of EU and AU, propStates of the others
  prev, current,  \* the loop's two approximations
  pc              \* "call": entered, "loop": at the while, "done": returned

args == <<trans, op, beforeStates, finallyStates>>
vars == <<trans, op, beforeStates, finallyStates, prev, current, pc>>

LeastOps == {"EF", "AF", "EU", "AU"}
GreatestOps == {"EG", "AG"}
UntilOps == {"EU", "AU"}
LoopOps == LeastOps \cup GreatestOps

-----------------------------------------------------------------------------

EX(p) == {s \in State : \E t \in p : <<s, t>> \in trans}

\* AX without the outer negation.
AX_OuterNotLost(p) == EX(State \ p)

AX(p) == State \ EX(State \ p)

EF(z) == finallyStates \cup EX(z)
AF(z) == finallyStates \cup AX(z)
EG(z) == finallyStates \cap EX(z)
AG(z) == finallyStates \cap AX(z)

\* The until loop with the conjunction on the left argument left out.
EU_BeforeLost(z) == finallyStates \cup EX(z)

EU(z) == finallyStates \cup (beforeStates \cap EX(z))
AU(z) == finallyStates \cup (beforeStates \cap AX(z))

\* The expression that each loop assigns to `current'.
Body(z) ==
  CASE op = "EF" -> EF(z)
    [] op = "AF" -> AF(z)
    [] op = "EG" -> EG(z)
    [] op = "AG" -> AG(z)
    [] op = "EU" -> EU(z)
    [] op = "AU" -> AU(z)

-----------------------------------------------------------------------------
Init ==
  /\ trans \in SUBSET (State \X State)
  /\ op \in LoopOps
  /\ finallyStates \in SUBSET State
  /\ beforeStates \in IF op \in UntilOps THEN SUBSET State ELSE {{}}
  /\ prev = {} /\ current = {}
  /\ pc = "call"

\* Enter with the empty set as the first approximation of every operator.
Enter_FromEmpty ==
  /\ pc = "call"
  /\ prev' = {}
  /\ current' = Body({})
  /\ pc' = "loop"
  /\ UNCHANGED args

\* The two declarations before the while.
Enter ==
  /\ pc = "call"
  /\ prev' = finallyStates
  /\ current' = Body(finallyStates)
  /\ pc' = "loop"
  /\ UNCHANGED args

\* The loop body without `prev = current'.
Iterate_PrevKept ==
  /\ pc = "loop"
  /\ prev # current
  /\ current' = Body(current)
  /\ UNCHANGED <<prev, pc>>
  /\ UNCHANGED args

Iterate ==
  /\ pc = "loop"
  /\ prev # current
  /\ prev' = current
  /\ current' = Body(current)
  /\ UNCHANGED pc
  /\ UNCHANGED args

Return ==
  /\ pc = "loop"
  /\ prev = current
  /\ pc' = "done"
  /\ UNCHANGED <<prev, current>>
  /\ UNCHANGED args

Next == Enter \/ Iterate \/ Return

\* The process runs alone: a step that can be taken is taken.
Spec == Init /\ [][Next]_vars /\ WF_vars(Next)

-----------------------------------------------------------------------------
\* Every BDD the loops handle is a set of states: no operator leaves a primed
\* variable behind in its result (ctlmc.c:168-172).
TypeOK ==
  /\ trans \in SUBSET (State \X State)
  /\ op \in LoopOps
  /\ beforeStates \in SUBSET State
  /\ finallyStates \in SUBSET State
  /\ prev \in SUBSET State
  /\ current \in SUBSET State
  /\ pc \in {"call", "loop", "done"}

\* What EF, AF, EU and AU return is the least set closed under their equation
\* and what EG and AG return is the greatest set consistent with theirs,
\* whatever the transition relation.
FixpointResult ==
  pc = "done" =>
    /\ Body(current) = current
    /\ op \in LeastOps =>
         \A z \in SUBSET State : Body(z) \subseteq z => current \subseteq z
    /\ op \in GreatestOps =>
         \A z \in SUBSET State : z \subseteq Body(z) => z \subseteq current

\* The operators over the paths of the transition relation.
Paths == INSTANCE CtlPaths WITH Lengths <- 0..Cardinality(State)

\* What a call returns is exactly the set of states whose paths satisfy the
\* operator: EU finds the states with a finite witness, EG those with an
\* endless one, AF, AG and AU those without a counterexample path.
PathSemantics ==
  pc = "done" =>
    current = Paths!Promise(op, trans, beforeStates, finallyStates)

\* From one turn of a loop to the next, the approximations only grow (least
\* fixpoints) or only shrink (greatest fixpoints): the loop cannot swing
\* between two values that never compare equal.
MonotoneChain ==
  [][pc = "loop" =>
       /\ op \in LeastOps => prev \subseteq prev' /\ current \subseteq current'
       /\ op \in GreatestOps => prev' \subseteq prev /\ current' \subseteq current
    ]_vars

\* Every call returns: no loop runs for ever on a finite set of states.
Termination == <>(pc = "done")
=============================================================================
