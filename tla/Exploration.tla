---------------------------- MODULE Exploration ----------------------------
(***************************************************************************)
(* What exploring a state space promises: starting from `source', known    *)
(* grows by successors of known states, in any order and any number at a   *)
(* time, and the exploration finishes only when nothing is left to find;   *)
(* it may be abandoned, and then promises nothing about completeness.      *)
(***************************************************************************)
CONSTANT State

VARIABLES
  relation,   \* the edges
  source,     \* where the exploration starts
  known,      \* the states found so far
  status      \* "exploring", "finished" or "abandoned"

vars == <<relation, source, known, status>>

Successors(S) == {t \in State : \E s \in S : <<s, t>> \in relation}

Init ==
  /\ relation \in SUBSET (State \X State)
  /\ source \in SUBSET State
  /\ known = source
  /\ status = "exploring"

Expand ==
  /\ status = "exploring"
  /\ known' # known
  /\ known \subseteq known'
  /\ known' \subseteq known \cup Successors(known)
  /\ UNCHANGED <<relation, source, status>>

Finish ==
  /\ status = "exploring"
  /\ Successors(known) \subseteq known
  /\ status' = "finished"
  /\ UNCHANGED <<relation, source, known>>

Abandon ==
  /\ status = "exploring"
  /\ status' = "abandoned"
  /\ UNCHANGED <<relation, source, known>>

Next == Expand \/ Finish \/ Abandon

\* No exploration goes on for ever.
Spec == Init /\ [][Next]_vars /\ <>(status # "exploring")
=============================================================================
