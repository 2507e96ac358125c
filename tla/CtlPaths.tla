------------------------------ MODULE CtlPaths ------------------------------
(***************************************************************************)
(* What a CTL formula promises, stated over the paths of a transition      *)
(* relation r on State and independently of how ctlmc.c computes it.       *)
(*                                                                         *)
(* main.c never asks that every state has a successor.  The promise for    *)
(* such relations is the one the code keeps: "eventually" is witnessed by  *)
(* a finite path, "always" by a path that never ends, and the universal    *)
(* operators say that no path is a counterexample.                         *)
(*                                                                         *)
(* Lengths is the set of path lengths considered, 0 .. Cardinality(State): *)
(* a path of Cardinality(State) steps visits some state twice and so can   *)
(* be continued for ever, and a longer one to a state has a shorter one    *)
(* (both proved in ModelCheckProofs).                                      *)
(***************************************************************************)
EXTENDS Naturals

CONSTANTS State, Lengths

\* The paths of n steps of relation r.
PathOf(r, n) ==
  {f \in [0..n -> State] : \A i \in 0..(n-1) : <<f[i], f[i+1]>> \in r}

\* Some path stays in p until it reaches q.
SomeUntil(r, p, q) ==
  {s \in State : \E n \in Lengths : \E f \in PathOf(r, n) :
                    /\ f[0] = s
                    /\ \A i \in 0..(n-1) : f[i] \in p
                    /\ f[n] \in q}

\* Arbitrarily long paths stay in p.
SomeAlways(r, p) ==
  {s \in State : \A n \in Lengths : \E f \in PathOf(r, n) :
                    /\ f[0] = s
                    /\ \A i \in 0..n : f[i] \in p}

\* The states that satisfy  op p  (or  p op q  for the until operators).
Promise(op, r, p, q) ==
  CASE op = "EF" -> SomeUntil(r, State, q)
    [] op = "EG" -> SomeAlways(r, q)
    [] op = "EU" -> SomeUntil(r, p, q)
    [] op = "AF" -> State \ SomeAlways(r, State \ q)
    [] op = "AG" -> State \ SomeUntil(r, State, State \ q)
    [] op = "AU" -> State \ ( SomeAlways(r, p \ q)
                              \cup SomeUntil(r, p \ q, State \ (p \cup q)) )
=============================================================================
