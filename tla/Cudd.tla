-------------------------------- MODULE Cudd --------------------------------
(***************************************************************************)
(* The functions of the CUDD library that the program calls, by what they  *)
(* compute.  A valuation is the set of the variables that are true in it   *)
(* and a BDD is the set of the valuations that it accepts, so equal BDDs   *)
(* are equal sets.  Var holds every variable the manager may create.       *)
(***************************************************************************)
CONSTANT Var

Space == SUBSET Var

BDD == SUBSET Space

\* The projection function Cudd_bddNewVar returns for variable x.
Node(x) == {v \in Space : x \in v}

bddNot(f) == Space \ f
bddAnd(f, g) == f \cap g
bddOr(f, g) == f \cup g
bddXor(f, g) == (f \ g) \cup (g \ f)

\* Cudd_bddExistAbstract for the cube of one variable x.
ExistAbstract(f, x) == {v \in Space : v \cup {x} \in f \/ v \ {x} \in f}

\* The valuation v after the i-th variables of xs and ys trade places.
Exchanged(v, xs, ys) ==
  {z \in Var :
     \/ \E i \in DOMAIN xs : z = xs[i] /\ ys[i] \in v
     \/ \E i \in DOMAIN xs : z = ys[i] /\ xs[i] \in v
     \/ z \in v /\ \A i \in DOMAIN xs : z # xs[i] /\ z # ys[i]}

\* Cudd_bddSwapVariables
SwapVariables(f, xs, ys) == {v \in Space : Exchanged(v, xs, ys) \in f}
=============================================================================
