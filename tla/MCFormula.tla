----------------------------- MODULE MCFormula -----------------------------
(***************************************************************************)
(* Bounds of the TLC runs of Formula.                                      *)
(***************************************************************************)
EXTENDS FormulaMeaning, SequencesExt

\* A variable, its primed counterpart, and an operator of CTL, which
\* bddFromPrefix takes for a variable.
x  == <<"x", 0>>
xp == <<"x", 1>>
EX == <<"EX", 0>>

\* Every token sequence of at most three tokens, and every one of five
\* tokens over the symbols that make deep formulas.
MCFormulas ==
  BoundedSeq({x, xp, EX, OP_NOT} \cup BinaryOps, 3)
    \cup TupleOf({x, xp, OP_NOT, OP_IFF}, 5)
=============================================================================
