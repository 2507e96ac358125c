------------------------------ MODULE MCSetup ------------------------------
(***************************************************************************)
(* Bounds of the TLC runs of Setup: any three of a few formulas over two   *)
(* variables and their counterparts, among them ones that share, lack,     *)
(* reorder or misuse variables and ones that are no formulas.              *)
(***************************************************************************)
EXTENDS Setup

x   == <<"x", 0>>
xp  == <<"x", 1>>
xpp == <<"x", 2>>
y   == <<"y", 0>>
yp  == <<"y", 1>>
EX  == <<"EX", 0>>

MCFormulas ==
  { <<x>>, <<y, x, OP_AND>>, <<xp>>, <<xpp, y, OP_XOR>>,
    <<x, xp, OP_IFF>>, <<x, yp, OP_IFF>>, <<yp, y, OP_OR, xp, OP_AND>>,
    <<x, xp, OP_IFF, y, yp, OP_IFF, OP_NOT, OP_AND>>,
    <<x, EX, OP_OR>>, <<OP_NOT>>, <<x, y>> }

\* Models whose variables come in equal numbers of both kinds.
MCEven == { <<x>>, <<x, yp, OP_IFF>>, <<x, xp, OP_IFF>> }
=============================================================================
