--------------------------- MODULE FormulaMeaning ---------------------------
(***************************************************************************)
(* What the formulas of bddFromPrefix are and which valuations of the      *)
(* variables satisfy them: the postfix grammar, with every token that is   *)
(* no Boolean operator for a variable, and the connectives on truth        *)
(* values.                                                                 *)
(***************************************************************************)
EXTENDS Formula, Postfix

ASSUME NullIsNoBDD == \A f \in BDD : f # Null

Unary == {OP_NOT}

IsFormula(s) == IsPostfix(s, Mentions(s), Unary, BinaryOps)

\* The truth value that the connective t gives p and q.
Connected(t, p, q) ==
  CASE t = OP_OR  -> p \/ q
    [] t = OP_AND -> p /\ q
    [] t = OP_XOR -> ~(p <=> q)
    [] t = OP_IFF -> p <=> q

Leaf(s) == [t \in Mentions(s) |-> SeenNode(t)]
One == [a \in Unary \X BDD |-> {v \in Space : v \notin a[2]}]
Two == [a \in BinaryOps \X BDD \X BDD |-> {v \in Space : Connected(a[1], v \in a[2], v \in a[3])}]
Meaning(s) == PostfixValue(s, Leaf(s), Unary, One, BinaryOps, Two)

-----------------------------------------------------------------------------
\* The root that a call returns is the BDD of the formula that the whole token
\* sequence is: no token is lost, none read twice, none left over.
RootIsMeaning ==
  pc = "returned" /\ recentNode # Null =>
    IsFormula(tokens) /\ recentNode = Meaning(tokens)

\* A sequence that is a formula is never turned down.
RejectsOnlyIllFormed ==
  pc \in {"exit3", "undefined"} \/ (pc = "returned" /\ recentNode = Null)
    => ~IsFormula(tokens)
=============================================================================
