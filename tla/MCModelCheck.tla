---------------------------- MODULE MCModelCheck ----------------------------
(***************************************************************************)
(* Bounds of the TLC run of ModelCheck.  Some models are arbitrary, the    *)
(* formulas few: every transition relation over three states, formulas     *)
(* with each operator, alone and nested, and two sets of initial and of    *)
(* expected states.  In the others the formulas are many, the ill-formed   *)
(* ones among them, and one state stands apart from all transitions.       *)
(***************************************************************************)
EXTENDS ModelCheck, SequencesExt

CONSTANTS s1, s2, s3

\* Two variables and the counterpart of one of them; u is not declared.
x  == <<"x", 0>>
y  == <<"y", 0>>
xp == <<"x", 1>>
u  == <<"u", 0>>

MCDeclared == {x, y, xp}

Temporal == TemporalUnary \cup TemporalBinary
Symbol == MCDeclared \cup {u, OP_NOT} \cup BinaryOps \cup Temporal

F(t) == <<t, 0>>

FewFormulas ==
  {<<x>>, <<x, OP_NOT, F("EX")>>, <<x, F("AX")>>, <<x, F("EF")>>, <<x, F("AF")>>,
   <<y, x, OP_OR, F("EG")>>, <<x, OP_NOT, F("AG")>>,
   <<x, OP_NOT, x, F("EU")>>, <<y, OP_NOT, x, F("AU")>>,
   <<x, F("EF"), F("AG")>>, <<y, F("EG"), x, F("AU")>>, <<x, y, xp>>, <<OP_NOT>>}

\* Every sequence of two tokens; of three that start with a variable; and the
\* five-token formulas that nest the until operators.
ManyFormulas ==
  BoundedSeq(Symbol, 2)
    \cup {<<v, t, w>> : v \in {x, y}, t \in Symbol, w \in Symbol}
    \cup {s \in TupleOf({x, y, OP_NOT} \cup TemporalBinary, 5) : IsFormula(s)}

MCFormulas == FewFormulas \cup ManyFormulas

Labelling(X, Y) ==
  [d \in MCDeclared |-> CASE d = x -> X [] d = y -> Y [] d = xp -> {}]

AnyModel ==
  /\ tokens \in FewFormulas
  /\ label = Labelling({s3}, {s1})
  /\ initial \in {{s1}, {s1, s2}}
  /\ expected \in {{s1}, {s3}}

\* x tells the two states apart; y is any set of them.
AnyFormula ==
  /\ tokens \in ManyFormulas
  /\ trans \in SUBSET ({s1, s2} \X {s1, s2})
  /\ label \in {Labelling({s1}, Y) : Y \in SUBSET {s1, s2}}
  /\ initial = {s1}
  /\ expected = {s1}

MCMainInit == (AnyModel \/ AnyFormula) /\ MainInit

MCMainSpec == MCMainInit /\ [][MainNext]_mainVars /\ WF_mainVars(MainNext)
=============================================================================
