------------------------------ MODULE Symbols ------------------------------
(***************************************************************************)
(* What bddFromPrefix and check() share: the tokens, and the operand stack *)
(* of ddStack.c.                                                           *)
(*                                                                         *)
(* Tokens as tokenize hands them out: <<text, primes>> for a name followed *)
(* by that many primes.  A name of at most five characters fits            *)
(* MAX_VAR_LEN and a MAX_OP_LEN-bounded comparison with an operator is an  *)
(* exact one, so that equal tokens are equal pairs.                        *)
(***************************************************************************)
EXTENDS Naturals, Sequences, FiniteSets

CONSTANT Null   \* NULL, and what Cudd_Not makes of it

OP_OR  == <<"+", 0>>
OP_AND == <<".", 0>>
OP_XOR == <<"^", 0>>
OP_IFF == <<"=", 0>>
OP_NOT == <<"!", 0>>

BinaryOps == {OP_OR, OP_AND, OP_XOR, OP_IFF}
TemporalUnary == {<<t, 0>> : t \in {"EX", "AX", "EF", "AF", "EG", "AG"}}
TemporalBinary == {<<t, 0>> : t \in {"EU", "AU"}}

isOperator(t) == t \in BinaryOps \cup {OP_NOT} \cup TemporalUnary \cup TemporalBinary

isPrimedToken(t) == t[2] > 0

\* strcpy and strcat at main.c:171-172.
PrimedName(t) == <<t[1], t[2] + 1>>

\* numUniqVar of getUniqVars; the array of names is not used by any caller.
numUniqVars(tokens) ==
  Cardinality({t \in {tokens[j] : j \in DOMAIN tokens} : ~isOperator(t)})

-----------------------------------------------------------------------------
\* A stack of BDD nodes with a fixed capacity; Len(d.stack) is d->top.  Neither
\* function fails loudly: a push on a full stack returns false, which no caller
\* looks at, and a pop of an empty one returns NULL.
ddStack_init(capacity) == [capacity |-> capacity, stack |-> <<>>]

ddStack_push(d, node) ==
  IF Len(d.stack) < d.capacity
  THEN [d EXCEPT !.stack = Append(@, node)]
  ELSE d

\* What ddStack_pop returns.
Popped(d) == IF d.stack # <<>> THEN d.stack[Len(d.stack)] ELSE Null

\* What ddStack_pop leaves.
ddStack_pop(d) ==
  [d EXCEPT !.stack = SubSeq(@, 1, Len(@) - 1)]
=============================================================================
