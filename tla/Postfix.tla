------------------------------ MODULE Postfix ------------------------------
(***************************************************************************)
(* What a postfix formula is, without a stack: every token ends one        *)
(* subformula at most, and the operands of an operator are the subformula  *)
(* that ends in front of it and the one in front of that.                  *)
(***************************************************************************)
EXTENDS Naturals, Sequences

\* Where the subformula that ends with the j-th token of s begins, 0 if there
\* is none; begin tells it of the tokens before.
BeginAt(s, leaves, unary, binary, begin, j) ==
  IF j = 0 THEN 0
  ELSE CASE s[j] \in leaves -> j
         [] s[j] \in unary  -> begin[j-1]
         [] s[j] \in binary -> IF begin[j-1] \in 2..j THEN begin[begin[j-1] - 1] ELSE 0
         [] OTHER -> 0

Begins(s, leaves, unary, binary) ==
  LET begin[j \in 0..Len(s)] == BeginAt(s, leaves, unary, binary, begin, j) IN begin

\* The whole of s is one formula.
IsPostfix(s, leaves, unary, binary) == Begins(s, leaves, unary, binary)[Len(s)] = 1

\* What the subformula that ends with the j-th token stands for, given what
\* leaves stand for and what operators make of their operands.
ValueAt(s, leaf, unary, one, binary, two, begin, value, j) ==
  IF begin[j] = 0 THEN {}
  ELSE CASE s[j] \in DOMAIN leaf -> leaf[s[j]]
         [] s[j] \in unary  -> one[<<s[j], value[j-1]>>]
         [] s[j] \in binary -> two[<<s[j], value[begin[j-1] - 1], value[j-1]>>]

Values(s, leaf, unary, one, binary, two) ==
  LET begin == Begins(s, DOMAIN leaf, unary, binary)
      value[j \in 0..Len(s)] == ValueAt(s, leaf, unary, one, binary, two, begin, value, j)
  IN  value

PostfixValue(s, leaf, unary, one, binary, two) ==
  Values(s, leaf, unary, one, binary, two)[Len(s)]
=============================================================================
