------------------------------ MODULE Formula ------------------------------
(***************************************************************************)
(* bddFromPrefix.c: a postfix formula becomes a BDD, one token at a time,  *)
(* on a ddStack.  main.c calls the function for one formula after the      *)
(* other with the same array of variables; Call is such a call, for any    *)
(* formula of Formulas.                                                    *)
(*                                                                         *)
(* CUDD gives no meaning to a NULL operand.  A call that would pass one    *)
(* ends the model: "undefined".                                            *)
(***************************************************************************)
EXTENDS Symbols, Cudd

CONSTANTS
  Formulas,   \* the token sequences a call may be given
  MaxCalls    \* bound on the number of calls; main.c makes three

\* The names a formula mentions.  Every token that is no Boolean operator is
\* a variable to bddFromPrefix, the CTL operators too.
Mentions(f) == {f[j] : j \in DOMAIN f} \ (BinaryOps \cup {OP_NOT})

AllNames == UNION {Mentions(f) : f \in Formulas}

ASSUME Tokenised == Formulas \subseteq Seq(STRING \X Nat)

ASSUME Bound == MaxCalls \in Nat

\* CUDD numbers variables as it creates them and never runs out of them.
ASSUME Manager ==
  /\ Var = 1..Cardinality(Var)
  /\ Cardinality(Var) \in Nat
  /\ IsFiniteSet(AllNames)
  /\ Cardinality(AllNames) <= Cardinality(Var)

VARIABLES
  tokens,       \* the formula
  i,            \* tokens read
  stack,
  recentNode,
  seenVars,     \* the variables of all calls so far, in order of creation
  numVars,      \* variables the manager has created
  calls,        \* calls made
  pc            \* "idle", "parse", "returned", "exit3" or "undefined"

vars == <<tokens, i, stack, recentNode, seenVars, numVars, calls, pc>>

-----------------------------------------------------------------------------
\* The variable node that the first entry of seenVars with this name holds.
IsSeen(t) == \E j \in DOMAIN seenVars : seenVars[j].name = t

SeenNode(t) ==
  seenVars[CHOOSE j \in DOMAIN seenVars :
             /\ seenVars[j].name = t
             /\ \A k \in 1..(j-1) : seenVars[k].name # t].node

Apply(t, a, b) ==
  CASE t = OP_OR  -> bddOr(a, b)
    [] t = OP_AND -> bddAnd(a, b)
    [] t = OP_XOR -> bddXor(a, b)
    [] t = OP_IFF -> bddNot(bddXor(a, b))

-----------------------------------------------------------------------------
Init ==
  /\ tokens = <<>> /\ i = 0
  /\ stack = ddStack_init(0)
  /\ recentNode = Null
  /\ seenVars = <<>> /\ numVars = 0
  /\ calls = 0
  /\ pc = "idle"

\* The call before left its stack behind.
CallFor_StackKept(f) ==
  /\ tokens' = f
  /\ i' = 0
  /\ stack' = IF calls = 0 THEN ddStack_init(Len(f)) ELSE stack
  /\ pc' = "parse"
  /\ calls' = calls + 1
  /\ recentNode' = Null
  /\ UNCHANGED <<seenVars, numVars>>

\* A call of bddFromPrefix, for the formula f.
CallFor(f) ==
  /\ tokens' = f
  /\ i' = 0
  /\ stack' = ddStack_init(Len(f))
  /\ pc' = "parse"
  /\ calls' = calls + 1
  /\ recentNode' = Null   \* uninitialised; the first token assigns it
  /\ UNCHANGED <<seenVars, numVars>>

\* main.c takes a reference to the root, which must not be NULL, before the
\* next call.
Call ==
  /\ pc = "idle" \/ (pc = "returned" /\ recentNode # Null)
  /\ calls < MaxCalls
  /\ \E f \in Formulas : CallFor(f)

token == tokens[i+1]

Reading ==
  /\ pc = "parse"
  /\ i < Len(tokens)
  /\ i' = i + 1
  /\ UNCHANGED <<tokens, calls>>

\* The last lines of every turn of the loop: node goes on the stack that the
\* operator has left.
Push(d, node) ==
  /\ recentNode' = node
  /\ stack' = ddStack_push(d, node)
  /\ UNCHANGED pc

\* The operands of a binary operator, in the order of the pops.
Operand1 == Popped(stack)
Operand2 == Popped(ddStack_pop(stack))

ReadBinary ==
  /\ Reading
  /\ token \in BinaryOps
  /\ Operand1 # Null /\ Operand2 # Null
  /\ Push(ddStack_pop(ddStack_pop(stack)), Apply(token, Operand1, Operand2))
  /\ UNCHANGED <<seenVars, numVars>>

\* The operator finds fewer than two operands and calls CUDD all the same.
ReadBinaryWithout ==
  /\ Reading
  /\ token \in BinaryOps
  /\ Operand1 = Null \/ Operand2 = Null
  /\ pc' = "undefined"
  /\ UNCHANGED <<stack, recentNode, seenVars, numVars>>

\* Cudd_Not flips a bit of the pointer: NULL stays unusable but is pushed.
ReadNot ==
  /\ Reading
  /\ token \in {OP_NOT}
  /\ Push(ddStack_pop(stack), IF Operand1 = Null THEN Null ELSE bddNot(Operand1))
  /\ UNCHANGED <<seenVars, numVars>>

ReadSeen ==
  /\ Reading
  /\ token \notin BinaryOps \cup {OP_NOT}
  /\ IsSeen(token)
  /\ Push(stack, SeenNode(token))
  /\ UNCHANGED <<seenVars, numVars>>

\* The variable not added to seenVars.
ReadNew_NotRecorded ==
  /\ Reading
  /\ token \notin BinaryOps \cup {OP_NOT}
  /\ ~IsSeen(token)
  /\ numVars' = numVars + 1
  /\ Push(stack, Node(numVars'))
  /\ UNCHANGED seenVars

ReadNew ==
  /\ Reading
  /\ token \notin BinaryOps \cup {OP_NOT}
  /\ ~IsSeen(token)
  /\ numVars' = numVars + 1
  /\ seenVars' = Append(seenVars, [name |-> token,
                                   node |-> Node(numVars'),
                                   parity |-> isPrimedToken(token)])
  /\ Push(stack, Node(numVars'))

AtEnd ==
  /\ pc = "parse"
  /\ i = Len(tokens)
  /\ UNCHANGED <<tokens, i, stack, recentNode, seenVars, numVars, calls>>

\* The test `top < 1' for `top != 1'.
Return_SurplusAccepted ==
  /\ AtEnd
  /\ Len(stack.stack) >= 1
  /\ pc' = "returned"

Return ==
  /\ AtEnd
  /\ Len(stack.stack) = 1
  /\ pc' = "returned"

\* A formula refused, too, when it does not end with an operator.
Malformed_TestsLastToken ==
  /\ AtEnd
  /\ Len(stack.stack) # 1 \/ (i > 0 /\ ~isOperator(tokens[i]))
  /\ pc' = "exit3"

Malformed ==
  /\ AtEnd
  /\ Len(stack.stack) # 1
  /\ pc' = "exit3"

Next ==
  \/ Call
  \/ ReadBinary \/ ReadBinaryWithout \/ ReadNot \/ ReadSeen \/ ReadNew
  \/ Return \/ Malformed

Spec == Init /\ [][Next]_vars /\ WF_vars(Next)

-----------------------------------------------------------------------------
SeenVar == [name : STRING \X Nat, node : BDD, parity : BOOLEAN]

TypeOK ==
  /\ tokens \in Formulas \cup {<<>>}
  /\ i \in 0..Len(tokens)
  /\ stack.capacity = Len(tokens)
  /\ stack.stack \in Seq({Null} \cup BDD)
  /\ recentNode \in {Null} \cup BDD
  /\ seenVars \in Seq(SeenVar)
  /\ numVars \in 0..Cardinality(Var)
  /\ calls \in 0..MaxCalls
  /\ pc \in {"idle", "parse", "returned", "exit3", "undefined"}

\* The stack never holds more nodes than tokens were read: ignoring the result
\* of ddStack_push (bddFromPrefix.c:91) loses no operand.
PushAlwaysFits == pc = "parse" => Len(stack.stack) <= i

\* One node per name, over all calls: two formulas that use a name mean the
\* same variable, and the position of a variable in seenVars is its index in
\* CUDD, which is how main.c:236-238 names the variables of the dump.
OneNodePerName ==
  /\ Len(seenVars) = numVars
  /\ \A j \in DOMAIN seenVars : seenVars[j].node = Node(j)
  /\ \A j, k \in DOMAIN seenVars :
       seenVars[j].name = seenVars[k].name => j = k

\* A call leaves the variables of earlier calls where they are.
SeenVarsExtend ==
  [][SubSeq(seenVars', 1, Len(seenVars)) = seenVars]_vars
=============================================================================
