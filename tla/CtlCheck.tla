------------------------------ MODULE CtlCheck ------------------------------
(***************************************************************************)
(* check() of ctlmc.c: a postfix CTL formula becomes the set of states     *)
(* that satisfy it.  A Boolean operator, EX and AX take one step; the      *)
(* other temporal operators are a call of a function with a loop, whose    *)
(* steps are those of CtlFixpoint.                                         *)
(*                                                                         *)
(* CUDD gives no meaning to a NULL operand.  A token that would pass one   *)
(* ends the model: "undefined".                                            *)
(***************************************************************************)
EXTENDS CtlFixpoint, Symbols, Postfix

CONSTANTS
  Formulas,   \* the token sequences check may be given
  Declared    \* the names of context.existingVars

ASSUME Tokenised == Formulas \subseteq Seq(STRING \X Nat)

\* NULL is no BDD.
ASSUME NullIsNoSet == \A p \in SUBSET State : p # Null

VARIABLES
  label,      \* the states in which a declared variable is true
  tokens,     \* the formula
  i,          \* tokens read
  stack,
  recentNode,
  recentCtlprop,  \* _RECENT_CTLPROP
  egProp,         \* _EGPROP
  status      \* "read", "call" (a fixpoint function runs), "returned",
              \* "exit3" or "undefined"

own == <<label, tokens, i, stack, recentNode, recentCtlprop, egProp, status>>
checkVars == <<vars, own>>

-----------------------------------------------------------------------------
\* The fixpoint variables start as a call of EF for no states leaves them.
CheckInit ==
  /\ trans \in SUBSET (State \X State)
  /\ op = "EF" /\ beforeStates = {} /\ finallyStates = {}
  /\ prev = {} /\ current = {} /\ pc = "done"
  /\ label \in [Declared -> SUBSET State]
  /\ tokens \in Formulas
  /\ i = 0
  /\ stack = ddStack_init(Len(tokens))
  /\ recentNode = Null
  /\ recentCtlprop = Null /\ egProp = Null
  /\ status = "read"

token == tokens[i+1]

Reading ==
  /\ status = "read"
  /\ i < Len(tokens)
  /\ UNCHANGED <<label, tokens>>

\* The last line of every turn of the loop.
Push(d, node) ==
  /\ recentNode' = node
  /\ stack' = ddStack_push(d, node)
  /\ i' = i + 1
  /\ status' = "read"

\* The operands in the order of the pops, and the stack below them.
Operand1 == Popped(stack)
Operand2 == Popped(ddStack_pop(stack))
Below1 == ddStack_pop(stack)
Below2 == ddStack_pop(ddStack_pop(stack))

Apply(t, a, b) ==
  CASE t = OP_OR  -> a \cup b
    [] t = OP_AND -> a \cap b
    [] t = OP_XOR -> (a \ b) \cup (b \ a)
    [] t = OP_IFF -> State \ ((a \ b) \cup (b \ a))

-----------------------------------------------------------------------------
\* A token looked up among the variables before it is tried as an operator.
Refuse_OperatorsLookedUp ==
  /\ Reading
  /\ isPrimedToken(token) \/ token \notin Declared
  /\ status' = "exit3"
  /\ UNCHANGED <<i, stack, recentNode, recentCtlprop, egProp>>
  /\ UNCHANGED vars

\* A primed variable anywhere in the formula (ctlmc.c:56-59), or a variable
\* that the model does not have (ctlmc.c:136-139).
Refuse ==
  /\ Reading
  /\ \/ isPrimedToken(token)
     \/ ~isOperator(token) /\ token \notin Declared
  /\ status' = "exit3"
  /\ UNCHANGED <<i, stack, recentNode, recentCtlprop, egProp>>
  /\ UNCHANGED vars

ReadVariable ==
  /\ Reading
  /\ token \in Declared /\ ~isOperator(token) /\ ~isPrimedToken(token)
  /\ Push(stack, label[token])
  /\ UNCHANGED <<recentCtlprop, egProp>>
  /\ UNCHANGED vars

ReadNot ==
  /\ Reading
  /\ token \in {OP_NOT}
  /\ Push(Below1, IF Operand1 = Null THEN Null ELSE State \ Operand1)
  /\ UNCHANGED <<recentCtlprop, egProp>>
  /\ UNCHANGED vars

ReadBinary ==
  /\ Reading
  /\ token \in BinaryOps
  /\ Operand1 # Null /\ Operand2 # Null
  /\ Push(Below2, Apply(token, Operand1, Operand2))
  /\ UNCHANGED <<recentCtlprop, egProp>>
  /\ UNCHANGED vars

\* EX and AX
ReadNext ==
  /\ Reading
  /\ token \in {<<"EX", 0>>, <<"AX", 0>>}
  /\ Operand1 # Null
  /\ Push(Below1, IF token[1] = "EX" THEN EX(Operand1) ELSE AX(Operand1))
  /\ recentCtlprop' = token
  /\ UNCHANGED egProp
  /\ UNCHANGED vars

\* EF, AF, EG and AG: the call, with its only argument.
CallUnary ==
  /\ Reading
  /\ token \in {<<t, 0>> : t \in LoopOps \ UntilOps}
  /\ Operand1 # Null
  /\ op' = token[1]
  /\ beforeStates' = {}
  /\ finallyStates' = Operand1
  /\ pc' = "call"
  /\ stack' = Below1
  /\ status' = "call"
  /\ recentCtlprop' = token
  /\ egProp' = IF token[1] = "EG" THEN Operand1 ELSE egProp
  /\ UNCHANGED <<trans, prev, current, i, recentNode>>

\* The operands of the until operators the wrong way round.
CallUntil_Swapped ==
  /\ Reading
  /\ token \in TemporalBinary
  /\ Operand1 # Null /\ Operand2 # Null
  /\ op' = token[1]
  /\ finallyStates' = Operand2
  /\ beforeStates' = Operand1
  /\ pc' = "call"
  /\ stack' = Below2
  /\ status' = "call"
  /\ recentCtlprop' = token
  /\ UNCHANGED <<trans, prev, current, i, recentNode, egProp>>

\* EU and AU: what must come finally was pushed last.
CallUntil ==
  /\ Reading
  /\ token \in TemporalBinary
  /\ Operand1 # Null /\ Operand2 # Null
  /\ op' = token[1]
  /\ finallyStates' = Operand1
  /\ beforeStates' = Operand2
  /\ pc' = "call"
  /\ stack' = Below2
  /\ status' = "call"
  /\ recentCtlprop' = token
  /\ UNCHANGED <<trans, prev, current, i, recentNode, egProp>>

\* An operator finds too few operands and works on NULL all the same.
ReadWithout ==
  /\ Reading
  /\ \/ token \in BinaryOps \cup TemporalBinary /\ Null \in {Operand1, Operand2}
     \/ token \in TemporalUnary /\ Operand1 = Null
  /\ status' = "undefined"
  /\ UNCHANGED <<i, stack, recentNode, recentCtlprop, egProp>>
  /\ UNCHANGED vars

\* The called function runs, and when it has returned its result is pushed.
Compute ==
  /\ status = "call"
  /\ Next
  /\ UNCHANGED own

Resume ==
  /\ status = "call"
  /\ pc = "done"
  /\ Push(stack, current)
  /\ UNCHANGED <<label, tokens, recentCtlprop, egProp>>
  /\ UNCHANGED vars

AtEnd ==
  /\ status = "read"
  /\ i = Len(tokens)
  /\ UNCHANGED <<label, tokens, i, stack, recentNode, recentCtlprop, egProp>>
  /\ UNCHANGED vars

ReturnRoot ==
  /\ AtEnd
  /\ Len(stack.stack) = 1
  /\ status' = "returned"

Malformed ==
  /\ AtEnd
  /\ Len(stack.stack) # 1
  /\ status' = "exit3"

CheckNext ==
  \/ Refuse \/ ReadVariable \/ ReadNot \/ ReadBinary \/ ReadNext
  \/ CallUnary \/ CallUntil \/ ReadWithout
  \/ Compute \/ Resume \/ ReturnRoot \/ Malformed

CheckSpec ==
  CheckInit /\ [][CheckNext]_checkVars /\ WF_checkVars(CheckNext)

-----------------------------------------------------------------------------
\* What the formulas of check are and which states satisfy them: the postfix
\* grammar and, for each operator, the paths of CtlPaths.

\* The variables that a formula may mention: declared, and not primed.
Variables == {t \in Declared : ~isOperator(t) /\ ~isPrimedToken(t)}
Unary == {OP_NOT} \cup TemporalUnary
Binary == BinaryOps \cup TemporalBinary

IsFormula(s) == IsPostfix(s, Variables, Unary, Binary)

\* The states of which the operator t holds under the transition relation r,
\* given those of its operands: EX and AX by the next state, the others of the
\* temporal operators by the paths.
OfOne(r, t, p) ==
  CASE t = OP_NOT  -> State \ p
    [] t[1] = "EX" -> {s \in State : \E e \in r : e[1] = s /\ e[2] \in p}
    [] t[1] = "AX" -> {s \in State : \A e \in r : e[1] = s => e[2] \in p}
    [] OTHER -> Paths!Promise(t[1], r, {}, p)
OfTwo(r, t, p, q) ==
  CASE t = OP_OR  -> p \cup q
    [] t = OP_AND -> p \cap q
    [] t = OP_XOR -> {s \in State : (s \in p) # (s \in q)}
    [] t = OP_IFF -> {s \in State : (s \in p) = (s \in q)}
    [] OTHER -> Paths!Promise(t[1], r, p, q)

Leaf == [t \in Variables |-> label[t]]
One(r) == [a \in Unary \X (SUBSET State) |-> OfOne(r, a[1], a[2])]
Two(r) ==
  [a \in Binary \X (SUBSET State) \X (SUBSET State) |-> OfTwo(r, a[1], a[2], a[3])]
Meaning(r, s) == PostfixValue(s, Leaf, Unary, One(r), Binary, Two(r))

-----------------------------------------------------------------------------
\* What check returns is the set of states that satisfy the formula that the
\* whole token sequence is, however its operators are nested.
ResultIsMeaning ==
  status = "returned" /\ recentNode # Null =>
    IsFormula(tokens) /\ recentNode = Meaning(trans, tokens)

\* A formula over declared variables is never turned down.
RejectsOnlyIllFormed ==
  status \in {"exit3", "undefined"} \/ (status = "returned" /\ recentNode = Null)
    => ~IsFormula(tokens)
=============================================================================
