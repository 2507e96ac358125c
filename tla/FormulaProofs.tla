--------------------------- MODULE FormulaProofs ---------------------------
(***************************************************************************)
(* What TLC checks of bddFromPrefix on short formulas, and of the set-up   *)
(* of the model on a few, proved for formulas of any length over any       *)
(* number of variables.                                                    *)
(***************************************************************************)
EXTENDS Setup, FormulaMeaning, Image, CommonLemmas, FiniteSetTheorems, SequenceTheorems, TLAPS

Token == STRING \X Nat

\* What a ddStack is.
IsStack(d) ==
  /\ d = [capacity |-> d.capacity, stack |-> d.stack]
  /\ d.capacity \in Nat
  /\ d.stack \in Seq({Null} \cup BDD)

\* The stack, and what a call keeps of its formula.
StackInv ==
  /\ tokens \in Seq(Token) /\ tokens \in Formulas \cup {<<>>}
  /\ i \in 0..Len(tokens)
  /\ IsStack(stack) /\ stack.capacity = Len(tokens)
  /\ recentNode \in {Null} \cup BDD
  /\ pc \in {"idle", "parse", "returned", "exit3", "undefined"}
  /\ pc # "idle" => tokens \in Formulas

\* The variables, each of which some formula mentions.
VarInv ==
  /\ numVars \in Nat
  /\ seenVars \in Seq(SeenVar)
  /\ \A j \in DOMAIN seenVars : seenVars[j].name \in AllNames

\* What holds however often, and by whom, bddFromPrefix is called.
ParseInv == StackInv /\ PushAlwaysFits /\ VarInv /\ OneNodePerName

IInv == ParseInv /\ calls \in 0..MaxCalls

-----------------------------------------------------------------------------
\* A pop takes the topmost node of a stack, if there is one.
LEMMA PopShortens ==
  ASSUME NEW d, IsStack(d)
  PROVE  /\ Popped(d) \in {Null} \cup BDD
         /\ IsStack(ddStack_pop(d))
         /\ ddStack_pop(d).capacity = d.capacity
         /\ Len(ddStack_pop(d).stack) = IF Len(d.stack) = 0 THEN 0 ELSE Len(d.stack) - 1
<1> DEFINE s == d.stack
           t == SubSeq(s, 1, Len(s) - 1)
<1>1. s \in Seq({Null} \cup BDD) /\ Len(s) \in Nat
  BY DEF IsStack
<1>2. ddStack_pop(d) = [capacity |-> d.capacity, stack |-> t]
  BY DEF ddStack_pop, IsStack
<1>3. t \in Seq({Null} \cup BDD) /\ Len(t) = IF 1 <= Len(s) - 1 THEN Len(s) - 1 ELSE 0
  <2>1. \A k \in 1..(Len(s) - 1) : s[k] \in {Null} \cup BDD
    BY <1>1
  <2> QED
    BY <2>1, <1>1, SubSeqProperties
<1>4. Popped(d) \in {Null} \cup BDD
  BY <1>1 DEF Popped
<1> HIDE DEF t
<1> QED
  BY <1>1, <1>2, <1>3, <1>4 DEF IsStack

\* A push makes a stack at most one longer.
LEMMA PushLengthens ==
  ASSUME NEW d, IsStack(d), NEW node \in {Null} \cup BDD
  PROVE  /\ IsStack(ddStack_push(d, node))
         /\ ddStack_push(d, node).capacity = d.capacity
         /\ Len(ddStack_push(d, node).stack) <= Len(d.stack) + 1
<1> DEFINE s == d.stack
<1>1. /\ d = [capacity |-> d.capacity, stack |-> s] /\ d.capacity \in Nat
      /\ s \in Seq({Null} \cup BDD) /\ Len(s) \in Nat
  BY DEF IsStack
<1>2. Append(s, node) \in Seq({Null} \cup BDD) /\ Len(Append(s, node)) = Len(s) + 1
  BY <1>1
<1>3. ddStack_push(d, node) = IF Len(s) < d.capacity
                              THEN [capacity |-> d.capacity, stack |-> Append(s, node)]
                              ELSE d
  BY <1>1 DEF ddStack_push
<1>4. CASE Len(s) < d.capacity
  BY <1>1, <1>2, <1>3, <1>4 DEF IsStack
<1>5. CASE ~(Len(s) < d.capacity)
  BY <1>1, <1>3, <1>5
<1> QED
  BY <1>4, <1>5

\* Every operator gives a BDD.
LEMMA BDDs ==
  /\ \A f, g \in BDD : /\ bddAnd(f, g) \in BDD /\ bddOr(f, g) \in BDD
                       /\ bddXor(f, g) \in BDD /\ bddNot(f) \in BDD
  /\ \A v : Node(v) \in BDD
BY DEF BDD, Space, bddAnd, bddOr, bddXor, bddNot, Node

LEMMA ApplyTyped ==
  ASSUME NEW t \in BinaryOps, NEW f \in BDD, NEW g \in BDD
  PROVE  Apply(t, f, g) \in BDD
<1>1. CASE t = OP_OR
  BY <1>1, BDDs DEF Apply
<1>2. CASE t = OP_AND
  BY <1>2, BDDs DEF Apply, OP_AND, OP_OR
<1>3. CASE t = OP_XOR
  BY <1>3, BDDs DEF Apply, OP_AND, OP_OR, OP_XOR
<1>4. CASE t = OP_IFF
  BY <1>4, BDDs DEF Apply, OP_AND, OP_OR, OP_XOR, OP_IFF
<1> QED
  BY <1>1, <1>2, <1>3, <1>4 DEF BinaryOps

\* The node that the search of bddFromPrefix finds is one of the array.  No
\* name occurs twice, so the first entry with a name is the only one.
LEMMA SeenIsThere ==
  ASSUME NEW t, IsSeen(t), VarInv, OneNodePerName
  PROVE  /\ \E k \in DOMAIN seenVars : seenVars[k].name = t /\ seenVars[k].node = SeenNode(t)
         /\ SeenNode(t) \in BDD
<1> DEFINE P(j) == /\ seenVars[j].name = t
                   /\ \A k \in 1..(j-1) : seenVars[k].name # t
<1>1. PICK j \in DOMAIN seenVars : seenVars[j].name = t
  BY DEF IsSeen
<1>2. DOMAIN seenVars = 1..Len(seenVars) /\ Len(seenVars) \in Nat
  BY DEF VarInv
<1>3. ASSUME NEW k \in 1..(j-1) PROVE seenVars[k].name # t
  BY <1>1, <1>2 DEF OneNodePerName
<1>4. \E k \in DOMAIN seenVars : P(k)
  BY <1>1, <1>3
<1>5. SeenNode(t) = seenVars[CHOOSE k \in DOMAIN seenVars : P(k)].node
  BY DEF SeenNode
<1>6. (CHOOSE k \in DOMAIN seenVars : P(k)) \in DOMAIN seenVars /\ P(CHOOSE k \in DOMAIN seenVars : P(k))
  BY <1>4
<1>7. \A k \in DOMAIN seenVars : seenVars[k].node \in BDD
  BY BDDs DEF OneNodePerName
<1> DEFINE n == CHOOSE k \in DOMAIN seenVars : P(k)
<1>8. n \in DOMAIN seenVars /\ seenVars[n].name = t /\ seenVars[n].node = SeenNode(t)
  BY <1>5, <1>6
<1> HIDE DEF n
<1> QED
  BY <1>7, <1>8

\* There are no more variables than names.
LEMMA EnoughVariables ==
  ASSUME VarInv, OneNodePerName
  PROVE  numVars <= Cardinality(Var)
<1> DEFINE f == [j \in 1..numVars |-> seenVars[j].name]
<1>1. DOMAIN seenVars = 1..numVars /\ numVars \in Nat
  BY DEF VarInv, OneNodePerName
<1>2. f \in Injection(1..numVars, AllNames)
  <2>1. f \in [1..numVars -> AllNames]
    BY <1>1 DEF VarInv
  <2>2. \A j, k \in 1..numVars : f[j] = f[k] => j = k
    BY <1>1 DEF OneNodePerName
  <2> QED
    BY <2>1, <2>2 DEF Injection, IsInjective
<1> HIDE DEF f
<1>3. Cardinality(1..numVars) <= Cardinality(AllNames)
  BY <1>2, FS_Injection, Manager
<1>4. Cardinality(1..numVars) = numVars
  BY <1>1, FS_Interval
<1>5. Cardinality(AllNames) \in Nat
  BY Manager, FS_CardinalityType
<1> QED
  BY <1>1, <1>3, <1>4, <1>5, Manager

\* A token that is no Boolean operator is a name.
LEMMA TokenIsName ==
  ASSUME StackInv, pc = "parse", i < Len(tokens)
  PROVE  /\ token \in Token
         /\ token \notin BinaryOps \cup {OP_NOT} => token \in AllNames
<1>1. tokens \in Formulas /\ tokens \in Seq(Token) /\ i+1 \in DOMAIN tokens
  BY DEF StackInv
<1>2. token \in Token
  BY <1>1 DEF token
<1>3. token \notin BinaryOps \cup {OP_NOT} => token \in Mentions(tokens)
  BY <1>1 DEF token, Mentions
<1> QED
  BY <1>1, <1>2, <1>3 DEF AllNames

-----------------------------------------------------------------------------
\* Pushing the node an operator or a variable gives keeps the stack in order.
LEMMA PushInv ==
  ASSUME StackInv, PushAlwaysFits, Reading,
         NEW d, IsStack(d), d.capacity = stack.capacity, Len(d.stack) <= i,
         NEW node \in {Null} \cup BDD,
         Push(d, node)
  PROVE  StackInv' /\ PushAlwaysFits'
<1>1. /\ pc = "parse" /\ i < Len(tokens) /\ i' = i + 1 /\ UNCHANGED <<tokens, calls>>
      /\ recentNode' = node /\ stack' = ddStack_push(d, node) /\ pc' = pc
  BY DEF Reading, Push
<1>2. Len(tokens) \in Nat /\ stack.capacity = Len(tokens) /\ i \in Nat
  BY DEF StackInv
<1>3. /\ IsStack(stack') /\ stack'.capacity = Len(tokens)
      /\ Len(stack'.stack) <= Len(d.stack) + 1
  BY <1>1, <1>2, PushLengthens
<1>4. PushAlwaysFits'
  BY <1>1, <1>2, <1>3 DEF PushAlwaysFits, IsStack
<1>5. StackInv'
  BY <1>1, <1>2, <1>3 DEF StackInv, IsStack
<1> QED
  BY <1>4, <1>5

LEMMA InvInit == Init => IInv
BY Bound DEF Init, IInv, ParseInv, StackInv, IsStack, PushAlwaysFits, VarInv, OneNodePerName, ddStack_init

LEMMA CallForInv ==
  ASSUME ParseInv, NEW f \in Formulas, CallFor(f)
  PROVE  ParseInv'
<1>1. f \in Seq(Token) /\ Len(f) \in Nat
  BY Tokenised DEF Token
<1>2. StackInv' /\ PushAlwaysFits'
  BY <1>1 DEF CallFor, StackInv, IsStack, PushAlwaysFits, ddStack_init
<1>3. VarInv' /\ OneNodePerName'
  BY DEF CallFor, ParseInv, VarInv, OneNodePerName
<1> QED
  BY <1>2, <1>3 DEF ParseInv

\* What the pops of this turn of the loop leave and return.
LEMMA Operands ==
  ASSUME StackInv, PushAlwaysFits, pc = "parse"
  PROVE  /\ Operand1 \in {Null} \cup BDD /\ Operand2 \in {Null} \cup BDD
         /\ \A d \in {ddStack_pop(stack), ddStack_pop(ddStack_pop(stack))} :
              IsStack(d) /\ d.capacity = stack.capacity /\ Len(d.stack) <= i
<1> DEFINE once == ddStack_pop(stack)
           twice == ddStack_pop(once)
<1>1. IsStack(stack) /\ Len(stack.stack) <= i /\ i \in Nat /\ Len(stack.stack) \in Nat
  BY DEF StackInv, PushAlwaysFits, IsStack
<1>2. /\ Popped(stack) \in {Null} \cup BDD
      /\ IsStack(once) /\ once.capacity = stack.capacity
      /\ Len(once.stack) = IF Len(stack.stack) = 0 THEN 0 ELSE Len(stack.stack) - 1
  BY <1>1, PopShortens
<1>3. /\ Popped(once) \in {Null} \cup BDD
      /\ IsStack(twice) /\ twice.capacity = once.capacity
      /\ Len(twice.stack) = IF Len(once.stack) = 0 THEN 0 ELSE Len(once.stack) - 1
  BY <1>2, PopShortens
<1>4. Len(once.stack) <= i /\ Len(twice.stack) <= i
  BY <1>1, <1>2, <1>3
<1> QED
  BY <1>2, <1>3, <1>4 DEF Operand1, Operand2

\* A step that leaves the variables alone.
LEMMA VarsSteady ==
  ASSUME VarInv, OneNodePerName, UNCHANGED <<seenVars, numVars>>
  PROVE  VarInv' /\ OneNodePerName'
BY DEF VarInv, OneNodePerName

LEMMA ReadBinaryInv == ParseInv /\ ReadBinary => ParseInv'
<1> SUFFICES ASSUME ParseInv, ReadBinary PROVE ParseInv'
  OBVIOUS
<1> DEFINE d == ddStack_pop(ddStack_pop(stack))
           node == Apply(token, Operand1, Operand2)
<1>0. StackInv /\ PushAlwaysFits /\ VarInv /\ OneNodePerName /\ Reading /\ pc = "parse"
  BY DEF ParseInv, ReadBinary, Reading
<1>1. Operand1 \in BDD /\ Operand2 \in BDD
  BY <1>0, Operands DEF ReadBinary
<1>2. node \in BDD
  BY <1>1, ApplyTyped DEF ReadBinary
<1>3. IsStack(d) /\ d.capacity = stack.capacity /\ Len(d.stack) <= i
  BY <1>0, Operands
<1>4. Push(d, node) /\ UNCHANGED <<seenVars, numVars>>
  BY DEF ReadBinary
<1> HIDE DEF d, node
<1>5. StackInv' /\ PushAlwaysFits'
  BY <1>0, <1>2, <1>3, <1>4, PushInv
<1> QED
  BY <1>0, <1>4, <1>5, VarsSteady DEF ParseInv

LEMMA ReadNotInv == ParseInv /\ ReadNot => ParseInv'
<1> SUFFICES ASSUME ParseInv, ReadNot PROVE ParseInv'
  OBVIOUS
<1> DEFINE d == ddStack_pop(stack)
           node == IF Operand1 = Null THEN Null ELSE bddNot(Operand1)
<1>0. StackInv /\ PushAlwaysFits /\ VarInv /\ OneNodePerName /\ Reading /\ pc = "parse"
  BY DEF ParseInv, ReadNot, Reading
<1>1. node \in {Null} \cup BDD
  BY <1>0, Operands, BDDs
<1>2. IsStack(d) /\ d.capacity = stack.capacity /\ Len(d.stack) <= i
  BY <1>0, Operands
<1>3. Push(d, node) /\ UNCHANGED <<seenVars, numVars>>
  BY DEF ReadNot
<1> HIDE DEF d, node
<1>4. StackInv' /\ PushAlwaysFits'
  BY <1>0, <1>1, <1>2, <1>3, PushInv
<1> QED
  BY <1>0, <1>3, <1>4, VarsSteady DEF ParseInv

LEMMA ReadSeenInv == ParseInv /\ ReadSeen => ParseInv'
<1> SUFFICES ASSUME ParseInv, ReadSeen PROVE ParseInv'
  OBVIOUS
<1>0. StackInv /\ PushAlwaysFits /\ VarInv /\ OneNodePerName /\ Reading /\ pc = "parse"
  BY DEF ParseInv, ReadSeen, Reading
<1>1. SeenNode(token) \in {Null} \cup BDD
  BY <1>0, SeenIsThere DEF ReadSeen
<1>2. IsStack(stack) /\ Len(stack.stack) <= i
  BY <1>0 DEF StackInv, PushAlwaysFits
<1>3. Push(stack, SeenNode(token)) /\ UNCHANGED <<seenVars, numVars>>
  BY DEF ReadSeen
<1>4. StackInv' /\ PushAlwaysFits'
  BY <1>0, <1>1, <1>2, <1>3, PushInv
<1> QED
  BY <1>0, <1>3, <1>4, VarsSteady DEF ParseInv

LEMMA ReadNewInv == ParseInv /\ ReadNew => ParseInv'
<1> SUFFICES ASSUME ParseInv, ReadNew PROVE ParseInv'
  OBVIOUS
<1> DEFINE v == [name |-> token, node |-> Node(numVars'), parity |-> isPrimedToken(token)]
<1>0. StackInv /\ PushAlwaysFits /\ VarInv /\ OneNodePerName /\ Reading /\ pc = "parse"
  BY DEF ParseInv, ReadNew, Reading
<1>1. Node(numVars') \in BDD
  BY BDDs
<1>2. IsStack(stack) /\ Len(stack.stack) <= i
  BY <1>0 DEF StackInv, PushAlwaysFits
<1>3. /\ Push(stack, Node(numVars')) /\ numVars' = numVars + 1
      /\ seenVars' = Append(seenVars, v) /\ ~IsSeen(token)
  BY DEF ReadNew
<1>4. StackInv' /\ PushAlwaysFits'
  BY <1>0, <1>1, <1>2, <1>3, PushInv
<1>5. token \in Token /\ token \in AllNames
  BY <1>0, TokenIsName DEF ReadNew, Reading
<1>6. v \in SeenVar /\ v.name = token /\ v.node = Node(numVars + 1)
  BY <1>1, <1>3, <1>5 DEF SeenVar, Token, isPrimedToken
<1> HIDE DEF v
<1>7. /\ seenVars \in Seq(SeenVar) /\ numVars \in Nat /\ Len(seenVars) = numVars
      /\ DOMAIN seenVars = 1..numVars
  BY <1>0 DEF VarInv, OneNodePerName
<1>8. /\ seenVars' \in Seq(SeenVar) /\ Len(seenVars') = numVars + 1
      /\ DOMAIN seenVars' = 1..(numVars + 1)
      /\ \A j \in 1..numVars : seenVars'[j] = seenVars[j]
      /\ seenVars'[numVars + 1] = v
  BY <1>3, <1>6, <1>7
<1>9. VarInv'
  <2>1. ASSUME NEW j \in DOMAIN seenVars' PROVE seenVars'[j].name \in AllNames
    BY <1>0, <1>5, <1>6, <1>7, <1>8 DEF VarInv
  <2> QED
    BY <1>3, <1>7, <1>8, <2>1 DEF VarInv
<1>10. OneNodePerName'
  <2>1. \A j \in 1..(numVars + 1) : seenVars'[j].node = Node(j)
    BY <1>0, <1>6, <1>7, <1>8 DEF OneNodePerName
  <2>2. \A j \in 1..numVars : seenVars'[j].name # seenVars'[numVars + 1].name
    BY <1>3, <1>6, <1>7, <1>8 DEF IsSeen
  <2>3. \A j, k \in 1..numVars : seenVars'[j].name = seenVars'[k].name => j = k
    BY <1>0, <1>7, <1>8 DEF OneNodePerName
  <2>4. \A j, k \in 1..(numVars + 1) : seenVars'[j].name = seenVars'[k].name => j = k
    BY <1>7, <2>2, <2>3
  <2> QED
    BY <1>3, <1>8, <2>1, <2>4 DEF OneNodePerName
<1> QED
  BY <1>4, <1>9, <1>10 DEF ParseInv

LEMMA ReadBinaryWithoutInv == ParseInv /\ ReadBinaryWithout => ParseInv'
BY DEF ParseInv, ReadBinaryWithout, Reading, StackInv, IsStack, PushAlwaysFits, VarInv, OneNodePerName

LEMMA AtEndInv == ParseInv /\ (Return \/ Malformed) => ParseInv'
BY DEF ParseInv, Return, Malformed, AtEnd, StackInv, IsStack, PushAlwaysFits, VarInv, OneNodePerName

LEMMA StutterInv == ParseInv /\ UNCHANGED vars => ParseInv'
BY DEF vars, ParseInv, StackInv, IsStack, PushAlwaysFits, VarInv, OneNodePerName

\* Only a call counts as one.
LEMMA CallsSteady ==
  ReadBinary \/ ReadBinaryWithout \/ ReadNot \/ ReadSeen \/ ReadNew \/ Return \/ Malformed
    => calls' = calls
BY DEF ReadBinary, ReadBinaryWithout, ReadNot, ReadSeen, ReadNew, Reading,
       Return, Malformed, AtEnd

LEMMA StepInv ==
  ParseInv /\ (ReadBinary \/ ReadBinaryWithout \/ ReadNot \/ ReadSeen \/ ReadNew
               \/ Return \/ Malformed) => ParseInv'
BY ReadBinaryInv, ReadBinaryWithoutInv, ReadNotInv, ReadSeenInv, ReadNewInv, AtEndInv

LEMMA Invariance == Spec => []IInv
<1>1. IInv /\ Call => IInv'
  <2> SUFFICES ASSUME IInv, Call PROVE IInv'
    OBVIOUS
  <2> PICK f \in Formulas : CallFor(f)
    BY DEF Call
  <2>1. calls' \in 0..MaxCalls
    BY Bound DEF Call, CallFor, IInv
  <2> QED
    BY <2>1, CallForInv DEF IInv
<1>2. IInv /\ [Next]_vars => IInv'
  BY <1>1, StepInv, CallsSteady, StutterInv DEF IInv, Next, vars
<1> QED
  BY InvInit, <1>2, PTL DEF Spec

-----------------------------------------------------------------------------
\* The types of the parser's variables; the manager never runs out of
\* variables, however many calls share the array.
THEOREM TypeCorrect == Spec => []TypeOK
<1>1. IInv => TypeOK
  BY EnoughVariables DEF IInv, ParseInv, StackInv, IsStack, VarInv, OneNodePerName, TypeOK
<1> QED
  BY Invariance, <1>1, PTL

\* No push of bddFromPrefix is ever refused, whatever the formula.
THEOREM PushFits == Spec => []PushAlwaysFits
<1>1. IInv => PushAlwaysFits
  BY DEF IInv, ParseInv
<1> QED
  BY Invariance, <1>1, PTL

\* Names, entries of seenVars and CUDD variables correspond one to one, over
\* any number of calls.
THEOREM NamesAreNodes == Spec => []OneNodePerName
<1>1. IInv => OneNodePerName
  BY DEF IInv, ParseInv
<1> QED
  BY Invariance, <1>1, PTL

\* No step moves or drops an entry of seenVars.
THEOREM SeenVarsKept == Spec => SeenVarsExtend
<1>1. IInv /\ [Next]_vars => [SubSeq(seenVars', 1, Len(seenVars)) = seenVars]_vars
  <2> SUFFICES ASSUME IInv, [Next]_vars
               PROVE  SubSeq(seenVars', 1, Len(seenVars)) = seenVars
    OBVIOUS
  <2>0. seenVars \in Seq(SeenVar)
    BY DEF IInv, ParseInv, VarInv
  <2>1. CASE UNCHANGED seenVars
    BY <2>0, <2>1, SubSeqFull
  <2>2. CASE ReadNew
    <3>1. PICK v : seenVars' = Append(seenVars, v)
      BY <2>2 DEF ReadNew
    <3> QED
      BY <2>0, <3>1
  <2> QED
    BY <2>1, <2>2 DEF Next, vars, Call, CallFor, ReadBinary, ReadBinaryWithout,
       ReadNot, ReadSeen, Return, Malformed, AtEnd
<1> QED
  BY Invariance, <1>1, PTL DEF Spec, SeenVarsExtend

-----------------------------------------------------------------------------
\* The subformulas of the token sequence, and the BDDs they stand for.
Shape == Begins(tokens, Mentions(tokens), Unary, BinaryOps)
Sets == Values(tokens, Leaf(tokens), Unary, One, BinaryOps, Two)

NamesSeen == \A j \in 1..i : tokens[j] \in Mentions(tokens) => IsSeen(tokens[j])

TopIsRecent ==
  i > 0 => stack.stack # <<>> /\ recentNode = stack.stack[Len(stack.stack)]

\* Every operand so far was there: the stack is what the tokens read mean.
Sound == stack.stack \in Seq(BDD) /\ Tiles(Shape, Sets, stack.stack, i)

\* A `!' found no operand: the NULL that it pushed is under all that came later.
Broken == ~IsFormula(tokens) /\ OnNull(stack.stack, Null)

ReadInv ==
  /\ pc \in {"parse", "returned"} => NamesSeen /\ TopIsRecent /\ (Sound \/ Broken)
  /\ pc = "returned" => i > 0 /\ i = Len(tokens) /\ Len(stack.stack) = 1
  /\ pc \in {"exit3", "undefined"} => ~IsFormula(tokens)

MeaningInv == IInv /\ ReadInv

-----------------------------------------------------------------------------
LEMMA Tokens ==
  ASSUME StackInv
  PROVE  Len(tokens) \in Nat /\ TokenKinds(Mentions(tokens), Unary, BinaryOps)
<1>1. Unary \cap BinaryOps = {}
  BY DEF Unary, BinaryOps, OP_NOT, OP_OR, OP_AND, OP_XOR, OP_IFF
<1> QED
  BY <1>1 DEF StackInv, TokenKinds, Mentions, Unary

LEMMA LeafDomain == DOMAIN Leaf(tokens) = Mentions(tokens)
BY DEF Leaf

\* What the next token makes of the subformulas before it, whatever the names
\* stand for.
LEMMA Reads ==
  ASSUME StackInv, NEW f, DOMAIN f = Mentions(tokens),
         NEW v, v = Values(tokens, f, Unary, One, BinaryOps, Two),
         NEW j \in 0..(Len(tokens) - 1), NEW n, n = j + 1, NEW t, t = tokens[n]
  PROVE  /\ Shape[0] = 0 /\ Shape[j] \in 0..j
         /\ t \in Mentions(tokens) => Shape[n] = n /\ v[n] = f[t]
         /\ t \in Unary => /\ Shape[n] = Shape[j]
                           /\ Shape[n] # 0 => v[n] = One[<<t, v[j]>>]
         /\ t \in BinaryOps =>
              /\ Joins(Shape, j, n)
              /\ Shape[n] # 0 => v[n] = Two[<<t, v[Shape[j] - 1], v[j]>>]
         /\ Shape[n] = 0 => ~IsFormula(tokens)
<1>1. Len(tokens) \in Nat /\ TokenKinds(DOMAIN f, Unary, BinaryOps)
  BY Tokens
<1>2. Shape = Begins(tokens, DOMAIN f, Unary, BinaryOps)
      /\ (IsFormula(tokens) <=> IsPostfix(tokens, DOMAIN f, Unary, BinaryOps))
  BY DEF Shape, IsFormula
<1> QED
  BY <1>1, <1>2, CasesAt

LEMMA Steady ==
  ASSUME UNCHANGED <<seenVars, tokens>>
  PROVE  /\ Shape' = Shape /\ Sets' = Sets
         /\ (IsFormula(tokens))' <=> IsFormula(tokens)
BY DEF Shape, Sets, Leaf, SeenNode, IsFormula

\* What the pops find and leave, and what the push leaves.
StackIs(d) == stack.stack = d

LEMMA Popping ==
  ASSUME ParseInv, pc = "parse", NEW d, StackIs(d)
  PROVE  /\ d \in Seq({Null} \cup BDD) /\ Len(d) <= i
         /\ Operand1 = Top(d, Null) /\ Operand2 = Top(Beneath(d), Null)
         /\ ddStack_pop(stack).stack = Beneath(d)
         /\ ddStack_pop(ddStack_pop(stack)).stack = Beneath(Beneath(d))
<1> DEFINE once == ddStack_pop(stack)
<1>1. IsStack(stack) /\ IsStack(once) /\ Len(stack.stack) <= i
  BY Operands DEF ParseInv, StackInv, PushAlwaysFits
<1>2. ASSUME NEW q, IsStack(q)
      PROVE  Popped(q) = Top(q.stack, Null) /\ ddStack_pop(q).stack = Beneath(q.stack)
  <2> DEFINE s == q.stack
  <2>1. q = [capacity |-> q.capacity, stack |-> s]
    BY <1>2 DEF IsStack
  <2>2. ddStack_pop(q) = [capacity |-> q.capacity, stack |-> Beneath(s)]
    BY <2>1 DEF ddStack_pop, Beneath
  <2> HIDE DEF s
  <2> QED
    BY <2>2 DEF s, Popped, Top
<1>3. d \in Seq({Null} \cup BDD) /\ Len(d) <= i
  BY <1>1 DEF StackIs, IsStack
<1>4. /\ Popped(stack) = Top(stack.stack, Null) /\ once.stack = Beneath(stack.stack)
      /\ Popped(once) = Top(once.stack, Null) /\ ddStack_pop(once).stack = Beneath(once.stack)
  BY <1>1, <1>2
<1> QED
  BY <1>3, <1>4 DEF StackIs, Operand1, Operand2

LEMMA Pushing ==
  ASSUME ParseInv, Reading, NEW node, NEW c,
         NEW q, q \in {stack, ddStack_pop(stack), ddStack_pop(ddStack_pop(stack))},
         q.stack = c, Push(q, node)
  PROVE  /\ stack'.stack = Append(c, node) /\ recentNode' = node /\ i' = i + 1
         /\ pc' = "parse" /\ UNCHANGED tokens /\ i \in Nat /\ i < Len(tokens)
<1>1. IsStack(q) /\ q.capacity = stack.capacity /\ Len(q.stack) <= i
  BY Operands DEF ParseInv, StackInv, PushAlwaysFits, Reading
<1>2. i \in Nat /\ i < Len(tokens) /\ Len(tokens) \in Nat /\ stack.capacity = Len(tokens)
  BY DEF ParseInv, StackInv, Reading
<1>3. Len(q.stack) < q.capacity
  <2>1. Len(q.stack) \in Nat
    BY <1>1 DEF IsStack
  <2> QED
    BY <1>1, <1>2, <2>1
<1>4. ddStack_push(q, node).stack = Append(q.stack, node)
  <2> DEFINE s == q.stack
  <2>1. q = [capacity |-> q.capacity, stack |-> s]
    BY <1>1 DEF IsStack
  <2>2. ddStack_push(q, node) = [capacity |-> q.capacity, stack |-> Append(s, node)]
    BY <1>3, <2>1 DEF ddStack_push
  <2> QED
    BY <2>2
<1> QED
  BY <1>2, <1>4 DEF Push, Reading

\* The end of a turn whose operands were there.
LEMMA PushSound ==
  ASSUME NamesSeen', NEW c \in Seq(BDD), NEW node \in BDD,
         stack'.stack = Append(c, node), recentNode' = node, i' = i + 1, pc' = "parse",
         i \in Nat, NEW n, n = i + 1,
         Shape'[n] \in Nat \ {0}, Tiles(Shape', Sets', c, Shape'[n] - 1), node = Sets'[n]
  PROVE  ReadInv'
<1> DEFINE b == Shape'
           v == Sets'
           a == Append(c, node)
<1> HIDE DEF b, v
<1>1. Tiles(b, v, Append(c, v[n]), n)
  <2>1. n \in Nat /\ v[n] \in BDD /\ b[n] \in Nat /\ b[n] # 0 /\ Tiles(b, v, c, b[n] - 1)
    BY DEF b, v
  <2> QED
    BY ONLY <2>1, c \in Seq(BDD), TilesPush
<1>2. a \in Seq(BDD) /\ a # <<>> /\ a[Len(a)] = node
  BY ONLY c \in Seq(BDD), node \in BDD
<1>3. Tiles(b, v, a, i')
  BY <1>1 DEF v
<1> HIDE DEF a
<1>4. TopIsRecent'
  BY <1>2 DEF TopIsRecent, a
<1>5. Sound'
  BY <1>2, <1>3 DEF Sound, a, b, v
<1> QED
  BY <1>4, <1>5 DEF ReadInv

\* The end of a turn of a formula that has lost an operand.
LEMMA PushOnNull ==
  ASSUME NamesSeen', NEW c \in Seq({Null} \cup BDD), NEW node \in {Null} \cup BDD,
         stack'.stack = Append(c, node), recentNode' = node, pc' = "parse",
         ~(IsFormula(tokens))', (OnNull(c, Null) /\ node # Null) \/ (c = <<>> /\ node = Null)
  PROVE  ReadInv'
<1> DEFINE a == Append(c, node)
<1>1. a # <<>> /\ a[Len(a)] = node
  OBVIOUS
<1>2. OnNull(a, Null)
  BY AppendOnNull
<1> HIDE DEF a
<1>3. TopIsRecent'
  BY <1>1 DEF TopIsRecent, a
<1>4. Broken'
  BY <1>2 DEF Broken, OnNull, a
<1> QED
  BY <1>3, <1>4 DEF ReadInv

-----------------------------------------------------------------------------
\* The node that the search of bddFromPrefix finds in the array a.
NodeOf(a, t) ==
  a[CHOOSE j \in DOMAIN a : a[j].name = t /\ \A k \in 1..(j-1) : a[k].name # t].node

\* The first entry with a name is the only one.
LEMMA FirstEntry ==
  ASSUME NEW a, NEW m \in Nat, DOMAIN a = 1..m,
         \A j, k \in DOMAIN a : a[j].name = a[k].name => j = k,
         NEW j \in DOMAIN a, NEW t, t = a[j].name
  PROVE  NodeOf(a, t) = a[j].node
<1> DEFINE P(l) == a[l].name = t /\ \A k \in 1..(l-1) : a[k].name # t
<1>1. ASSUME NEW k \in 1..(j-1) PROVE a[k].name # t
  <2>1. k \in DOMAIN a /\ k # j
    OBVIOUS
  <2> QED
    BY <2>1
<1>2. P(j)
  BY <1>1
<1>3. (CHOOSE l \in DOMAIN a : P(l)) \in DOMAIN a /\ P(CHOOSE l \in DOMAIN a : P(l))
  BY <1>2
<1>4. (CHOOSE l \in DOMAIN a : P(l)) = j
  BY <1>3
<1> QED
  BY <1>4 DEF NodeOf

LEMMA LeafIs ==
  ASSUME UNCHANGED tokens
  PROVE  /\ Leaf(tokens) = [t \in Mentions(tokens) |-> NodeOf(seenVars, t)]
         /\ (Leaf(tokens))' = [t \in Mentions(tokens) |-> NodeOf(seenVars', t)]
BY DEF Leaf, SeenNode, NodeOf

\* A token that stands for a variable, new or not: the names read so far keep
\* their nodes.
LEMMA VariableRead ==
  ASSUME MeaningInv, Reading, NEW t, t = token, t \in Mentions(tokens),
         NEW node \in BDD, Push(stack, node), NamesSeen',
         \A j \in 1..i : tokens[j] \in Mentions(tokens) =>
            NodeOf(seenVars', tokens[j]) = NodeOf(seenVars, tokens[j]),
         NodeOf(seenVars', t) = node
  PROVE  ReadInv'
<1>1. PICK d : StackIs(d)
  BY DEF StackIs
<1>2. ParseInv /\ StackInv /\ pc = "parse" /\ UNCHANGED tokens /\ i \in 0..(Len(tokens) - 1)
  BY DEF MeaningInv, IInv, ParseInv, Reading, StackInv
<1>3. d \in Seq({Null} \cup BDD) /\ Len(d) <= i
  BY <1>1, <1>2, Popping
<1>4. /\ stack'.stack = Append(d, node) /\ recentNode' = node /\ i' = i + 1
      /\ pc' = "parse" /\ i \in Nat
  BY <1>1, <1>2, Pushing DEF StackIs
<1>5. PICK n : n = i + 1
  OBVIOUS
<1>6. PICK f, g : f = Leaf(tokens) /\ g = (Leaf(tokens))'
  OBVIOUS
<1>7. PICK v, w : /\ v = Values(tokens, f, Unary, One, BinaryOps, Two)
                  /\ w = Values(tokens, g, Unary, One, BinaryOps, Two)
  OBVIOUS
<1>8. /\ DOMAIN f = Mentions(tokens) /\ DOMAIN g = Mentions(tokens) /\ g[t] = node
      /\ \A j \in 1..i : tokens[j] \in DOMAIN f => f[tokens[j]] = g[tokens[j]]
  BY <1>2, <1>6, LeafIs
<1>9. Shape' = Shape /\ Sets = v /\ Sets' = w /\ ((IsFormula(tokens))' <=> IsFormula(tokens))
  BY <1>2, <1>6, <1>7 DEF Shape, Sets, IsFormula
<1>10. t = tokens[n]
  BY <1>5 DEF token
<1>11. Shape[n] = n /\ w[n] = node
  <2>1. /\ Shape[0] = 0 /\ Shape[i] \in 0..i
        /\ t \in Mentions(tokens) => Shape[n] = n /\ w[n] = g[t]
        /\ t \in Unary => /\ Shape[n] = Shape[i]
                          /\ Shape[n] # 0 => w[n] = One[<<t, w[i]>>]
        /\ t \in BinaryOps =>
              /\ Joins(Shape, i, n)
              /\ Shape[n] # 0 => w[n] = Two[<<t, w[Shape[i] - 1], w[i]>>]
        /\ Shape[n] = 0 => ~IsFormula(tokens)
    BY ONLY <1>2, <1>5, <1>7, <1>8, <1>10, Reads
  <2> QED
    BY <1>8, <2>1
<1>12. CASE Sound
  <2>1. d \in Seq(BDD) /\ Tiles(Shape, v, d, i)
    BY <1>1, <1>9, <1>12 DEF Sound, StackIs
  <2>2. \A j \in 0..i : v[j] = w[j]
    <3>1. /\ Len(tokens) \in Nat /\ DOMAIN f = DOMAIN g /\ TokenKinds(DOMAIN f, Unary, BinaryOps)
          /\ i \in 0..Len(tokens)
      BY <1>2, <1>8, Tokens
    <3> QED
      BY ONLY <1>7, <1>8, <3>1, ValuesAgree
  <2>3. \A j \in 0..i : Shape[j] \in 0..j
    BY <1>2, Tokens, BeginFacts DEF Shape
  <2>4. Tiles(Shape, w, d, i)
    BY ONLY <1>4, <2>1, <2>2, <2>3, TilesAgree
  <2>5. n - 1 = i /\ n \in Nat \ {0}
    BY <1>4, <1>5
  <2>6. /\ Shape'[n] \in Nat \ {0} /\ Tiles(Shape', Sets', d, Shape'[n] - 1) /\ node = Sets'[n]
    BY <1>9, <1>11, <2>4, <2>5
  <2> QED
    BY <1>4, <1>5, <2>1, <2>6, PushSound
<1>13. CASE Broken
  <2>1. OnNull(d, Null) /\ ~(IsFormula(tokens))'
    BY <1>1, <1>9, <1>13 DEF Broken, StackIs
  <2>2. node # Null
    BY NullIsNoBDD
  <2> QED
    BY <1>3, <1>4, <2>1, <2>2, PushOnNull
<1> QED
  BY <1>2, <1>12, <1>13 DEF MeaningInv, ReadInv

\* Only a new variable makes a difference to what was seen.
LEMMA NamesSeenInv ==
  ASSUME NamesSeen, StackInv, Reading, NEW t, t = token,
         \A j \in DOMAIN seenVars : j \in DOMAIN seenVars' /\ seenVars'[j] = seenVars[j],
         t \in Mentions(tokens) => \E k \in DOMAIN seenVars' : seenVars'[k].name = t
  PROVE  NamesSeen'
<1>1. tokens' = tokens /\ i' = i + 1 /\ i \in Nat
  BY DEF Reading, StackInv
<1>2. t = tokens[i+1]
  BY DEF token
<1>3. ASSUME NEW j \in 1..(i+1), tokens[j] \in Mentions(tokens)
      PROVE  \E k \in DOMAIN seenVars' : seenVars'[k].name = tokens[j]
  <2>1. CASE j = i + 1
    BY <1>2, <1>3, <2>1
  <2>2. CASE j # i + 1
    <3>1. j \in 1..i
      BY <1>1, <2>2
    <3>2. PICK k \in DOMAIN seenVars : seenVars[k].name = tokens[j]
      BY <1>3, <3>1 DEF NamesSeen, IsSeen
    <3> QED
      BY <3>2
  <2> QED
    BY <2>1, <2>2
<1> QED
  BY <1>1, <1>3 DEF NamesSeen, IsSeen

LEMMA ReadSeenMeaning == MeaningInv /\ ReadSeen => ReadInv'
<1> SUFFICES ASSUME MeaningInv, ReadSeen PROVE ReadInv'
  OBVIOUS
<1>1. /\ ParseInv /\ StackInv /\ VarInv /\ OneNodePerName /\ NamesSeen /\ Reading
      /\ UNCHANGED seenVars /\ Push(stack, SeenNode(token)) /\ pc = "parse"
      /\ IsSeen(token)
  BY DEF MeaningInv, IInv, ParseInv, ReadInv, ReadSeen, Reading
<1>2. PICK t : t = token
  OBVIOUS
<1>3. t \in Mentions(tokens)
  <2>1. i + 1 \in DOMAIN tokens
    BY <1>1 DEF StackInv, Reading
  <2> QED
    BY <1>2, <2>1 DEF Mentions, ReadSeen, token
<1>4. \E k \in DOMAIN seenVars : seenVars[k].name = t
  BY <1>1, <1>2 DEF IsSeen
<1>5. NamesSeen'
  BY <1>1, <1>2, <1>4, NamesSeenInv
<1>6. NodeOf(seenVars', t) = SeenNode(t) /\ SeenNode(t) \in BDD
  BY <1>1, <1>2, SeenIsThere DEF NodeOf, SeenNode
<1>7. Push(stack, SeenNode(t))
  BY <1>1, <1>2
<1> QED
  BY <1>1, <1>2, <1>3, <1>5, <1>6, <1>7, VariableRead

LEMMA ReadNewMeaning == MeaningInv /\ ParseInv' /\ ReadNew => ReadInv'
<1> SUFFICES ASSUME MeaningInv, ParseInv', ReadNew PROVE ReadInv'
  OBVIOUS
<1>1. /\ ParseInv /\ StackInv /\ VarInv /\ OneNodePerName /\ NamesSeen /\ Reading
      /\ VarInv' /\ OneNodePerName' /\ pc = "parse"
  BY DEF MeaningInv, IInv, ParseInv, ReadInv, ReadNew, Reading
<1>2. PICK t : t = token
  OBVIOUS
<1>3. t \in Mentions(tokens)
  <2>1. i + 1 \in DOMAIN tokens
    BY <1>1 DEF StackInv, Reading
  <2> QED
    BY <1>2, <2>1 DEF Mentions, ReadNew, token
<1>4. PICK m, node : m = Len(seenVars) /\ node = Node(numVars')
  OBVIOUS
<1>5. /\ m \in Nat /\ DOMAIN seenVars = 1..m /\ DOMAIN seenVars' = 1..(m+1)
      /\ \A j \in 1..m : seenVars'[j] = seenVars[j]
      /\ seenVars'[m+1].name = t /\ seenVars'[m+1].node = node
  BY <1>1, <1>2, <1>4 DEF ReadNew, VarInv
<1>6. NamesSeen'
  BY <1>1, <1>2, <1>5, NamesSeenInv
<1>7. /\ \A j, k \in DOMAIN seenVars : seenVars[j].name = seenVars[k].name => j = k
      /\ \A j, k \in DOMAIN seenVars' : seenVars'[j].name = seenVars'[k].name => j = k
  BY <1>1 DEF OneNodePerName
<1>8. NodeOf(seenVars', t) = node
  <2>1. m + 1 \in Nat /\ m + 1 \in DOMAIN seenVars'
    BY <1>5
  <2>2. DOMAIN seenVars' = 1..(m+1) /\ t = seenVars'[m+1].name
    BY <1>5
  <2>3. \A j, k \in DOMAIN seenVars' : seenVars'[j].name = seenVars'[k].name => j = k
    BY <1>7
  <2>4. NodeOf(seenVars', t) = seenVars'[m+1].node
    BY ONLY <2>1, <2>2, <2>3, FirstEntry
  <2> QED
    BY <1>5, <2>4
<1>9. ASSUME NEW j \in 1..i, tokens[j] \in Mentions(tokens)
      PROVE  NodeOf(seenVars', tokens[j]) = NodeOf(seenVars, tokens[j])
  <2>1. PICK k \in DOMAIN seenVars : seenVars[k].name = tokens[j]
    BY <1>1, <1>9 DEF NamesSeen, IsSeen
  <2>2. NodeOf(seenVars, tokens[j]) = seenVars[k].node
    <3>1. m \in Nat /\ DOMAIN seenVars = 1..m /\ k \in DOMAIN seenVars /\ tokens[j] = seenVars[k].name
      BY <1>5, <2>1
    <3>2. \A j1, j2 \in DOMAIN seenVars : seenVars[j1].name = seenVars[j2].name => j1 = j2
      BY <1>7
    <3> QED
      BY ONLY <3>1, <3>2, FirstEntry
  <2>3. k \in DOMAIN seenVars' /\ seenVars'[k] = seenVars[k] /\ m + 1 \in Nat
    BY <1>5
  <2>4. NodeOf(seenVars', tokens[j]) = seenVars'[k].node
    <3>1. DOMAIN seenVars' = 1..(m+1) /\ tokens[j] = seenVars'[k].name
      BY <1>5, <2>1, <2>3
    <3>2. \A j1, j2 \in DOMAIN seenVars' : seenVars'[j1].name = seenVars'[j2].name => j1 = j2
      BY <1>7
    <3> QED
      BY ONLY <2>3, <3>1, <3>2, FirstEntry
  <2> QED
    BY <2>2, <2>3, <2>4
<1>10. node \in BDD /\ Push(stack, node)
  BY <1>4, BDDs DEF ReadNew
<1> QED
  BY <1>1, <1>2, <1>3, <1>6, <1>8, <1>9, <1>10, VariableRead

-----------------------------------------------------------------------------
\* What CUDD computes for an operator is what the operator means.
LEMMA OperatorsMean ==
  /\ \A p \in BDD : One[<<OP_NOT, p>>] = bddNot(p)
  /\ \A t \in BinaryOps : \A p, q \in BDD : Two[<<t, p, q>>] = Apply(t, q, p)
<1>1. ASSUME NEW p \in BDD PROVE One[<<OP_NOT, p>>] = bddNot(p)
  <2>1. One[<<OP_NOT, p>>] = {v \in Space : v \notin p}
    BY DEF One, Unary
  <2> QED
    BY <2>1 DEF bddNot
<1>2. ASSUME NEW t \in BinaryOps, NEW p \in BDD, NEW q \in BDD
      PROVE  Two[<<t, p, q>>] = Apply(t, q, p)
  <2>0. p \subseteq Space /\ q \subseteq Space
    BY DEF BDD
  <2>1. Two[<<t, p, q>>] = {v \in Space : Connected(t, v \in p, v \in q)}
    BY DEF Two
  <2>2. ASSUME NEW v \in Space
        PROVE  /\ t = OP_OR  => (Connected(t, v \in p, v \in q) <=> v \in p \/ v \in q)
               /\ t = OP_AND => (Connected(t, v \in p, v \in q) <=> v \in p /\ v \in q)
               /\ t = OP_XOR => (Connected(t, v \in p, v \in q) <=> ~(v \in p <=> v \in q))
               /\ t = OP_IFF => (Connected(t, v \in p, v \in q) <=> (v \in p <=> v \in q))
    <3>1. OP_OR # OP_AND /\ OP_OR # OP_XOR /\ OP_OR # OP_IFF /\ OP_AND # OP_XOR
          /\ OP_AND # OP_IFF /\ OP_XOR # OP_IFF
      BY DEF OP_OR, OP_AND, OP_XOR, OP_IFF
    <3> QED
      BY <3>1 DEF Connected
  <2>3. /\ t = OP_OR  => Apply(t, q, p) = q \cup p
        /\ t = OP_AND => Apply(t, q, p) = q \cap p
        /\ t = OP_XOR => Apply(t, q, p) = (q \ p) \cup (p \ q)
        /\ t = OP_IFF => Apply(t, q, p) = Space \ ((q \ p) \cup (p \ q))
    BY DEF Apply, bddOr, bddAnd, bddXor, bddNot, OP_OR, OP_AND, OP_XOR, OP_IFF
  <2>4. CASE t = OP_OR
    BY <2>0, <2>1, <2>2, <2>3, <2>4
  <2>5. CASE t = OP_AND
    BY <2>0, <2>1, <2>2, <2>3, <2>5
  <2>6. CASE t = OP_XOR
    BY <2>0, <2>1, <2>2, <2>3, <2>6
  <2>7. CASE t = OP_IFF
    BY <2>0, <2>1, <2>2, <2>3, <2>7
  <2> QED
    BY <2>4, <2>5, <2>6, <2>7 DEF BinaryOps
<1> QED
  BY <1>1, <1>2

LEMMA ReadNotMeaning == MeaningInv /\ ReadNot => ReadInv'
<1> SUFFICES ASSUME MeaningInv, ReadNot PROVE ReadInv'
  OBVIOUS
<1>1. /\ ParseInv /\ StackInv /\ NamesSeen /\ Reading /\ UNCHANGED seenVars
      /\ pc = "parse" /\ i \in 0..(Len(tokens) - 1) /\ (Sound \/ Broken)
  BY DEF MeaningInv, IInv, ParseInv, StackInv, ReadInv, ReadNot, Reading
<1>2. PICK t : t = token
  OBVIOUS
<1>3. t \in Unary /\ t = OP_NOT /\ t \notin Mentions(tokens)
  BY <1>2 DEF ReadNot, Unary, Mentions
<1>4. NamesSeen'
  BY <1>1, <1>2, <1>3, NamesSeenInv
<1>5. PICK d, n, v : StackIs(d) /\ n = i + 1 /\ v = Sets
  BY DEF StackIs
<1> DEFINE c == Beneath(d)
           node == IF Operand1 = Null THEN Null ELSE bddNot(Operand1)
<1>6. /\ d \in Seq({Null} \cup BDD) /\ Operand1 = Top(d, Null)
      /\ ddStack_pop(stack).stack = c
  BY <1>1, <1>5, Popping
<1>7. /\ Shape[0] = 0 /\ Shape[i] \in 0..i
      /\ t \in Mentions(tokens) => Shape[n] = n /\ v[n] = Leaf(tokens)[t]
      /\ t \in Unary => /\ Shape[n] = Shape[i]
                        /\ Shape[n] # 0 => v[n] = One[<<t, v[i]>>]
      /\ t \in BinaryOps =>
            /\ Joins(Shape, i, n)
            /\ Shape[n] # 0 => v[n] = Two[<<t, v[Shape[i] - 1], v[i]>>]
      /\ Shape[n] = 0 => ~IsFormula(tokens)
  <2>1. t = tokens[n] /\ v = Values(tokens, Leaf(tokens), Unary, One, BinaryOps, Two)
    BY <1>2, <1>5 DEF token, Sets
  <2> QED
    BY ONLY <1>1, <1>5, <2>1, LeafDomain, Reads
<1>8. Null \notin BDD
  BY NullIsNoBDD
<1>9. /\ Top(d, Null) \in {Null} \cup BDD
      /\ Beneath(d) \in Seq({Null} \cup BDD) /\ Len(Beneath(d)) <= Len(d)
      /\ d \in Seq(BDD) /\ Tiles(Shape, v, d, i) =>
           /\ Top(d, Null) = Null => Shape[n] = 0 /\ Beneath(d) = <<>>
           /\ Top(d, Null) # Null =>
                /\ Top(d, Null) = v[i] /\ Beneath(d) \in Seq(BDD)
                /\ Shape[n] \in Nat \ {0} /\ Tiles(Shape, v, Beneath(d), Shape[n] - 1)
      /\ OnNull(d, Null) =>
           /\ Top(d, Null) = Null => Beneath(d) = <<>>
           /\ Top(d, Null) # Null => OnNull(Beneath(d), Null)
  <2>1. Shape[0] = 0 /\ Shape[n] = Shape[i]
    BY <1>3, <1>7
  <2> QED
    BY ONLY <1>6, <1>8, <2>1, UnaryStack
<1>10. /\ stack'.stack = Append(c, node) /\ recentNode' = node /\ i' = i + 1
       /\ pc' = "parse" /\ UNCHANGED tokens /\ i \in Nat
  BY <1>1, <1>6, Pushing DEF ReadNot
<1>11. Shape' = Shape /\ Sets' = v /\ ((IsFormula(tokens))' <=> IsFormula(tokens))
  BY <1>1, <1>5, <1>10, Steady
<1>12. /\ Sound => d \in Seq(BDD) /\ Tiles(Shape, v, d, i)
       /\ Broken => ~IsFormula(tokens) /\ OnNull(d, Null)
  BY <1>5 DEF Sound, Broken, StackIs
<1>13. CASE Operand1 = Null
  <2>1. c = <<>> /\ node = Null /\ ~IsFormula(tokens)
    BY <1>1, <1>6, <1>7, <1>9, <1>12, <1>13
  <2> HIDE DEF c, node
  <2> QED
    BY <1>4, <1>9, <1>10, <1>11, <2>1, PushOnNull DEF c
<1>14. CASE Operand1 # Null
  <2>1. node = bddNot(Operand1) /\ node \in BDD /\ node # Null /\ Operand1 \in BDD
    BY <1>6, <1>8, <1>9, <1>14, BDDs
  <2>2. CASE Sound
    <3>1. v[n] = node
      <4>1. Shape[n] # 0 /\ v[i] = Operand1
        BY <1>6, <1>9, <1>12, <1>14, <2>2
      <4> QED
        BY <1>3, <1>7, <2>1, <4>1, OperatorsMean
    <3>2. /\ c \in Seq(BDD) /\ Shape'[n] \in Nat \ {0} /\ Tiles(Shape', Sets', c, Shape'[n] - 1)
          /\ node = Sets'[n]
      BY <1>6, <1>9, <1>11, <1>12, <1>14, <2>2, <3>1
    <3> HIDE DEF c, node
    <3> QED
      BY <1>4, <1>5, <1>10, <2>1, <3>2, PushSound
  <2>3. CASE Broken
    <3>1. OnNull(c, Null) /\ ~(IsFormula(tokens))' /\ c \in Seq({Null} \cup BDD)
      BY <1>6, <1>9, <1>11, <1>12, <1>14, <2>3
    <3> HIDE DEF c, node
    <3> QED
      BY <1>4, <1>10, <2>1, <3>1, PushOnNull
  <2> QED
    BY <1>1, <2>2, <2>3
<1> QED
  BY <1>13, <1>14

\* What a binary operator finds on the stack.
LEMMA BinaryOperands ==
  ASSUME MeaningInv, pc = "parse", i < Len(tokens), NEW t, t = token, t \in BinaryOps,
         NEW d, StackIs(d), NEW n, n = i + 1
  PROVE  /\ Beneath(Beneath(d)) \in Seq({Null} \cup BDD)
         /\ Operand1 = Null \/ Operand2 = Null => ~IsFormula(tokens)
         /\ Operand1 # Null /\ Operand2 # Null =>
              /\ Apply(t, Operand1, Operand2) \in BDD
              /\ Broken => ~IsFormula(tokens) /\ OnNull(Beneath(Beneath(d)), Null)
              /\ Sound =>
                   /\ Beneath(Beneath(d)) \in Seq(BDD) /\ Shape[n] \in Nat \ {0}
                   /\ Tiles(Shape, Sets, Beneath(Beneath(d)), Shape[n] - 1)
                   /\ Sets[n] = Apply(t, Operand1, Operand2)
<1>1. /\ ParseInv /\ StackInv /\ i \in 0..(Len(tokens) - 1) /\ (Sound \/ Broken)
  BY DEF MeaningInv, IInv, ParseInv, StackInv, ReadInv
<1>2. /\ d \in Seq({Null} \cup BDD) /\ Operand1 = Top(d, Null)
      /\ Operand2 = Top(Beneath(d), Null)
  BY <1>1, Popping
<1>3. PICK v : v = Sets
  OBVIOUS
<1>4. /\ Shape[0] = 0 /\ Shape[i] \in 0..i
      /\ t \in Mentions(tokens) => Shape[n] = n /\ v[n] = Leaf(tokens)[t]
      /\ t \in Unary => /\ Shape[n] = Shape[i]
                        /\ Shape[n] # 0 => v[n] = One[<<t, v[i]>>]
      /\ t \in BinaryOps =>
            /\ Joins(Shape, i, n)
            /\ Shape[n] # 0 => v[n] = Two[<<t, v[Shape[i] - 1], v[i]>>]
      /\ Shape[n] = 0 => ~IsFormula(tokens)
  <2>1. t = tokens[n] /\ v = Values(tokens, Leaf(tokens), Unary, One, BinaryOps, Two)
    BY <1>3 DEF token, Sets
  <2> QED
    BY ONLY <1>1, n = i + 1, <2>1, LeafDomain, Reads
<1>5. Null \notin BDD
  BY NullIsNoBDD
<1>6. /\ Top(d, Null) \in {Null} \cup BDD /\ Top(Beneath(d), Null) \in {Null} \cup BDD
      /\ Beneath(Beneath(d)) \in Seq({Null} \cup BDD) /\ Len(Beneath(Beneath(d))) <= Len(d)
      /\ d \in Seq(BDD) /\ Tiles(Shape, v, d, i) =>
           /\ Top(d, Null) = Null \/ Top(Beneath(d), Null) = Null => Shape[n] = 0
           /\ Top(d, Null) # Null /\ Top(Beneath(d), Null) # Null =>
                /\ Top(d, Null) = v[i] /\ Top(Beneath(d), Null) = v[Shape[i] - 1]
                /\ Beneath(Beneath(d)) \in Seq(BDD)
                /\ Shape[n] \in Nat \ {0} /\ Tiles(Shape, v, Beneath(Beneath(d)), Shape[n] - 1)
      /\ OnNull(d, Null) /\ Top(d, Null) # Null /\ Top(Beneath(d), Null) # Null =>
           OnNull(Beneath(Beneath(d)), Null)
  <2>1. Shape[0] = 0 /\ Joins(Shape, i, n)
    BY <1>4
  <2> QED
    BY ONLY <1>2, <1>5, <2>1, BinaryStack
<1>7. /\ Sound => d \in Seq(BDD) /\ Tiles(Shape, v, d, i)
      /\ Broken => ~IsFormula(tokens) /\ OnNull(d, Null)
  BY <1>3 DEF Sound, Broken, StackIs
<1>8. Operand1 = Null \/ Operand2 = Null => ~IsFormula(tokens)
  BY <1>1, <1>2, <1>4, <1>6, <1>7
<1>9. ASSUME Operand1 # Null, Operand2 # Null
      PROVE  /\ Apply(t, Operand1, Operand2) \in BDD
             /\ Broken => ~IsFormula(tokens) /\ OnNull(Beneath(Beneath(d)), Null)
             /\ Sound =>
                   /\ Beneath(Beneath(d)) \in Seq(BDD) /\ Shape[n] \in Nat \ {0}
                   /\ Tiles(Shape, v, Beneath(Beneath(d)), Shape[n] - 1)
                   /\ v[n] = Apply(t, Operand1, Operand2)
  <2>1. Operand1 \in BDD /\ Operand2 \in BDD
    BY <1>2, <1>6, <1>9
  <2>2. Apply(t, Operand1, Operand2) \in BDD
    BY <2>1, ApplyTyped
  <2>3. Broken => ~IsFormula(tokens) /\ OnNull(Beneath(Beneath(d)), Null)
    BY <1>2, <1>6, <1>7, <1>9
  <2>4. ASSUME Sound
        PROVE  /\ Beneath(Beneath(d)) \in Seq(BDD) /\ Shape[n] \in Nat \ {0}
               /\ Tiles(Shape, v, Beneath(Beneath(d)), Shape[n] - 1)
               /\ v[n] = Apply(t, Operand1, Operand2)
    <3>1. /\ Beneath(Beneath(d)) \in Seq(BDD) /\ Shape[n] \in Nat \ {0}
          /\ Tiles(Shape, v, Beneath(Beneath(d)), Shape[n] - 1)
          /\ v[i] = Operand1 /\ v[Shape[i] - 1] = Operand2
      BY <1>2, <1>6, <1>7, <1>9, <2>4
    <3>2. v[n] = Two[<<t, Operand2, Operand1>>]
      BY <1>4, <3>1
    <3> QED
      BY <2>1, <3>1, <3>2, OperatorsMean
  <2> QED
    BY <2>2, <2>3, <2>4
<1> QED
  BY <1>3, <1>6, <1>8, <1>9

LEMMA ReadBinaryMeaning == MeaningInv /\ ReadBinary => ReadInv'
<1> SUFFICES ASSUME MeaningInv, ReadBinary PROVE ReadInv'
  OBVIOUS
<1>1. /\ ParseInv /\ StackInv /\ NamesSeen /\ Reading /\ UNCHANGED seenVars
      /\ pc = "parse" /\ i < Len(tokens) /\ (Sound \/ Broken)
      /\ Operand1 # Null /\ Operand2 # Null
  BY DEF MeaningInv, IInv, ParseInv, ReadInv, ReadBinary, Reading
<1>2. PICK t : t = token
  OBVIOUS
<1>3. t \in BinaryOps /\ t \notin Mentions(tokens)
  BY <1>2 DEF ReadBinary, Mentions
<1>4. NamesSeen'
  BY <1>1, <1>2, <1>3, NamesSeenInv
<1>5. PICK d, n, c : StackIs(d) /\ n = i + 1 /\ c = Beneath(Beneath(d))
  BY DEF StackIs
<1>6. PICK node : node = Apply(t, Operand1, Operand2)
  OBVIOUS
<1>7. /\ c \in Seq({Null} \cup BDD) /\ node \in BDD
      /\ Broken => ~IsFormula(tokens) /\ OnNull(c, Null)
      /\ Sound => /\ c \in Seq(BDD) /\ Shape[n] \in Nat \ {0}
                  /\ Tiles(Shape, Sets, c, Shape[n] - 1) /\ Sets[n] = node
  BY <1>1, <1>2, <1>3, <1>5, <1>6, BinaryOperands
<1>8. ddStack_pop(ddStack_pop(stack)).stack = c
  BY <1>1, <1>5, Popping
<1>9. Push(ddStack_pop(ddStack_pop(stack)), node)
  BY <1>2, <1>6 DEF ReadBinary
<1>10. /\ stack'.stack = Append(c, node) /\ recentNode' = node /\ i' = i + 1
       /\ pc' = "parse" /\ UNCHANGED tokens /\ i \in Nat
  BY <1>1, <1>8, <1>9, Pushing
<1>11. Shape' = Shape /\ Sets' = Sets /\ ((IsFormula(tokens))' <=> IsFormula(tokens))
  BY <1>1, <1>10, Steady
<1>12. CASE Sound
  BY <1>4, <1>5, <1>7, <1>10, <1>11, <1>12, PushSound
<1>13. CASE Broken
  BY <1>4, <1>7, <1>10, <1>11, <1>13, NullIsNoBDD, PushOnNull
<1> QED
  BY <1>1, <1>12, <1>13

LEMMA ReadWithoutMeaning == MeaningInv /\ ReadBinaryWithout => ReadInv'
<1> SUFFICES ASSUME MeaningInv, ReadBinaryWithout PROVE ReadInv'
  OBVIOUS
<1>1. /\ pc = "parse" /\ i < Len(tokens) /\ pc' = "undefined" /\ UNCHANGED tokens
      /\ token \in BinaryOps /\ (Operand1 = Null \/ Operand2 = Null)
  BY DEF ReadBinaryWithout, Reading
<1>2. PICK d, n : StackIs(d) /\ n = i + 1
  BY DEF StackIs
<1>3. ~IsFormula(tokens)
  BY <1>1, <1>2, BinaryOperands
<1>4. ~(IsFormula(tokens))'
  BY <1>1, <1>3 DEF IsFormula
<1> QED
  BY <1>1, <1>4 DEF ReadInv

-----------------------------------------------------------------------------
\* A stack with one node holds the whole formula; any other stack holds none.
LEMMA WholeFormula ==
  ASSUME StackInv, i = Len(tokens), Sound
  PROVE  /\ Len(stack.stack) = 1 <=> IsFormula(tokens)
         /\ Len(stack.stack) = 1 => stack.stack[1] = Meaning(tokens)
<1>1. PICK d, v, n : StackIs(d) /\ v = Sets /\ n = i
  BY DEF StackIs
<1>2. d \in Seq(BDD) /\ Tiles(Shape, v, d, n)
  BY <1>1 DEF Sound, StackIs
<1>3. Shape[0] = 0
  <2>1. Len(tokens) \in Nat /\ Shape = Begins(tokens, Mentions(tokens), Unary, BinaryOps)
    BY Tokens DEF Shape
  <2>2. Shape[0] \in 0..0
    BY <2>1, BeginFacts
  <2> QED
    BY <2>2
<1>4. (Len(d) = 1 <=> Shape[n] = 1) /\ (Len(d) = 1 => d[1] = v[n])
  BY ONLY <1>2, <1>3, TilesOne
<1>5. (IsFormula(tokens) <=> Shape[n] = 1) /\ Meaning(tokens) = v[n]
  BY <1>1, LeafDomain DEF IsFormula, IsPostfix, Shape, Meaning, PostfixValue, Sets
<1> QED
  BY <1>1, <1>4, <1>5 DEF StackIs

LEMMA AtEndMeaning == MeaningInv /\ (Return \/ Malformed) => ReadInv'
<1> SUFFICES ASSUME MeaningInv, Return \/ Malformed PROVE ReadInv'
  OBVIOUS
<1>1. /\ pc = "parse" /\ i = Len(tokens)
      /\ UNCHANGED <<tokens, i, stack, recentNode, seenVars, numVars>>
      /\ StackInv /\ PushAlwaysFits /\ NamesSeen /\ TopIsRecent /\ (Sound \/ Broken)
  BY DEF MeaningInv, IInv, ParseInv, ReadInv, Return, Malformed, AtEnd
<1>2. Shape' = Shape /\ Sets' = Sets /\ ((IsFormula(tokens))' <=> IsFormula(tokens))
  BY <1>1, Steady
<1>3. CASE Return
  <2>1. pc' = "returned" /\ Len(stack.stack) = 1 /\ i > 0
    BY <1>1, <1>3 DEF Return, PushAlwaysFits, StackInv
  <2>2. NamesSeen' /\ TopIsRecent'
    BY <1>1 DEF NamesSeen, TopIsRecent, IsSeen
  <2>3. Sound => Sound'
    BY <1>1, <1>2 DEF Sound
  <2>4. Broken => Broken'
    BY <1>1, <1>2 DEF Broken, OnNull
  <2> QED
    BY <1>1, <2>1, <2>2, <2>3, <2>4 DEF ReadInv
<1>4. CASE Malformed
  <2>1. pc' = "exit3" /\ Len(stack.stack) # 1
    BY <1>4 DEF Malformed
  <2>2. ~IsFormula(tokens)
    BY <1>1, <2>1, WholeFormula DEF Broken
  <2> QED
    BY <1>2, <2>1, <2>2 DEF ReadInv
<1> QED
  BY <1>3, <1>4

LEMMA CallMeaning == Call => ReadInv'
<1> SUFFICES ASSUME Call PROVE ReadInv'
  OBVIOUS
<1>1. i' = 0 /\ pc' = "parse" /\ stack'.stack = <<>>
  BY DEF Call, CallFor, ddStack_init
<1>2. NamesSeen' /\ TopIsRecent'
  BY <1>1 DEF NamesSeen, TopIsRecent
<1>3. Tiles(Shape', Sets', <<>>, 0)
  BY TilesEmpty
<1>4. Sound'
  BY <1>1, <1>3 DEF Sound
<1> QED
  BY <1>1, <1>2, <1>4 DEF ReadInv

LEMMA MeaningInductive == MeaningInv /\ IInv' /\ [Next]_vars => ReadInv'
<1> SUFFICES ASSUME MeaningInv, IInv', [Next]_vars PROVE ReadInv'
  OBVIOUS
<1>1. ParseInv'
  BY DEF IInv
<1>2. CASE UNCHANGED vars
  <2>1. UNCHANGED <<tokens, i, stack, recentNode, seenVars, pc>>
    BY <1>2 DEF vars
  <2>2. Shape' = Shape /\ Sets' = Sets /\ ((IsFormula(tokens))' <=> IsFormula(tokens))
    BY <2>1, Steady
  <2>3. (NamesSeen => NamesSeen') /\ (TopIsRecent => TopIsRecent')
    BY <2>1 DEF NamesSeen, TopIsRecent, IsSeen
  <2>4. (Sound => Sound') /\ (Broken => Broken')
    BY <2>1, <2>2 DEF Sound, Broken, OnNull
  <2> QED
    BY <2>1, <2>2, <2>3, <2>4 DEF MeaningInv, ReadInv
<1>3. CASE Next
  BY <1>1, <1>3, CallMeaning, ReadBinaryMeaning, ReadWithoutMeaning, ReadNotMeaning,
     ReadSeenMeaning, ReadNewMeaning, AtEndMeaning DEF Next
<1> QED
  BY <1>2, <1>3

LEMMA MeaningInvariance == Spec => []MeaningInv
<1>1. Init => ReadInv
  BY DEF Init, ReadInv
<1>2. MeaningInv /\ IInv' /\ [Next]_vars => MeaningInv'
  BY MeaningInductive DEF MeaningInv
<1>3. IInv /\ ReadInv => MeaningInv
  BY DEF MeaningInv
<1> QED
  BY <1>1, <1>2, <1>3, InvInit, Invariance, PTL DEF Spec

\* The BDD that bddFromPrefix returns is that of the formula that the whole
\* token sequence is, whatever the earlier calls have put into seenVars.
THEOREM RootCorrect == Spec => []RootIsMeaning
<1>1. MeaningInv => RootIsMeaning
  <2> SUFFICES ASSUME MeaningInv, pc = "returned", recentNode # Null
               PROVE  IsFormula(tokens) /\ recentNode = Meaning(tokens)
    BY DEF RootIsMeaning
  <2>1. /\ StackInv /\ i = Len(tokens) /\ Len(stack.stack) = 1 /\ (Sound \/ Broken)
        /\ recentNode = stack.stack[1]
    BY DEF MeaningInv, IInv, ParseInv, ReadInv, TopIsRecent
  <2> QED
    BY <2>1, WholeFormula DEF Broken, OnNull
<1> QED
  BY MeaningInvariance, <1>1, PTL

\* No postfix formula is turned down: bddFromPrefix exits, passes NULL to CUDD
\* or returns NULL on sequences only that are none.
THEOREM RejectsCorrectly == Spec => []RejectsOnlyIllFormed
<1>1. MeaningInv => RejectsOnlyIllFormed
  <2> SUFFICES ASSUME MeaningInv, pc \in {"exit3", "undefined"} \/ (pc = "returned" /\ recentNode = Null)
               PROVE  ~IsFormula(tokens)
    BY DEF RejectsOnlyIllFormed
  <2>1. CASE pc \in {"exit3", "undefined"}
    BY <2>1 DEF MeaningInv, ReadInv
  <2>2. CASE pc = "returned" /\ recentNode = Null
    <3>1. Len(stack.stack) = 1 /\ (Sound \/ Broken) /\ recentNode = stack.stack[1]
      BY <2>2 DEF MeaningInv, ReadInv, TopIsRecent
    <3>2. ~Sound
      BY <2>2, <3>1, NullIsNoBDD DEF Sound
    <3> QED
      BY <3>1, <3>2 DEF Broken
  <2> QED
    BY <2>1, <2>2
<1> QED
  BY MeaningInvariance, <1>1, PTL

-----------------------------------------------------------------------------
\* The set-up of the model.

Names == {seenVars[k].name : k \in DOMAIN seenVars}

ModelNames == Mentions(forms["initial"]) \cup Mentions(forms["transition"])

\* The names that the formulas taken so far mention, and those among the
\* tokens of this call that have been read.
Taken ==
  CASE stage = "initial" -> {}
    [] stage = "transition" -> Mentions(forms["initial"])
    [] OTHER -> ModelNames

ReadNames == {tokens[k] : k \in 1..i} \ (BinaryOps \cup {OP_NOT})

\* A variable is in the array for a formula that mentions it.  Nothing is
\* parsed after the third formula.
NamesInv ==
  /\ forms \in [Building -> Formulas]
  /\ stage \in Building \cup {"split", "pair", "ready", "exit2", "abort", "undefined"}
  /\ stage \in Building /\ pc # "idle" => tokens = forms[stage]
  /\ stage \in Building /\ pc = "idle" => Names = Taken
  /\ stage \in Building /\ pc \in {"parse", "returned"} => Names = Taken \cup ReadNames
  /\ pc = "returned" => i = Len(tokens)
  /\ stage \notin Building => pc = "idle"
  /\ stage \in {"split", "pair", "ready", "exit2"} => Names = ModelNames
  /\ Names \subseteq ModelNames \cup Mentions(forms["expected"])

\* The expected states add no variable unless they lengthen the array.
OldNumInv ==
  stage = "expected" /\ pc \in {"parse", "returned"} =>
    /\ oldNum \in Nat /\ oldNum <= Len(seenVars)
    /\ oldNum = Len(seenVars) => Names = ModelNames

Parity == \A k \in DOMAIN seenVars : seenVars[k].parity = isPrimedToken(seenVars[k].name)

\* The entries of existingVars that the first loop has been through ...
Through == IF stage \in Building THEN 0
           ELSE IF stage = "split" THEN next - 1 ELSE Len(seenVars)

Unprimed == {k \in 1..Through : ~seenVars[k].parity}
Primed == {k \in 1..Through : seenVars[k].parity}

\* ... are in unprimedVars, in that order, or have been counted.
SplitInv ==
  stage \in Building \cup {"split", "pair", "ready"} =>
    /\ Through \in 0..Len(seenVars)
    /\ unprimed \in Seq(SeenVar)
    /\ \A j \in DOMAIN unprimed : \E k \in Unprimed : unprimed[j] = seenVars[k]
    /\ \A k \in Unprimed : \E j \in DOMAIN unprimed : unprimed[j] = seenVars[k]
    /\ \A j, k \in DOMAIN unprimed : unprimed[j] = unprimed[k] => j = k
    /\ numPrimed = Cardinality(Primed)

\* The second loop.
PairInv ==
  /\ next \in Nat
  /\ stage \in Building => next = 1
  /\ stage \in Building \cup {"split"} => paired = <<>>
  /\ stage \in {"pair", "ready"} =>
       /\ numPrimed = Len(unprimed)
       /\ next \in 1..(Len(unprimed) + 1)
       /\ paired \in Seq({Null} \cup BDD)
       /\ Len(paired) = next - 1
       /\ \A j \in DOMAIN paired : paired[j] # Null =>
            \E k \in DOMAIN seenVars : /\ seenVars[k].name = PrimedName(unprimed[j].name)
                                       /\ seenVars[k].node = paired[j]
  /\ stage = "ready" => next = Len(unprimed) + 1

SetupInv == ParseInv /\ NamesInv /\ OldNumInv /\ Parity /\ SplitInv /\ PairInv

-----------------------------------------------------------------------------
LEMMA Stages ==
  /\ Building = {"initial", "transition", "expected"}
  /\ "split" \notin Building /\ "pair" \notin Building /\ "ready" \notin Building
  /\ "exit2" \notin Building /\ "abort" \notin Building /\ "undefined" \notin Building
BY DEF Building

LEMMA SetupInvInit == SetupInit => SetupInv
<1> SUFFICES ASSUME SetupInit PROVE SetupInv
  OBVIOUS
<1>1. ParseInv
  BY InvInit DEF SetupInit, IInv
<1>2. seenVars = <<>> /\ pc = "idle" /\ stage = "initial" /\ stage \in Building
  BY Stages DEF SetupInit, Init
<1>3. Names = {}
  BY <1>2 DEF Names
<1>4. NamesInv
  BY <1>2, <1>3, Stages DEF NamesInv, Taken, SetupInit
<1>5. OldNumInv /\ Parity
  BY <1>2 DEF OldNumInv, Parity
<1>6. Through = 0 /\ Len(seenVars) = 0
  BY <1>2 DEF Through
<1>7. Primed = {} /\ Unprimed = {}
  BY <1>6 DEF Primed, Unprimed
<1>8. SplitInv
  BY <1>6, <1>7, FS_EmptySet DEF SplitInv, SetupInit
<1>9. PairInv
  BY <1>2, Stages DEF PairInv, SetupInit
<1> QED
  BY <1>1, <1>4, <1>5, <1>8, <1>9 DEF SetupInv

\* While a formula is parsed the loops of main have not begun.
LEMMA LoopsNotBegun ==
  ASSUME SplitInv, PairInv, stage \in Building, stage' \in Building \cup {"split"},
         UNCHANGED <<unprimed, numPrimed, paired, next>>,
         seenVars' \in Seq(SeenVar)
  PROVE  SplitInv' /\ PairInv'
<1>1. Through = 0 /\ Through' = 0 /\ Len(seenVars') \in Nat
  BY Stages DEF Through, PairInv
<1>2. /\ Primed = {} /\ Unprimed = {}
      /\ Primed' = {} /\ Unprimed' = {}
  BY <1>1 DEF Primed, Unprimed
<1>3. SplitInv'
  BY <1>1, <1>2 DEF SplitInv
<1>4. PairInv'
  BY Stages DEF PairInv
<1> QED
  BY <1>3, <1>4

LEMMA BuildInv == SetupInv /\ Build => SetupInv'
<1> SUFFICES ASSUME SetupInv, Build PROVE SetupInv'
  OBVIOUS
<1>1. /\ stage \in Building /\ pc = "idle" /\ CallFor(forms[stage]) /\ seenVars' = seenVars
      /\ pc' = "parse" /\ tokens' = forms[stage] /\ i' = 0
      /\ UNCHANGED <<forms, stage, roots, unprimed, numPrimed, paired, next>>
  BY DEF Build, CallFor
<1>2. forms[stage] \in Formulas /\ forms \in [Building -> Formulas]
  BY <1>1 DEF SetupInv, NamesInv
<1>3. ParseInv'
  BY <1>1, <1>2, CallForInv DEF SetupInv
<1>4. Names' = Names /\ ReadNames' = {} /\ Taken' = Taken /\ ModelNames' = ModelNames
  BY <1>1 DEF Names, ReadNames, Taken, ModelNames
<1>5. NamesInv'
  BY <1>1, <1>4, Stages DEF SetupInv, NamesInv
<1>6. OldNumInv'
  <2> SUFFICES ASSUME stage = "expected"
               PROVE  oldNum' \in Nat /\ oldNum' <= Len(seenVars) /\ Names = ModelNames
    BY <1>1, <1>4 DEF OldNumInv
  <2>1. oldNum' = Len(seenVars) /\ Len(seenVars) \in Nat
    BY DEF Build, SetupInv, ParseInv, VarInv
  <2>2. Names = ModelNames
    BY <1>1 DEF SetupInv, NamesInv, Taken
  <2> QED
    BY <2>1, <2>2
<1>7. Parity'
  BY <1>1 DEF Parity, SetupInv
<1>8. SplitInv' /\ PairInv'
  BY <1>1, LoopsNotBegun DEF SetupInv, ParseInv, VarInv
<1> QED
  BY <1>3, <1>5, <1>6, <1>7, <1>8 DEF SetupInv

\* What the two loops have so far looked at does not depend on what is parsed.
LEMMA ReadingNames ==
  ASSUME StackInv, Reading
  PROVE  /\ ReadNames' = ReadNames \cup ({token} \ (BinaryOps \cup {OP_NOT}))
         /\ token \in {tokens[k] : k \in DOMAIN tokens}
<1>1. /\ i' = i + 1 /\ tokens' = tokens /\ i \in Nat /\ i+1 \in DOMAIN tokens
      /\ 1..(i+1) = 1..i \cup {i+1}
  BY DEF Reading, StackInv
<1> QED
  BY <1>1 DEF ReadNames, token

LEMMA ParseStepInv == SetupInv /\ Parse => SetupInv'
<1> SUFFICES ASSUME SetupInv, Parse PROVE SetupInv'
  OBVIOUS
<1>0. /\ ParseInv /\ StackInv /\ NamesInv /\ OldNumInv /\ Parity /\ SplitInv /\ PairInv
      /\ Len(tokens) \in Nat /\ i \in 0..Len(tokens)
      /\ seenVars \in Seq(SeenVar) /\ Len(seenVars) \in Nat
  BY DEF SetupInv, ParseInv, StackInv, VarInv
<1>1. /\ UNCHANGED mainVars /\ tokens' = tokens
      /\ UNCHANGED <<Taken, ModelNames>>
      /\ pc = "parse" /\ stage \in Building /\ tokens = forms[stage]
  BY <1>0 DEF Parse, mainVars, Taken, ModelNames, ReadBinary, ReadBinaryWithout, ReadNot,
     ReadSeen, ReadNew, Reading, Return, Malformed, AtEnd, NamesInv
<1>2. ParseInv' /\ seenVars' \in Seq(SeenVar)
  BY <1>0, StepInv DEF Parse, ParseInv, VarInv
<1>3. SplitInv' /\ PairInv'
  BY <1>0, <1>1, <1>2, LoopsNotBegun DEF mainVars
<1>4. forms \in [Building -> Formulas] /\ Names = Taken \cup ReadNames
  BY <1>0, <1>1 DEF NamesInv
<1>5. Taken \cup Mentions(tokens) \subseteq ModelNames \cup Mentions(forms["expected"])
  BY <1>1, Stages DEF Taken, ModelNames
<1>6. CASE ReadNew
  <2> DEFINE v == [name |-> token, node |-> Node(numVars'), parity |-> isPrimedToken(token)]
  <2>1. /\ Reading /\ pc' = pc /\ seenVars' = Append(seenVars, v)
        /\ token \notin BinaryOps \cup {OP_NOT}
    BY <1>6 DEF ReadNew, Push
  <2>2. v.name = token /\ v.parity = isPrimedToken(token)
    OBVIOUS
  <2> HIDE DEF v
  <2>3. /\ Len(seenVars') = Len(seenVars) + 1
        /\ DOMAIN seenVars' = DOMAIN seenVars \cup {Len(seenVars) + 1}
        /\ \A k \in DOMAIN seenVars : seenVars'[k] = seenVars[k]
        /\ seenVars'[Len(seenVars) + 1] = v
    BY <1>0, <1>2, <2>1
  <2>4. Names' = Names \cup {token}
    BY <2>2, <2>3 DEF Names
  <2>5. Parity'
    BY <1>0, <2>2, <2>3 DEF Parity
  <2>6. Names' = Taken \cup ReadNames' /\ token \in Mentions(tokens)
    BY <1>0, <1>4, <2>1, <2>4, ReadingNames DEF Mentions
  <2>7. Names' \subseteq ModelNames \cup Mentions(forms["expected"])
    BY <1>0, <1>5, <2>4, <2>6 DEF NamesInv
  <2>9. NamesInv'
    BY <1>0, <1>1, <2>1, <2>6, <2>7, Stages DEF NamesInv, mainVars
  <2>8. OldNumInv'
    BY <1>0, <1>1, <2>3 DEF OldNumInv, mainVars
  <2> QED
    BY <1>2, <1>3, <2>5, <2>8, <2>9 DEF SetupInv
<1>7. CASE ~ReadNew
  <2>1. seenVars' = seenVars /\ Names' = Names
    BY <1>7 DEF Parse, ReadBinary, ReadBinaryWithout, ReadNot, ReadSeen, Return, Malformed,
       AtEnd, Names
  <2>2. Parity' /\ OldNumInv'
    BY <1>0, <1>1, <2>1 DEF Parity, OldNumInv, mainVars
  <2>3. CASE Reading
    <3>1. token \in BinaryOps \cup {OP_NOT} \/ token \in Names
      BY <1>7, <2>3 DEF Parse, ReadBinary, ReadBinaryWithout, ReadNot, ReadSeen, Reading,
         Return, Malformed, AtEnd, IsSeen, Names
    <3>2. Names' = Taken \cup ReadNames'
      BY <1>0, <1>4, <2>1, <2>3, <3>1, ReadingNames
    <3>3. pc' \in {"parse", "undefined"}
      BY <1>1, <1>7, <2>3 DEF Parse, ReadBinary, ReadBinaryWithout, ReadNot, ReadSeen, Reading,
         Return, Malformed, AtEnd, Push
    <3> QED
      BY <1>0, <1>1, <1>2, <1>3, <2>1, <2>2, <3>2, <3>3 DEF SetupInv, NamesInv, mainVars
  <2>4. CASE AtEnd
    <3>1. ReadNames' = ReadNames
      BY <2>4 DEF AtEnd, ReadNames
    <3>2. pc' \in {"returned", "exit3"} /\ i' = i /\ i = Len(tokens)
      BY <1>7, <2>4 DEF Parse, ReadBinary, ReadBinaryWithout, ReadNot, ReadSeen, Reading,
         Return, Malformed, AtEnd
    <3> QED
      BY <1>0, <1>1, <1>2, <1>3, <1>4, <2>1, <2>2, <3>1, <3>2 DEF SetupInv, NamesInv, mainVars
  <2> QED
    BY <1>7, <2>3, <2>4 DEF Parse, ReadBinary, ReadBinaryWithout, ReadNot, ReadSeen, Return,
       Malformed
<1> QED
  BY <1>6, <1>7

\* The whole of the formula has been read when the parser returns.
LEMMA AllRead ==
  ASSUME SetupInv, stage \in Building, pc = "returned"
  PROVE  Names = Taken \cup Mentions(forms[stage])
<1>1. tokens = forms[stage] /\ i = Len(tokens) /\ tokens \in Seq(Token)
  BY DEF SetupInv, NamesInv, ParseInv, StackInv
<1>2. ReadNames = Mentions(forms[stage])
  BY <1>1 DEF ReadNames, Mentions
<1> QED
  BY <1>2 DEF SetupInv, NamesInv

LEMMA TakeInv ==
  SetupInv /\ (TakeInitial \/ TakeTransition \/ TakeExpected) => SetupInv'
<1> SUFFICES ASSUME SetupInv, TakeInitial \/ TakeTransition \/ TakeExpected PROVE SetupInv'
  OBVIOUS
<1>0. /\ ParseInv /\ NamesInv /\ OldNumInv /\ Parity /\ SplitInv /\ PairInv
      /\ seenVars \in Seq(SeenVar)
  BY DEF SetupInv, ParseInv, VarInv
<1>1. /\ stage \in Building /\ stage' \in Building \cup {"split"}
      /\ pc = "returned" /\ pc' = "idle"
      /\ UNCHANGED <<tokens, i, stack, recentNode, seenVars, numVars, calls>>
      /\ UNCHANGED <<forms, oldNum, unprimed, numPrimed, paired, next>>
  BY Stages DEF TakeInitial, TakeTransition, TakeExpected, Took
<1>2. ParseInv'
  BY <1>0, <1>1 DEF ParseInv, StackInv, PushAlwaysFits, VarInv, OneNodePerName
<1>3. SplitInv' /\ PairInv'
  BY <1>0, <1>1, LoopsNotBegun
<1>4. Parity' /\ OldNumInv' /\ Names' = Names /\ ModelNames' = ModelNames
  BY <1>0, <1>1 DEF Parity, OldNumInv, Names, ModelNames
<1>5. Names = Taken \cup Mentions(forms[stage])
  BY <1>1, AllRead
<1>6. (stage' \in Building => Names = Taken') /\ (stage' = "split" => Names = ModelNames)
  <2>1. CASE TakeInitial
    BY <1>1, <1>5, <2>1 DEF TakeInitial, Took, Taken
  <2>2. CASE TakeTransition
    BY <1>1, <1>5, <2>2 DEF TakeTransition, Took, Taken, ModelNames
  <2>3. CASE TakeExpected
    BY <1>0, <1>1, <2>3, Stages DEF TakeExpected, Took, OldNumInv
  <2> QED
    BY <2>1, <2>2, <2>3
<1>7. NamesInv'
  BY <1>0, <1>1, <1>4, <1>6, Stages DEF NamesInv
<1> QED
  BY <1>2, <1>3, <1>4, <1>7 DEF SetupInv

\* How main ends early.  The loops of main leave the parser's state alone.
LEMMA EndInv ==
  SetupInv /\ (ExpectedAddsVariables \/ TakeNull \/ SplitUneven) => SetupInv'
<1> SUFFICES ASSUME SetupInv, ExpectedAddsVariables \/ TakeNull \/ SplitUneven
             PROVE  SetupInv'
  OBVIOUS
<1>1. /\ stage' \in {"abort", "undefined", "exit2"} /\ pc' = "idle"
      /\ stage' = "exit2" => stage = "split"
      /\ UNCHANGED <<tokens, i, stack, recentNode, seenVars, numVars>>
      /\ UNCHANGED <<forms, oldNum, unprimed, numPrimed, paired, next>>
  BY Stages DEF ExpectedAddsVariables, TakeNull, SplitUneven, Took, vars, SetupInv, NamesInv
<1>2. ParseInv'
  BY <1>1 DEF SetupInv, ParseInv, StackInv, PushAlwaysFits, VarInv, OneNodePerName
<1>3. NamesInv'
  <2>1. Names' = Names /\ ModelNames' = ModelNames
    BY <1>1 DEF Names, ModelNames
  <2> QED
    BY <1>1, <2>1, Stages DEF SetupInv, NamesInv
<1>4. OldNumInv' /\ Parity'
  BY <1>1, Stages DEF SetupInv, OldNumInv, Parity
<1>5. SplitInv' /\ PairInv'
  BY <1>1, Stages DEF SetupInv, SplitInv, PairInv
<1> QED
  BY <1>2, <1>3, <1>4, <1>5 DEF SetupInv

LEMMA LoopsSteady ==
  ASSUME ParseInv, NamesInv, OldNumInv, Parity,
         stage \in {"split", "pair"}, stage' \in {"split", "pair", "ready"},
         UNCHANGED vars, UNCHANGED <<forms, oldNum>>
  PROVE  ParseInv' /\ NamesInv' /\ OldNumInv' /\ Parity'
<1>1. ParseInv'
  BY StutterInv
<1>2. Names' = Names /\ ModelNames' = ModelNames
  BY DEF Names, ModelNames, vars
<1>3. NamesInv'
  BY <1>2, Stages DEF NamesInv, vars
<1>4. OldNumInv' /\ Parity'
  BY Stages DEF OldNumInv, Parity, vars
<1> QED
  BY <1>1, <1>3, <1>4

LEMMA SplitStepInv == SetupInv /\ Split => SetupInv'
<1> SUFFICES ASSUME SetupInv, Split PROVE SetupInv'
  OBVIOUS
<1> DEFINE v == seenVars[next]
<1>0. /\ ParseInv /\ NamesInv /\ OldNumInv /\ Parity /\ SplitInv /\ PairInv /\ OneNodePerName
      /\ seenVars \in Seq(SeenVar) /\ Len(seenVars) \in Nat
  BY DEF SetupInv, ParseInv, VarInv
<1>1. /\ stage = "split" /\ stage' = stage /\ next' = next + 1
      /\ unprimed' = IF v.parity THEN unprimed ELSE Append(unprimed, v)
      /\ numPrimed' = IF v.parity THEN numPrimed + 1 ELSE numPrimed
      /\ paired' = paired /\ seenVars' = seenVars
      /\ UNCHANGED vars /\ UNCHANGED <<forms, oldNum>>
      /\ stage \notin Building
  BY Stages DEF Split, vars
<1>2. ParseInv' /\ NamesInv' /\ OldNumInv' /\ Parity'
  BY <1>0, <1>1, LoopsSteady
<1>3. PairInv'
  BY <1>0, <1>1 DEF PairInv
<1>4. /\ Through = next - 1 /\ Through' = next /\ next \in Nat \ {0}
      /\ next \in 1..Len(seenVars) /\ 1..next = 1..(next-1) \cup {next}
      /\ DOMAIN seenVars = 1..Len(seenVars)
  BY <1>0, <1>1, Stages DEF Through, Split, SplitInv, PairInv
<1>5. unprimed \in Seq(SeenVar) /\ v \in SeenVar
  BY <1>0, <1>1, <1>4 DEF SplitInv
<1>6. /\ Unprimed = {k \in 1..(next-1) : ~seenVars[k].parity}
      /\ Unprimed' = {k \in 1..next : ~seenVars[k].parity}
      /\ Primed = {k \in 1..(next-1) : seenVars[k].parity}
      /\ Primed' = {k \in 1..next : seenVars[k].parity}
  BY <1>1, <1>4 DEF Unprimed, Primed
<1>7. /\ \A j \in DOMAIN unprimed : \E k \in Unprimed : unprimed[j] = seenVars[k]
      /\ \A k \in Unprimed : \E j \in DOMAIN unprimed : unprimed[j] = seenVars[k]
      /\ \A j, k \in DOMAIN unprimed : unprimed[j] = unprimed[k] => j = k
      /\ numPrimed = Cardinality(Primed)
  BY <1>0, <1>1 DEF SplitInv
<1>8. CASE v.parity
  <2>1. unprimed' = unprimed /\ Unprimed' = Unprimed /\ Primed' = Primed \cup {next} /\ next \notin Primed
    BY <1>1, <1>4, <1>6, <1>8
  <2>2. IsFiniteSet(Primed)
    BY <1>4, <1>6, FS_Interval, FS_Subset
  <2>3. numPrimed' = Cardinality(Primed')
    BY <1>1, <1>7, <1>8, <2>1, <2>2, FS_AddElement
  <2>4. Through' \in 0..Len(seenVars')
    BY <1>0, <1>1, <1>4
  <2>5. SplitInv'
    BY <1>1, <1>5, <1>7, <2>1, <2>3, <2>4 DEF SplitInv
  <2> QED
    BY <1>2, <1>3, <2>5 DEF SetupInv
<1>9. CASE ~v.parity
  <2>1. /\ Primed' = Primed /\ numPrimed' = numPrimed
        /\ Unprimed' = Unprimed \cup {next} /\ next \notin Unprimed
    BY <1>1, <1>4, <1>6, <1>9
  <2>2. /\ unprimed' \in Seq(SeenVar) /\ Len(unprimed) \in Nat
        /\ DOMAIN unprimed' = DOMAIN unprimed \cup {Len(unprimed) + 1}
        /\ \A j \in DOMAIN unprimed : unprimed'[j] = unprimed[j]
        /\ unprimed'[Len(unprimed) + 1] = v
    BY <1>1, <1>5, <1>9
  <2>3. \A k \in Unprimed : seenVars[k] # v
    BY <1>0, <1>4, <1>6 DEF OneNodePerName
  <2>4. \A j \in DOMAIN unprimed' : \E k \in Unprimed' : unprimed'[j] = seenVars'[k]
    BY <1>1, <1>7, <2>1, <2>2
  <2>5. \A k \in Unprimed' : \E j \in DOMAIN unprimed' : unprimed'[j] = seenVars'[k]
    BY <1>1, <1>7, <2>1, <2>2
  <2>6. \A j \in DOMAIN unprimed : unprimed'[j] # v
    BY <1>7, <2>2, <2>3
  <2>7. \A j, k \in DOMAIN unprimed' : unprimed'[j] = unprimed'[k] => j = k
    BY <1>7, <2>2, <2>6
  <2>8. Through' \in 0..Len(seenVars')
    BY <1>0, <1>1, <1>4
  <2>9. SplitInv'
    BY <1>1, <1>7, <2>1, <2>2, <2>4, <2>5, <2>7, <2>8 DEF SplitInv
  <2> QED
    BY <1>2, <1>3, <2>9 DEF SetupInv
<1> QED
  BY <1>8, <1>9

LEMMA SplitDoneInv == SetupInv /\ SplitDone => SetupInv'
<1> SUFFICES ASSUME SetupInv, SplitDone PROVE SetupInv'
  OBVIOUS
<1>0. /\ ParseInv /\ NamesInv /\ OldNumInv /\ Parity /\ SplitInv /\ PairInv
      /\ seenVars \in Seq(SeenVar) /\ Len(seenVars) \in Nat /\ next \in Nat
  BY DEF SetupInv, ParseInv, VarInv, PairInv
<1>1. /\ stage = "split" /\ stage' = "pair" /\ next' = 1 /\ next > Len(seenVars)
      /\ numPrimed = Len(unprimed)
      /\ UNCHANGED <<forms, roots, oldNum, unprimed, numPrimed, paired>>
      /\ UNCHANGED vars /\ seenVars' = seenVars
  BY DEF SplitDone, vars
<1>2. ParseInv' /\ NamesInv' /\ OldNumInv' /\ Parity'
  BY <1>0, <1>1, LoopsSteady
<1>3. Through' = Through /\ unprimed \in Seq(SeenVar)
  BY <1>0, <1>1, Stages DEF Through, SplitInv
<1>4. Primed' = Primed /\ Unprimed' = Unprimed
  BY <1>1, <1>3 DEF Primed, Unprimed
<1>5. SplitInv'
  BY <1>0, <1>1, <1>3, <1>4 DEF SplitInv
<1>6. paired = <<>> /\ Len(unprimed) \in Nat
  BY <1>0, <1>1, <1>3 DEF PairInv
<1>7. PairInv'
  BY <1>0, <1>1, <1>6, Stages DEF PairInv
<1> QED
  BY <1>2, <1>5, <1>7 DEF SetupInv

LEMMA PairStepInv == SetupInv /\ (Pair \/ PairDone) => SetupInv'
<1> SUFFICES ASSUME SetupInv, Pair \/ PairDone PROVE SetupInv'
  OBVIOUS
<1>0. /\ ParseInv /\ NamesInv /\ OldNumInv /\ Parity /\ SplitInv /\ PairInv
      /\ VarInv /\ OneNodePerName
      /\ seenVars \in Seq(SeenVar) /\ Len(seenVars) \in Nat /\ next \in Nat
  BY DEF SetupInv, ParseInv, VarInv, PairInv
<1>1. /\ stage = "pair" /\ stage' \in {"pair", "ready"}
      /\ UNCHANGED <<forms, oldNum, unprimed, numPrimed>>
      /\ UNCHANGED vars /\ seenVars' = seenVars
  BY DEF Pair, PairDone, vars
<1>2. ParseInv' /\ NamesInv' /\ OldNumInv' /\ Parity'
  BY <1>0, <1>1, LoopsSteady
<1>3. Through' = Through /\ unprimed \in Seq(SeenVar)
  BY <1>0, <1>1, Stages DEF Through, SplitInv
<1>4. Primed' = Primed /\ Unprimed' = Unprimed
  BY <1>1, <1>3 DEF Primed, Unprimed
<1>5. SplitInv'
  BY <1>0, <1>1, <1>3, <1>4 DEF SplitInv
<1>6. /\ numPrimed = Len(unprimed) /\ next \in 1..(Len(unprimed) + 1)
      /\ paired \in Seq({Null} \cup BDD) /\ Len(paired) = next - 1 /\ Len(unprimed) \in Nat
      /\ \A j \in DOMAIN paired : paired[j] # Null =>
            \E k \in DOMAIN seenVars : /\ seenVars[k].name = PrimedName(unprimed[j].name)
                                       /\ seenVars[k].node = paired[j]
  BY <1>0, <1>1, <1>3 DEF PairInv
<1>7. PairInv'
  <2>1. CASE Pair
    <3> DEFINE t == PrimedName(unprimed[next].name)
               node == IF IsSeen(t) THEN SeenNode(t) ELSE Null
    <3>1. stage' = "pair" /\ next <= Len(unprimed) /\ next' = next + 1 /\ paired' = Append(paired, node)
      BY <1>1, <2>1 DEF Pair
    <3>2. node \in {Null} \cup BDD
      BY <1>0, SeenIsThere
    <3>3. node # Null => \E k \in DOMAIN seenVars : seenVars[k].name = t /\ seenVars[k].node = node
      BY <1>0, SeenIsThere
    <3> HIDE DEF node
    <3>4. /\ paired' \in Seq({Null} \cup BDD) /\ Len(paired') = next
          /\ DOMAIN paired' = DOMAIN paired \cup {next} /\ paired'[next] = node
          /\ \A j \in DOMAIN paired : paired'[j] = paired[j]
      BY <1>6, <3>1, <3>2
    <3>5. \A j \in DOMAIN paired' : paired'[j] # Null =>
            \E k \in DOMAIN seenVars : /\ seenVars[k].name = PrimedName(unprimed[j].name)
                                       /\ seenVars[k].node = paired'[j]
      BY <1>6, <3>3, <3>4
    <3>6. next' \in Nat /\ next' \in 1..(Len(unprimed) + 1) /\ Len(paired') = next' - 1
      BY <1>6, <3>1, <3>4
    <3> QED
      BY <1>1, <1>6, <3>1, <3>4, <3>5, <3>6, Stages DEF PairInv
  <2>2. CASE PairDone
    <3>1. next' = next /\ paired' = paired /\ stage' = "ready" /\ next = Len(unprimed) + 1
      BY <1>6, <2>2 DEF PairDone
    <3> QED
      BY <1>0, <1>1, <1>6, <3>1, Stages DEF PairInv
  <2> QED
    BY <2>1, <2>2
<1> QED
  BY <1>2, <1>5, <1>7 DEF SetupInv

LEMMA SetupStutterInv == SetupInv /\ UNCHANGED setupVars => SetupInv'
<1> SUFFICES ASSUME SetupInv, UNCHANGED setupVars PROVE SetupInv'
  OBVIOUS
<1>1. ParseInv' /\ UNCHANGED vars /\ UNCHANGED mainVars
  BY StutterInv DEF SetupInv, setupVars
<1>2. UNCHANGED <<Names, ModelNames, Taken, ReadNames, Through, Primed, Unprimed>>
  BY <1>1 DEF vars, mainVars, Names, ModelNames, Taken, ReadNames, Through, Primed, Unprimed
<1>3. NamesInv' /\ OldNumInv'
  BY <1>1, <1>2 DEF SetupInv, NamesInv, OldNumInv, vars, mainVars
<1>4. Parity' /\ SplitInv' /\ PairInv'
  BY <1>1, <1>2 DEF SetupInv, Parity, SplitInv, PairInv, vars, mainVars
<1> QED
  BY <1>1, <1>3, <1>4 DEF SetupInv

LEMMA SetupInvariance == SetupSpec => []SetupInv
<1>1. SetupInv /\ [SetupNext]_setupVars => SetupInv'
  BY BuildInv, ParseStepInv, TakeInv, EndInv, SplitStepInv, SplitDoneInv, PairStepInv,
     SetupStutterInv DEF SetupNext
<1> QED
  BY SetupInvInit, <1>1, PTL DEF SetupSpec

-----------------------------------------------------------------------------
\* Different entries of the array have different nodes.
LEMMA NodesDiffer ==
  ASSUME ParseInv, NEW j \in DOMAIN seenVars, NEW k \in DOMAIN seenVars,
         seenVars[j].node = seenVars[k].node
  PROVE  j = k
<1>1. numVars <= Cardinality(Var) /\ numVars \in Nat /\ DOMAIN seenVars = 1..numVars
  BY EnoughVariables DEF ParseInv, VarInv, OneNodePerName
<1>2. j \in Var /\ k \in Var
  BY <1>1, Manager
<1>3. Node(j) = Node(k)
  BY DEF ParseInv, OneNodePerName
<1>4. {j} \in Node(j)
  BY <1>2 DEF Node, Space
<1> QED
  BY <1>3, <1>4 DEF Node

\* Adding a prime to a name gives a primed name, and different ones to
\* different names.
LEMMA PrimingNames ==
  ASSUME NEW s \in Token, NEW t \in Token
  PROVE  /\ isPrimedToken(PrimedName(s))
         /\ PrimedName(s) = PrimedName(t) => s = t
BY DEF Token, PrimedName, isPrimedToken

\* The pairs of main.c are a bijection between the unprimed and the primed
\* variables.  Each of the n unprimed variables has a counterpart of its own,
\* there are n primed variables, so that every primed one is a counterpart:
\* comparing the two counts is enough when no entry stays NULL.
LEMMA PairsAreBijective ==
  ASSUME SetupInv, stage = "ready", \A j \in DOMAIN paired : paired[j] # Null
  PROVE  /\ Len(paired) = Len(unprimed)
         /\ \A j \in DOMAIN unprimed : \E k \in DOMAIN seenVars :
              /\ seenVars[k].name = PrimedName(unprimed[j].name)
              /\ seenVars[k].node = paired[j]
         /\ \A k \in DOMAIN seenVars : \E j \in DOMAIN paired :
              seenVars[k].node \in {unprimed[j].node, paired[j]}
         /\ \A j, k \in DOMAIN paired :
              /\ unprimed[j].node # paired[k]
              /\ j # k => unprimed[j].node # unprimed[k].node /\ paired[j] # paired[k]
<1> DEFINE n == Len(unprimed)
           I == DOMAIN seenVars
           Counterpart(j, k) == /\ seenVars[k].name = PrimedName(unprimed[j].name)
                                /\ seenVars[k].node = paired[j]
           f == [j \in 1..n |-> CHOOSE k \in I : Counterpart(j, k)]
<1>0. /\ ParseInv /\ Parity /\ SplitInv /\ PairInv /\ VarInv /\ OneNodePerName
      /\ seenVars \in Seq(SeenVar) /\ I = 1..Len(seenVars) /\ Len(seenVars) \in Nat
  BY DEF SetupInv, ParseInv, VarInv
<1>1. Through = Len(seenVars) /\ unprimed \in Seq(SeenVar) /\ n \in Nat /\ DOMAIN unprimed = 1..n
  BY <1>0, Stages DEF Through, SplitInv
<1>2. DOMAIN paired = 1..n /\ Len(paired) = n /\ numPrimed = n
  BY <1>0, <1>1 DEF PairInv
<1>3. \A j \in 1..n : \E k \in I : Counterpart(j, k)
  BY <1>0, <1>2 DEF PairInv
<1>4. \A k \in I : seenVars[k].name \in Token
  <2>1. \A v \in SeenVar : v.name \in Token
    BY DEF SeenVar, Token
  <2>2. \A k \in I : seenVars[k] \in SeenVar
    BY <1>0
  <2> QED
    BY <2>1, <2>2
<1>5. /\ Unprimed = {k \in I : ~seenVars[k].parity}
      /\ Primed = {k \in I : seenVars[k].parity}
  BY <1>0, <1>1 DEF Unprimed, Primed
<1>6. /\ \A j \in 1..n : \E k \in Unprimed : unprimed[j] = seenVars[k]
      /\ \A k \in Unprimed : \E j \in 1..n : unprimed[j] = seenVars[k]
      /\ \A j, k \in 1..n : unprimed[j] = unprimed[k] => j = k
      /\ Cardinality(Primed) = n
  BY <1>0, <1>1, <1>2, Stages DEF SplitInv
<1>7. \A j \in 1..n : unprimed[j].name \in Token
  BY <1>4, <1>5, <1>6
<1>8. ASSUME NEW j \in 1..n, NEW k \in I, Counterpart(j, k) PROVE k \in Primed
  BY <1>0, <1>5, <1>7, <1>8, PrimingNames DEF Parity
<1>9. ASSUME NEW j \in 1..n, NEW m \in 1..n, NEW k \in I, Counterpart(j, k), Counterpart(m, k)
      PROVE  j = m
  <2>1. unprimed[j].name = unprimed[m].name
    BY <1>7, <1>9, PrimingNames
  <2>2. PICK a, b \in Unprimed : unprimed[j] = seenVars[a] /\ unprimed[m] = seenVars[b]
    BY <1>6
  <2>3. a = b
    BY <1>0, <1>5, <2>1, <2>2 DEF OneNodePerName
  <2> QED
    BY <1>6, <2>2, <2>3
<1>10. ASSUME NEW j \in 1..n PROVE f[j] \in I /\ Counterpart(j, f[j])
  <2>1. f[j] = CHOOSE k \in I : Counterpart(j, k)
    OBVIOUS
  <2> HIDE DEF Counterpart
  <2> QED
    BY <1>3, <2>1
<1> HIDE DEF f
<1>11. f \in Injection(1..n, Primed)
  <2>1. f \in [1..n -> Primed]
    <3>1. \A j \in 1..n : f[j] \in Primed
      BY <1>8, <1>10
    <3> QED
      BY <3>1 DEF f
  <2>2. \A j, m \in 1..n : f[j] = f[m] => j = m
    BY <1>9, <1>10
  <2> QED
    BY <2>1, <2>2 DEF Injection, IsInjective
<1>12. f \in Surjection(1..n, Primed)
  <2>1. IsFiniteSet(Primed)
    <3>1. IsFiniteSet(1..Len(seenVars))
      BY <1>0, UpTo
    <3>2. Primed \subseteq 1..Len(seenVars)
      BY <1>0, <1>5
    <3> QED
      BY <3>1, <3>2, FS_Subset
  <2>2. Cardinality(1..n) = Cardinality(Primed)
    <3> HIDE DEF n
    <3> QED
      BY <1>1, <1>6, UpTo
  <2> QED
    BY <1>11, <2>1, <2>2, FS_Injection
<1>13. ASSUME NEW k \in I PROVE \E j \in 1..n : seenVars[k].node \in {unprimed[j].node, paired[j]}
  <2>1. CASE k \in Primed
    <3>1. PICK j \in 1..n : f[j] = k
      BY <1>12, <2>1 DEF Surjection
    <3> QED
      BY <1>10, <3>1
  <2>2. CASE k \in Unprimed
    BY <1>6, <2>2
  <2> QED
    BY <1>5, <2>1, <2>2
<1>14. ASSUME NEW j \in 1..n, NEW k \in 1..n
       PROVE  /\ unprimed[j].node # paired[k]
              /\ j # k => unprimed[j].node # unprimed[k].node /\ paired[j] # paired[k]
  <2>1. PICK a, b \in Unprimed : unprimed[j] = seenVars[a] /\ unprimed[k] = seenVars[b]
    BY <1>6
  <2>2. /\ a \in I /\ b \in I /\ f[j] \in I /\ f[k] \in I /\ a # f[k]
        /\ seenVars[f[j]].node = paired[j] /\ seenVars[f[k]].node = paired[k]
    BY <1>5, <1>8, <1>10, <2>1
  <2>3. unprimed[j].node # paired[k]
    BY <1>0, <2>1, <2>2, NodesDiffer
  <2>4. ASSUME j # k PROVE unprimed[j].node # unprimed[k].node
    BY <1>0, <1>6, <2>1, <2>2, <2>4, NodesDiffer
  <2>5. ASSUME j # k PROVE paired[j] # paired[k]
    BY <1>0, <1>9, <1>10, <2>2, <2>5, NodesDiffer
  <2> QED
    BY <2>3, <2>4, <2>5
<1> QED
  BY <1>1, <1>2, <1>3, <1>13, <1>14

\* The variables of the model are paired one to one, whatever the formulas,
\* when no counterpart is missing.
THEOREM Paired == SetupSpec => []PairingIsOneToOne
<1>1. SetupInv => PairingIsOneToOne
  BY PairsAreBijective DEF PairingIsOneToOne
<1> QED
  BY SetupInvariance, <1>1, PTL

\* The model that leaves the set-up has the variables of its own formulas.
THEOREM OnlyModelVars == SetupSpec => []ModelVarsOnly
<1>1. SetupInv => ModelVarsOnly
  BY DEF SetupInv, NamesInv, Names, ModelNames, ModelVarsOnly
<1> QED
  BY SetupInvariance, <1>1, PTL

\* numUniqVars counts at least the names of a formula without operators of CTL.
LEMMA NamesCounted ==
  ASSUME NEW f \in Formulas, \A t \in Mentions(f) : ~isOperator(t)
  PROVE  /\ IsFiniteSet(Mentions(f)) /\ numUniqVars(f) \in Nat
         /\ Cardinality(Mentions(f)) <= numUniqVars(f)
<1> DEFINE all == {f[j] : j \in DOMAIN f}
           counted == {t \in all : ~isOperator(t)}
<1>1. f \in Seq(Token) /\ DOMAIN f = 1..Len(f) /\ Len(f) \in Nat
  BY Tokenised DEF Token
<1>2. f \in Surjection(1..Len(f), all)
  BY <1>1 DEF Surjection
<1>3. IsFiniteSet(all)
  BY <1>1, <1>2, FS_Interval, FS_Surjection
<1>4. IsFiniteSet(counted) /\ Mentions(f) \subseteq counted
  BY <1>3, FS_Subset DEF Mentions
<1>5. Cardinality(counted) = numUniqVars(f)
  BY DEF numUniqVars
<1> HIDE DEF counted
<1> QED
  BY <1>4, <1>5, FS_Subset, FS_CardinalityType

\* The array main allocates is large enough for formulas of variables and
\* Boolean operators.
LEMMA CapacityIsEnough == SetupInv => CapacitySuffices
<1> SUFFICES ASSUME SetupInv,
                    \A b \in Building : \A t \in Mentions(forms[b]) : ~isOperator(t),
                    Mentions(forms["expected"]) \subseteq ModelNames
             PROVE  Len(seenVars) <= Capacity
  BY DEF CapacitySuffices, ModelNames
<1> DEFINE I == Mentions(forms["initial"])
           T == Mentions(forms["transition"])
<1>1. forms["initial"] \in Formulas /\ forms["transition"] \in Formulas /\ Names \subseteq I \cup T
  BY Stages DEF SetupInv, NamesInv, ModelNames
<1>2. /\ IsFiniteSet(I) /\ numUniqVars(forms["initial"]) \in Nat
      /\ Cardinality(I) <= numUniqVars(forms["initial"])
      /\ IsFiniteSet(T) /\ numUniqVars(forms["transition"]) \in Nat
      /\ Cardinality(T) <= numUniqVars(forms["transition"])
  BY <1>1, NamesCounted, Stages
<1>3. IsFiniteSet(I \cup T) /\ Cardinality(I \cup T) <= Cardinality(I) + Cardinality(T)
  <2>1. IsFiniteSet(I \cap T)
    BY <1>2, FS_Intersection
  <2>2. Cardinality(I \cap T) \in Nat /\ Cardinality(I) \in Nat /\ Cardinality(T) \in Nat
    BY <1>2, <2>1, FS_CardinalityType
  <2>3. IsFiniteSet(I \cup T) /\ Cardinality(I \cup T) = Cardinality(I) + Cardinality(T) - Cardinality(I \cap T)
    BY <1>2, FS_Union
  <2> QED
    BY <2>2, <2>3
<1>4. Len(seenVars) <= Cardinality(I \cup T)
  <2> DEFINE g == [k \in 1..Len(seenVars) |-> seenVars[k].name]
  <2>1. seenVars \in Seq(SeenVar) /\ Len(seenVars) \in Nat /\ DOMAIN seenVars = 1..Len(seenVars)
    BY DEF SetupInv, ParseInv, VarInv
  <2>2. g \in Injection(1..Len(seenVars), I \cup T)
    <3>1. g \in [1..Len(seenVars) -> I \cup T]
      BY <1>1, <2>1 DEF Names
    <3>2. \A j, k \in 1..Len(seenVars) : g[j] = g[k] => j = k
      BY <2>1 DEF SetupInv, ParseInv, OneNodePerName
    <3> QED
      BY <3>1, <3>2 DEF Injection, IsInjective
  <2> HIDE DEF g
  <2>3. Cardinality(1..Len(seenVars)) <= Cardinality(I \cup T)
    BY <1>3, <2>2, FS_Injection
  <2>4. Cardinality(1..Len(seenVars)) = Len(seenVars)
    BY <2>1, UpTo
  <2> QED
    BY <2>3, <2>4
<1>5. /\ Cardinality(I) \in Nat /\ Cardinality(T) \in Nat /\ Cardinality(I \cup T) \in Nat
      /\ Len(seenVars) \in Nat
  BY <1>2, <1>3, FS_CardinalityType DEF SetupInv, ParseInv, VarInv
<1> HIDE DEF I, T
<1> QED
  BY <1>2, <1>3, <1>4, <1>5 DEF Capacity

\* The array that main.c:105 allocates is large enough for formulas without
\* CTL operators, when the expected states are over variables of the model.
THEOREM EnoughCapacity == SetupSpec => []CapacitySuffices
BY SetupInvariance, CapacityIsEnough, PTL

-----------------------------------------------------------------------------
\* EX and translatedImage (Image): the pre-image and the image of a relation,
\* for any number of state variables, in whatever order they were created, and
\* every transition BDD.

\* What the loop starts from, and what k turns of it leave.
Base == IF call = "EX"
        THEN bddAnd(transition, SwapVariables(states, primedNodes, unprimedNodes))
        ELSE bddAnd(states, transition)

Gone(k) == {Abstracted[j] : j \in 1..k}

\* The valuations that some valuation of B equals outside D.
Over(B, D) == {v \in Space : \E w \in B : w \ D = v \ D}

Without(D) == Over(Base, D)

Progress ==
  /\ at = "call" => turns = 0
  /\ at = "loop" => result = Without(Gone(turns))
  /\ at = "done" =>
       result = IF call = "EX" THEN Without(PrimedHalf)
              ELSE SwapVariables(Without(UnprimedHalf), primedNodes, unprimedNodes)

ImageInv == ImageTypeOK /\ Progress

-----------------------------------------------------------------------------
\* Abstracting one more variable from what was abstracted over D.
LEMMA ExistAbstractStep ==
  ASSUME NEW B \in BDD, NEW D \in SUBSET Var, NEW x \in Var
  PROVE  ExistAbstract(Over(B, D), x) = Over(B, D \cup {x})
<1> USE DEF Over
<1> DEFINE E == D \cup {x}
          f == Over(B, D)
<1>1. ASSUME NEW v \in Space, v \in ExistAbstract(f, x)
      PROVE  \E w \in B : w \ E = v \ E
  <2>1. PICK w \in B : w \ D = (v \cup {x}) \ D \/ w \ D = (v \ {x}) \ D
    BY <1>1 DEF ExistAbstract
  <2>2. w \ E = v \ E
    BY <2>1
  <2> QED
    BY <2>2
<1>2. ASSUME NEW v \in Space, NEW w \in B, w \ E = v \ E
      PROVE  v \in ExistAbstract(f, x)
  <2>1. v \cup {x} \in Space /\ v \ {x} \in Space
    BY DEF Space
  <2>2. CASE x \in w
    <3>1. w \ D = (v \cup {x}) \ D
      BY <1>2, <2>2
    <3> QED
      BY <2>1, <3>1 DEF ExistAbstract
  <2>3. CASE x \notin w
    <3>1. w \ D = (v \ {x}) \ D
      BY <1>2, <2>3
    <3> QED
      BY <2>1, <3>1 DEF ExistAbstract
  <2> QED
    BY <2>2, <2>3
<1> QED
  BY <1>1, <1>2 DEF ExistAbstract

\* The pairing splits the variables into two disjoint halves.
LEMMA Halves ==
  /\ PrimedHalf \cap UnprimedHalf = {}
  /\ Var = PrimedHalf \cup UnprimedHalf
  /\ \A v \in Space : From(v) = v \ PrimedHalf
BY NodesPaired DEF PrimedHalf, UnprimedHalf, From, Space

\* To(v) says which primed variables v holds, and no more.
LEMMA ToMembers ==
  ASSUME NEW v \in Space, NEW j \in 1..numNodes
  PROVE  unprimedNodes[j] \in To(v) <=> primedNodes[j] \in v
BY NodesPaired DEF To

LEMMA ToPrimed ==
  ASSUME NEW v \in Space, NEW w \in Space
  PROVE  To(v) = To(w) <=> v \ UnprimedHalf = w \ UnprimedHalf
<1>1. ASSUME To(v) = To(w), NEW x \in PrimedHalf PROVE x \in v <=> x \in w
  <2>1. PICK j \in 1..numNodes : x = primedNodes[j]
    BY DEF PrimedHalf
  <2> QED
    BY <1>1, <2>1, ToMembers
<1>2. ASSUME v \ UnprimedHalf = w \ UnprimedHalf PROVE To(v) = To(w)
  <2>1. \A k \in 1..numNodes : primedNodes[k] \in PrimedHalf
    BY DEF PrimedHalf
  <2>2. \A k \in 1..numNodes : primedNodes[k] \in v <=> primedNodes[k] \in w
    BY <1>2, <2>1, Halves
  <2> QED
    BY <2>2 DEF To
<1>3. \A u \in Space : u \ UnprimedHalf = u \cap PrimedHalf
  BY Halves DEF Space
<1> QED
  BY <1>1, <1>2, <1>3

\* Exchanging the paired variables turns what a valuation comes from into
\* what it goes to, and back.
LEMMA ExchangedStates ==
  ASSUME NEW v \in Space
  PROVE  LET e == Exchanged(v, primedNodes, unprimedNodes)
         IN  e \in Space /\ From(e) = To(v) /\ To(e) = From(v)
<1> DEFINE e == Exchanged(v, primedNodes, unprimedNodes)
<1>1. DOMAIN primedNodes = 1..numNodes
  BY NodesPaired
<1>2. e \in Space
  BY DEF Exchanged, Space
<1>3. ASSUME NEW j \in 1..numNodes
      PROVE  /\ unprimedNodes[j] \in e <=> primedNodes[j] \in v
             /\ primedNodes[j] \in e <=> unprimedNodes[j] \in v
  BY <1>1, NodesPaired DEF Exchanged
<1>4. From(e) = To(v)
  BY <1>3 DEF From, To, UnprimedHalf
<1>5. To(e) = From(v)
  BY <1>3 DEF From, To, UnprimedHalf
<1> QED
  BY <1>2, <1>4, <1>5

-----------------------------------------------------------------------------
LEMMA SetsOfStates ==
  /\ \A S \in SUBSET States : BddOf(S) \in BDD
  /\ \A v \in Space : From(v) \in States /\ To(v) \in States
BY DEF BddOf, BDD, States, From, To, UnprimedHalf

\* Distinct sets of states have distinct BDDs.
LEMMA BddOfInjective ==
  ASSUME NEW S \in SUBSET States, NEW R \in SUBSET States, BddOf(S) = BddOf(R)
  PROVE  S = R
<1>1. ASSUME NEW s \in States PROVE s \in Space /\ From(s) = s
  BY Halves DEF States, Space, From
<1> QED
  BY <1>1 DEF BddOf

LEMMA BaseType == ImageTypeOK => Base \in BDD
BY SetsOfStates DEF ImageTypeOK, Base, bddAnd, SwapVariables, BDD

LEMMA AbstractedVars ==
  ASSUME NEW j \in 1..numNodes
  PROVE  /\ Abstracted[j] \in Var
         /\ Abstracted[j] = IF call = "EX" THEN primedNodes[j] ELSE unprimedNodes[j]
BY NodesPaired DEF Abstracted

LEMMA GoneSteps ==
  /\ Gone(0) = {}
  /\ \A k \in Nat : Gone(k+1) = Gone(k) \cup {Abstracted[k+1]}
  /\ Gone(numNodes) = IF call = "EX" THEN PrimedHalf ELSE UnprimedHalf
<1>1. Gone(0) = {}
  BY DEF Gone
<1>2. ASSUME NEW k \in Nat PROVE Gone(k+1) = Gone(k) \cup {Abstracted[k+1]}
  <2>1. 1..(k+1) = (1..k) \cup {k+1}
    OBVIOUS
  <2> QED
    BY <2>1 DEF Gone
<1>3. Gone(numNodes) = IF call = "EX" THEN PrimedHalf ELSE UnprimedHalf
  BY DEF Gone, Abstracted, PrimedHalf, UnprimedHalf
<1> QED
  BY <1>1, <1>2, <1>3

-----------------------------------------------------------------------------
LEMMA ImageInvInit == ImageInit => ImageInv
BY NodesPaired DEF ImageInit, ImageInv, ImageTypeOK, Progress, BDD, Space

LEMMA BeginInv == ImageInv /\ Begin => ImageInv'
<1> SUFFICES ASSUME ImageInv, Begin PROVE ImageInv'
  OBVIOUS
<1>1. /\ UNCHANGED args /\ turns' = 0 /\ at' = "loop" /\ result' = Base
  BY DEF Begin, Base, ImageInv, Progress
<1>2. ImageTypeOK'
  BY <1>1, BaseType, NodesPaired DEF ImageInv, ImageTypeOK, args
<1>3. Base' = Base
  BY <1>1 DEF Base, args
<1>4. result' = Over(Base, {})
  BY <1>1, BaseType DEF ImageInv, BDD, Over
<1>5. Gone(0)' = {}
  BY DEF Gone
<1>6. Progress'
  BY <1>1, <1>3, <1>4, <1>5 DEF Progress, Without
<1> QED
  BY <1>2, <1>6 DEF ImageInv

LEMMA AbstractInv == ImageInv /\ Abstract => ImageInv'
<1> SUFFICES ASSUME ImageInv, Abstract PROVE ImageInv'
  OBVIOUS
<1> DEFINE x == Abstracted[turns+1]
<1>1. /\ UNCHANGED args /\ turns' = turns + 1 /\ at' = "loop" /\ at = "loop"
      /\ turns \in 0..numNodes /\ turns + 1 \in 1..numNodes /\ numNodes \in Nat
  BY NodesPaired DEF Abstract, ImageInv, ImageTypeOK
<1>2. x \in Var /\ result' = ExistAbstract(result, x)
  BY <1>1, AbstractedVars DEF Abstract
<1> HIDE DEF x
<1>3. Base' = Base /\ \A k : Gone(k)' = Gone(k)
  BY <1>1 DEF Base, args, Gone, Abstracted
<1>4. Base \in BDD
  BY BaseType DEF ImageInv
<1>5. Gone(turns) \in SUBSET Var
  BY <1>1, AbstractedVars DEF Gone
<1>6. result = Over(Base, Gone(turns))
  BY <1>1 DEF ImageInv, Progress, Without
<1>7. result' = Over(Base, Gone(turns) \cup {x})
  BY <1>2, <1>4, <1>5, <1>6, ExistAbstractStep
<1>8. Gone(turns+1) = Gone(turns) \cup {x}
  BY <1>1, GoneSteps DEF x
<1>9. result' = Without(Gone(turns+1))
  BY <1>7, <1>8 DEF Without
<1>10. Without(Gone(turns+1)) = (Without(Gone(turns)))'
  BY <1>1, <1>3 DEF Without
<1>11. Progress'
  BY <1>1, <1>9, <1>10 DEF Progress
<1>12. ImageTypeOK'
  BY <1>1, <1>2 DEF ImageInv, ImageTypeOK, args, ExistAbstract, BDD
<1> QED
  BY <1>11, <1>12 DEF ImageInv

LEMMA SwapBackInv == ImageInv /\ SwapBack => ImageInv'
<1> SUFFICES ASSUME ImageInv, SwapBack PROVE ImageInv'
  OBVIOUS
<1>1. /\ UNCHANGED args /\ turns' = turns /\ at' = "done" /\ at = "loop" /\ turns = numNodes
      /\ call' = call
      /\ result' = IF call = "EX" THEN result
                 ELSE SwapVariables(result, primedNodes, unprimedNodes)
  BY DEF SwapBack, args
<1>2. ImageTypeOK'
  BY <1>1 DEF ImageInv, ImageTypeOK, args, SwapVariables, BDD
<1>3. result = Without(IF call = "EX" THEN PrimedHalf ELSE UnprimedHalf)
  BY <1>1, GoneSteps DEF ImageInv, Progress
<1>4. Base' = Base
  BY <1>1 DEF Base, args
<1>5. \A D : Without(D)' = Without(D)
  BY <1>4 DEF Without
<1>6. Progress'
  BY <1>1, <1>3, <1>5 DEF Progress
<1> QED
  BY <1>2, <1>6 DEF ImageInv

LEMMA QuietInv == ImageInv /\ (SwapFails \/ UNCHANGED imageVars) => ImageInv'
<1> SUFFICES ASSUME ImageInv, SwapFails \/ UNCHANGED imageVars PROVE ImageInv'
  OBVIOUS
<1>1. /\ UNCHANGED args /\ result' = result /\ turns' = turns /\ call' = call
      /\ at' = at \/ at' = "exit"
  BY DEF SwapFails, imageVars, args
<1>2. ImageTypeOK'
  BY <1>1 DEF ImageInv, ImageTypeOK, args
<1>3. Base' = Base /\ \A k : Gone(k)' = Gone(k)
  BY <1>1 DEF Base, args, Gone, Abstracted
<1>4. \A D : Without(D)' = Without(D)
  BY <1>3 DEF Without
<1>5. Without(Gone(turns))' = Without(Gone(turns))
  BY <1>1, <1>3 DEF Without
<1>6. Progress'
  BY <1>1, <1>4, <1>5 DEF ImageInv, Progress
<1> QED
  BY <1>2, <1>6 DEF ImageInv

\* After i turns of a loop of EX or translatedImage the first i variables are
\* quantified, and nothing else has happened to the BDD.
THEOREM ImageInvariance == ImageSpec => []ImageInv
<1>1. ImageInv /\ [ImageNext]_imageVars => ImageInv'
  BY BeginInv, AbstractInv, SwapBackInv, QuietInv DEF ImageNext
<1> QED
  BY ImageInvInit, <1>1, PTL DEF ImageSpec

-----------------------------------------------------------------------------
\* A variable that one of the loops has abstracted never returns.
THEOREM AbstractionHolds == ImageSpec => []AbstractedStayGone
<1>1. ImageInv => AbstractedStayGone
  <2> SUFFICES ASSUME ImageInv, at = "loop", NEW j \in 1..turns, NEW v \in Space
               PROVE  v \cup {Abstracted[j]} \in result <=> v \ {Abstracted[j]} \in result
    BY DEF AbstractedStayGone
  <2> DEFINE x == Abstracted[j]
  <2>1. x \in Gone(turns) /\ x \in Var
    BY AbstractedVars, NodesPaired DEF Gone, ImageInv, ImageTypeOK
  <2>2. v \cup {x} \in Space /\ v \ {x} \in Space
    BY <2>1 DEF Space
  <2>3. (v \cup {x}) \ Gone(turns) = (v \ {x}) \ Gone(turns)
    BY <2>1
  <2> QED
    BY <2>2, <2>3 DEF ImageInv, Progress, Without, Over
<1> QED
  BY <1>1, ImageInvariance, PTL

\* EX of ctlmc.c is the pre-image that CtlFixpoint takes it for.
THEOREM EXCorrect == ImageSpec => []EXIsPreImage
<1>1. ImageInv => EXIsPreImage
  <2> SUFFICES ASSUME ImageInv, at = "done", call = "EX",
                      NEW S \in SUBSET States, states = BddOf(S)
               PROVE  result = BddOf(Ctl!EX(S))
    BY DEF EXIsPreImage
  <2>1. \A w \in Space : w \in Base <=> w \in transition /\ To(w) \in S
    BY ExchangedStates DEF Base, bddAnd, SwapVariables, BddOf
  <2>2. Base \in BDD /\ transition \in BDD
    BY BaseType DEF ImageInv, ImageTypeOK
  <2>3. \A v \in Space : v \in result <=> \E w \in Base : From(w) = From(v)
    <3>1. result = Over(Base, PrimedHalf)
      BY DEF ImageInv, Progress, Without
    <3>2. \A v \in Space : From(v) = v \ PrimedHalf
      BY Halves
    <3> QED
      BY <2>2, <3>1, <3>2 DEF Over, BDD
  <2>4. \A v \in Space : v \in result <=> \E w \in transition : To(w) \in S /\ From(w) = From(v)
    BY <2>1, <2>2, <2>3 DEF BDD
  <2>5. \A v \in Space : From(v) \in Ctl!EX(S) <=>
                            \E w \in transition : To(w) \in S /\ From(w) = From(v)
    BY SetsOfStates DEF Ctl!EX, Relation
  <2>6. result \in BDD
    BY DEF ImageInv, ImageTypeOK
  <2> QED
    BY <2>4, <2>5, <2>6 DEF BddOf, BDD
<1> QED
  BY <1>1, ImageInvariance, PTL

\* translatedImage of aux.c is the image that Reach takes it for.
THEOREM ImageCorrect == ImageSpec => []ImageIsImage
<1>1. ImageInv => ImageIsImage
  <2> SUFFICES ASSUME ImageInv, at = "done", call = "translatedImage",
                      NEW S \in SUBSET States, states = BddOf(S)
               PROVE  result = BddOf(Forward!Image(S))
    BY DEF ImageIsImage
  <2>1. \A w \in Space : w \in Base <=> w \in transition /\ From(w) \in S
    BY DEF Base, bddAnd, BddOf
  <2>2. Base \in BDD /\ transition \in BDD
    BY BaseType DEF ImageInv, ImageTypeOK
  <2>3. \A v \in Space : v \in Without(UnprimedHalf) <=> \E w \in Base : To(w) = To(v)
    BY <2>2, ToPrimed DEF Without, Over, BDD
  <2>4. \A v \in Space : v \in result <=> \E w \in Base : To(w) = From(v)
    <3> SUFFICES ASSUME NEW v \in Space
                 PROVE  v \in result <=> \E w \in Base : To(w) = From(v)
      OBVIOUS
    <3> DEFINE e == Exchanged(v, primedNodes, unprimedNodes)
    <3>1. e \in Space /\ To(e) = From(v)
      BY ExchangedStates
    <3>2. v \in result <=> e \in Without(UnprimedHalf)
      BY DEF ImageInv, Progress, SwapVariables
    <3> QED
      BY <2>3, <3>1, <3>2
  <2>5. \A v \in Space : v \in result <=> \E w \in transition : From(w) \in S /\ To(w) = From(v)
    BY <2>1, <2>2, <2>4 DEF BDD
  <2>6. \A v \in Space : From(v) \in Forward!Image(S) <=>
                            \E w \in transition : From(w) \in S /\ To(w) = From(v)
    BY SetsOfStates DEF Forward!Image, Relation
  <2>7. result \in BDD
    BY DEF ImageInv, ImageTypeOK
  <2> QED
    BY <2>5, <2>6, <2>7 DEF BddOf, BDD
<1> QED
  BY <1>1, ImageInvariance, PTL
=============================================================================
