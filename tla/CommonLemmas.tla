---------------------------- MODULE CommonLemmas ----------------------------
(***************************************************************************)
(* What several proofs need: induction over the naturals, stated for sets  *)
(* (to prove something of every number, prove that the set of the numbers  *)
(* it holds of is Nat), and how a stack machine reads postfix formulas.    *)
(***************************************************************************)
EXTENDS Postfix, FiniteSetTheorems, SequenceTheorems, WellFoundedInduction, TLAPS

\* A set of naturals that is not empty has a least element.
LEMMA HasLeast ==
  ASSUME NEW S \in SUBSET Nat, S # {}
  PROVE  \E n \in S : \A m \in S : n <= m
<1> DEFINE R == {ss \in Nat \X Nat : ss[1] < ss[2]}
<1>1. IsWellFoundedOn(R, Nat)
  BY NatLessThanWellFounded DEF OpToRel
<1>2. PICK n \in S : \A m \in S : ~ (<<m, n>> \in R)
  BY <1>1, WFMin
<1>3. ASSUME NEW m \in S PROVE n <= m
  <2>1. <<m, n>> \in Nat \X Nat /\ m \in Nat /\ n \in Nat
    OBVIOUS
  <2>2. ~(m < n)
    BY <1>2, <2>1
  <2> QED
    BY <2>1, <2>2
<1> QED
  BY <1>3

\* A set that has 0 and the successor of each of its elements is Nat.
LEMMA SetInduction ==
  ASSUME NEW S \in SUBSET Nat, 0 \in S, \A n \in S : n + 1 \in S
  PROVE  S = Nat
<1> SUFFICES ASSUME Nat \ S # {} PROVE FALSE
  OBVIOUS
<1>1. PICK n \in Nat \ S : \A m \in Nat \ S : n <= m
  BY HasLeast
<1>2. n # 0 /\ n - 1 \in S
  BY <1>1
<1> QED
  BY <1>1, <1>2

LEMMA UpTo ==
  ASSUME NEW n \in Nat
  PROVE  IsFiniteSet(1..n) /\ Cardinality(1..n) = n
BY FS_Interval

-----------------------------------------------------------------------------
\* The token in question decides, and what is said of the tokens before.
LEMMA BeginAtDepends ==
  ASSUME NEW s, NEW leaves, NEW unary, NEW binary, NEW j \in Nat, NEW g, NEW h,
         \A k \in 0..(j-1) : g[k] = h[k]
  PROVE  BeginAt(s, leaves, unary, binary, g, j) = BeginAt(s, leaves, unary, binary, h, j)
<1>1. CASE j = 0
  BY <1>1 DEF BeginAt
<1>2. CASE j # 0
  <2>1. g[j-1] = h[j-1]
    BY <1>2
  <2>2. g[j-1] \in 2..j => g[g[j-1] - 1] = h[h[j-1] - 1]
    BY <1>2, <2>1
  <2> QED
    BY <1>2, <2>1, <2>2 DEF BeginAt
<1> QED
  BY <1>1, <1>2

AreBegins(s, leaves, unary, binary, n, g) ==
  g = [j \in 0..n |-> BeginAt(s, leaves, unary, binary, g, j)]

LEMMA BeginsExist ==
  ASSUME NEW s, NEW leaves, NEW unary, NEW binary, NEW n \in Nat
  PROVE  \E g : AreBegins(s, leaves, unary, binary, n, g)
<1> DEFINE B(g, j) == BeginAt(s, leaves, unary, binary, g, j)
           S == {m \in Nat : \E g : g = [j \in 0..m |-> B(g, j)]}
<1>1. \A j \in Nat : \A g, h : (\A k \in 0..(j-1) : g[k] = h[k]) => B(g, j) = B(h, j)
  BY BeginAtDepends
<1> HIDE DEF B
<1>2. 0 \in S
  <2> DEFINE g == [j \in 0..0 |-> B(<<>>, j)]
  <2>1. B(g, 0) = B(<<>>, 0)
    BY <1>1
  <2>2. g = [j \in 0..0 |-> B(g, j)]
    BY <2>1
  <2> QED
    BY <2>2
<1>3. ASSUME NEW m \in S PROVE m+1 \in S
  <2>1. PICK g : g = [j \in 0..m |-> B(g, j)]
    OBVIOUS
  <2> DEFINE h == [j \in 0..(m+1) |-> B(g, j)]
  <2>2. \A k \in 0..m : h[k] = g[k]
    BY <2>1
  <2> HIDE DEF h
  <2>3. \A j \in 0..(m+1) : B(g, j) = B(h, j)
    BY <1>1, <2>2
  <2>4. h = [j \in 0..(m+1) |-> B(h, j)]
    BY <2>3 DEF h
  <2> QED
    BY <2>4
<1>4. S = Nat
  BY <1>2, <1>3, SetInduction
<1> QED
  BY <1>4 DEF B, AreBegins

LEMMA BeginsUnfold ==
  ASSUME NEW s, Len(s) \in Nat, NEW leaves, NEW unary, NEW binary
  PROVE  AreBegins(s, leaves, unary, binary, Len(s), Begins(s, leaves, unary, binary))
<1>1. Begins(s, leaves, unary, binary) = CHOOSE g : AreBegins(s, leaves, unary, binary, Len(s), g)
  BY DEF Begins, AreBegins
<1>2. \E g : AreBegins(s, leaves, unary, binary, Len(s), g)
  BY BeginsExist
<1> QED
  BY <1>1, <1>2

\* A subformula begins no later than it ends.
LEMMA BeginFacts ==
  ASSUME NEW s, Len(s) \in Nat, NEW leaves, NEW unary, NEW binary,
         NEW b, b = Begins(s, leaves, unary, binary)
  PROVE  /\ DOMAIN b = 0..Len(s)
         /\ \A j \in 0..Len(s) : b[j] = BeginAt(s, leaves, unary, binary, b, j) /\ b[j] \in 0..j
<1> DEFINE B(j) == BeginAt(s, leaves, unary, binary, b, j)
<1>1. b = [j \in 0..Len(s) |-> B(j)]
  BY BeginsUnfold DEF AreBegins
<1> HIDE DEF B
<1>2. DOMAIN b = 0..Len(s) /\ \A j \in 0..Len(s) : b[j] = B(j)
  BY <1>1
<1> USE DEF B
<1> DEFINE S == {j \in Nat : j <= Len(s) /\ b[j] \notin 0..j}
<1>3. S = {}
  <2> SUFFICES ASSUME S # {} PROVE FALSE
    OBVIOUS
  <2>1. PICK j \in S : \A k \in S : j <= k
    BY HasLeast
  <2>2. j \in 0..Len(s) /\ b[j] \notin 0..j /\ \A k \in 0..(j-1) : b[k] \in 0..k
    <3>1. \A k \in 0..(j-1) : k \in Nat /\ k <= Len(s) /\ ~(j <= k)
      BY <2>1
    <3> QED
      BY <2>1, <3>1
  <2>3. j # 0 => b[j-1] \in 0..(j-1)
    BY <2>2
  <2>4. b[j-1] \in 2..j => b[b[j-1] - 1] \in 0..j
    BY <2>2, <2>3
  <2> QED
    BY <1>2, <2>2, <2>3, <2>4 DEF BeginAt
<1> QED
  BY <1>2, <1>3

\* Between the ends of a subformula no other crosses its beginning.
LEMMA InnerBegins ==
  ASSUME NEW s, Len(s) \in Nat, NEW leaves, NEW unary, NEW binary,
         NEW b, b = Begins(s, leaves, unary, binary),
         NEW n \in 0..Len(s), b[n] # 0, NEW j \in b[n]..n
  PROVE  b[j] >= b[n]
<1>1. \A k \in 0..Len(s) : b[k] = BeginAt(s, leaves, unary, binary, b, k) /\ b[k] \in 0..k
  BY BeginFacts
<1> DEFINE Holds(m) == b[m] # 0 => \A k \in b[m]..m : b[k] >= b[m]
           S == {m \in Nat : m <= Len(s) /\ ~Holds(m)}
<1>2. S = {}
  <2> SUFFICES ASSUME S # {} PROVE FALSE
    OBVIOUS
  <2>1. PICK m \in S : \A k \in S : m <= k
    BY HasLeast
  <2>2. m \in 0..Len(s) /\ ~Holds(m) /\ \A k \in 0..(m-1) : Holds(k)
    <3>1. \A k \in 0..(m-1) : k \in Nat /\ k <= Len(s) /\ ~(m <= k)
      BY <2>1
    <3> QED
      BY <2>1, <3>1
  <2>3. b[m] # 0 /\ b[m] \in 1..m /\ b[m] = BeginAt(s, leaves, unary, binary, b, m) /\ m # 0
    BY <1>1, <2>2
  <2>4. PICK k \in b[m]..m : ~(b[k] >= b[m])
    BY <2>2
  <2>5. k \in 0..(m-1)
    BY <1>1, <2>3, <2>4
  <2>6. b[m-1] \in 0..(m-1) /\ Holds(m-1)
    BY <1>1, <2>2, <2>3
  <2> HIDE DEF S
  <2>7. CASE b[m] = m
    BY <2>4, <2>5, <2>7
  <2>8. CASE b[m] = b[m-1]
    BY <2>3, <2>4, <2>5, <2>6, <2>8
  <2>9. CASE b[m-1] \in 2..m /\ b[m] = b[b[m-1] - 1]
    <3>1. PICK p \in 0..(m-1) : p = b[m-1] - 1
      <4>1. m \in Nat
        BY <2>2
      <4> QED
        BY <2>6, <2>9, <4>1
    <3>2. b[m] = b[p] /\ b[p] # 0 /\ b[p] <= p /\ b[p] \in Nat
      <4>1. p \in 0..Len(s)
        BY <2>2, <3>1
      <4>2. b[p] \in 0..p
        BY <1>1, <4>1
      <4> QED
        BY <2>3, <2>9, <3>1, <4>2
    <3>3. CASE k >= b[m-1]
      <4>1. b[k] >= b[m-1]
        BY <2>5, <2>6, <2>9, <3>3
      <4>2. k \in 0..Len(s)
        BY <2>2, <2>5
      <4>3. b[k] \in Nat
        BY <1>1, <4>2
      <4>4. p \in Nat /\ b[m-1] \in Nat /\ p < b[m-1]
        BY <2>6, <3>1
      <4> HIDE DEF Holds
      <4>5. b[m] <= b[k]
        BY <3>2, <4>1, <4>3, <4>4
      <4> QED
        BY <2>4, <3>2, <4>3, <4>5
    <3>4. CASE k < b[m-1]
      <4>1. k \in b[p]..p
        <5>1. k \in Nat /\ k >= b[m] /\ k <= p
          BY <2>3, <2>5, <2>6, <2>9, <3>1, <3>4
        <5> QED
          BY <3>2, <5>1
      <4>2. Holds(p)
        BY <2>2, <3>1
      <4> QED
        BY <2>4, <3>2, <4>1, <4>2
    <3> QED
      BY <2>5, <2>6, <3>3, <3>4
  <2> QED
    BY <2>3, <2>7, <2>8, <2>9 DEF BeginAt
<1>3. Holds(n)
  BY <1>2
<1> QED
  BY <1>3

\* What a subformula stands for depends on what the ones before it stand for.
LEMMA ValueAtDepends ==
  ASSUME NEW s, Len(s) \in Nat, NEW leaf, NEW unary, NEW one, NEW binary, NEW two,
         NEW b, b = Begins(s, DOMAIN leaf, unary, binary),
         NEW j \in 0..Len(s), NEW g, NEW h, \A k \in 0..(j-1) : g[k] = h[k]
  PROVE  ValueAt(s, leaf, unary, one, binary, two, b, g, j)
           = ValueAt(s, leaf, unary, one, binary, two, b, h, j)
<1>1. b[j] = BeginAt(s, DOMAIN leaf, unary, binary, b, j) /\ b[j] \in 0..j
  BY BeginFacts
<1>2. CASE j = 0
  BY <1>1, <1>2 DEF ValueAt
<1>3. CASE j # 0
  <2>1. g[j-1] = h[j-1]
    BY <1>3
  <2>2. b[j-1] \in 2..j => g[b[j-1] - 1] = h[b[j-1] - 1]
    BY <1>3
  <2> QED
    BY <1>1, <1>3, <2>1, <2>2 DEF ValueAt, BeginAt
<1> QED
  BY <1>2, <1>3

AreValues(s, leaf, unary, one, binary, two, b, n, g) ==
  g = [j \in 0..n |-> ValueAt(s, leaf, unary, one, binary, two, b, g, j)]

LEMMA ValuesExist ==
  ASSUME NEW s, Len(s) \in Nat, NEW leaf, NEW unary, NEW one, NEW binary, NEW two,
         NEW b, b = Begins(s, DOMAIN leaf, unary, binary), NEW n \in 0..Len(s)
  PROVE  \E g : AreValues(s, leaf, unary, one, binary, two, b, n, g)
<1> DEFINE V(g, j) == ValueAt(s, leaf, unary, one, binary, two, b, g, j)
           S == {m \in Nat : m <= Len(s) => \E g : g = [j \in 0..m |-> V(g, j)]}
<1>1. \A j \in 0..Len(s) : \A g, h : (\A k \in 0..(j-1) : g[k] = h[k]) => V(g, j) = V(h, j)
  BY ValueAtDepends
<1> HIDE DEF V
<1>2. 0 \in S
  <2> DEFINE g == [j \in 0..0 |-> V(<<>>, j)]
  <2>1. V(g, 0) = V(<<>>, 0)
    BY <1>1
  <2>2. g = [j \in 0..0 |-> V(g, j)]
    BY <2>1
  <2> QED
    BY <2>2
<1>3. ASSUME NEW m \in S PROVE m+1 \in S
  <2> SUFFICES ASSUME m+1 <= Len(s) PROVE \E g : g = [j \in 0..(m+1) |-> V(g, j)]
    OBVIOUS
  <2>1. PICK g : g = [j \in 0..m |-> V(g, j)]
    OBVIOUS
  <2> DEFINE h == [j \in 0..(m+1) |-> V(g, j)]
  <2>2. \A k \in 0..m : h[k] = g[k]
    BY <2>1
  <2> HIDE DEF h
  <2>3. ASSUME NEW j \in 0..(m+1) PROVE V(g, j) = V(h, j)
    <3>1. j \in 0..Len(s) /\ \A k \in 0..(j-1) : g[k] = h[k]
      BY <2>2
    <3> QED
      BY <1>1, <3>1
  <2>4. h = [j \in 0..(m+1) |-> V(h, j)]
    BY <2>3 DEF h
  <2> QED
    BY <2>4
<1>4. S = Nat
  BY <1>2, <1>3, SetInduction
<1>5. n \in Nat /\ n <= Len(s)
  OBVIOUS
<1> QED
  BY <1>4, <1>5 DEF V, AreValues

LEMMA ValuesUnfold ==
  ASSUME NEW s, Len(s) \in Nat, NEW leaf, NEW unary, NEW one, NEW binary, NEW two
  PROVE  AreValues(s, leaf, unary, one, binary, two, Begins(s, DOMAIN leaf, unary, binary),
                   Len(s), Values(s, leaf, unary, one, binary, two))
<1> DEFINE b == Begins(s, DOMAIN leaf, unary, binary)
<1>1. Values(s, leaf, unary, one, binary, two)
        = CHOOSE g : AreValues(s, leaf, unary, one, binary, two, b, Len(s), g)
  BY DEF Values, AreValues
<1>2. Len(s) \in 0..Len(s)
  OBVIOUS
<1>3. ASSUME NEW c, c = b PROVE \E g : AreValues(s, leaf, unary, one, binary, two, c, Len(s), g)
  BY <1>2, <1>3, ValuesExist
<1> QED
  BY <1>1, <1>3

-----------------------------------------------------------------------------
\* The stack d of a stack machine that has read n tokens: they are formulas one
\* behind the other, and d holds what these stand for.
Tiles(begin, value, d, n) ==
  \E end \in [0..Len(d) -> Nat] :
    /\ end[0] = 0 /\ end[Len(d)] = n
    /\ \A m \in 1..Len(d) : begin[end[m]] = end[m-1] + 1 /\ d[m] = value[end[m]]

LEMMA TilesEmpty ==
  ASSUME NEW begin, NEW value
  PROVE  \A n : Tiles(begin, value, <<>>, n) <=> n = 0
<1>1. ASSUME NEW n, Tiles(begin, value, <<>>, n) PROVE n = 0
  BY <1>1 DEF Tiles
<1>2. Tiles(begin, value, <<>>, 0)
  <2> DEFINE end == [m \in 0..0 |-> 0]
  <2>1. end \in [0..Len(<<>>) -> Nat] /\ end[0] = 0 /\ Len(<<>>) = 0
    OBVIOUS
  <2> HIDE DEF end
  <2> QED
    BY <2>1 DEF Tiles
<1> QED
  BY <1>1, <1>2

\* The formula that ends with the n-th token is pushed onto those before it.
LEMMA TilesPush ==
  ASSUME NEW begin, NEW value, NEW X, NEW d \in Seq(X), NEW n \in Nat, value[n] \in X,
         begin[n] \in Nat, begin[n] # 0, Tiles(begin, value, d, begin[n] - 1)
  PROVE  Tiles(begin, value, Append(d, value[n]), n)
<1> DEFINE c == Append(d, value[n])
<1>1. PICK end \in [0..Len(d) -> Nat] :
        /\ end[0] = 0 /\ end[Len(d)] = begin[n] - 1
        /\ \A m \in 1..Len(d) : begin[end[m]] = end[m-1] + 1 /\ d[m] = value[end[m]]
  BY DEF Tiles
<1> DEFINE e == [m \in 0..(Len(d) + 1) |-> IF m <= Len(d) THEN end[m] ELSE n]
<1>2. Len(d) \in Nat /\ Len(c) = Len(d) + 1 /\ c[Len(d) + 1] = value[n]
      /\ \A m \in 1..Len(d) : c[m] = d[m]
  OBVIOUS
<1>3. e \in [0..Len(c) -> Nat] /\ e[0] = 0 /\ e[Len(c)] = n
  BY <1>1, <1>2
<1>4. ASSUME NEW m \in 1..Len(c) PROVE begin[e[m]] = e[m-1] + 1 /\ c[m] = value[e[m]]
  <2>1. CASE m <= Len(d)
    <3>1. m \in 1..Len(d) /\ e[m] = end[m] /\ e[m-1] = end[m-1]
      BY <1>2, <2>1
    <3> QED
      BY <1>1, <1>2, <3>1
  <2>2. CASE m = Len(d) + 1
    <3>1. e[m] = n /\ e[m-1] = begin[n] - 1
      BY <1>1, <1>2, <2>2
    <3> QED
      BY <1>2, <2>2, <3>1
  <2> QED
    BY <1>2, <2>1, <2>2
<1> HIDE DEF e, c
<1>5. Tiles(begin, value, c, n)
  BY <1>3, <1>4 DEF Tiles
<1> QED
  BY <1>5 DEF c

LEMMA Shortened ==
  ASSUME NEW X, NEW d \in Seq(X), d # <<>>
  PROVE  /\ Len(d) \in Nat \ {0} /\ SubSeq(d, 1, Len(d) - 1) \in Seq(X)
         /\ Len(SubSeq(d, 1, Len(d) - 1)) = Len(d) - 1
         /\ \A m \in 1..(Len(d) - 1) : SubSeq(d, 1, Len(d) - 1)[m] = d[m]
<1> DEFINE n == Len(d) - 1
           c == SubSeq(d, 1, n)
<1>1. Len(d) \in Nat \ {0} /\ n \in Nat /\ \A m \in 1..n : d[m] \in X
  OBVIOUS
<1>2. /\ c \in Seq(X) /\ Len(c) = IF 1 <= n THEN n - 1 + 1 ELSE 0
      /\ \A m \in 1..(n - 1 + 1) : c[m] = d[1 + m - 1]
  <2> HIDE DEF n
  <2> QED
    BY <1>1, SubSeqProperties
<1> HIDE DEF c
<1>3. Len(c) = n /\ \A m \in 1..n : c[m] = d[m]
  <2>1. n \in Nat
    BY <1>1
  <2> HIDE DEF n
  <2>2. Len(c) = n
    BY <1>2, <2>1
  <2>3. ASSUME NEW m \in 1..n PROVE c[m] = d[m]
    <3>1. 1 + m - 1 = m /\ m \in 1..(n - 1 + 1)
      BY <2>1
    <3>2. c[m] = d[1 + m - 1]
      BY <1>2, <3>1
    <3> QED
      BY <3>1, <3>2
  <2> QED
    BY <2>2, <2>3
<1> QED
  BY <1>1, <1>2, <1>3 DEF c

\* What a pop returns, and what it leaves.
LEMMA TilesPop ==
  ASSUME NEW begin, NEW value, NEW X, NEW d \in Seq(X), d # <<>>, begin[0] = 0,
         NEW n, Tiles(begin, value, d, n)
  PROVE  /\ n \in Nat \ {0} /\ begin[n] \in Nat \ {0} /\ d[Len(d)] = value[n]
         /\ Tiles(begin, value, SubSeq(d, 1, Len(d) - 1), begin[n] - 1)
<1> DEFINE c == SubSeq(d, 1, Len(d) - 1)
<1>1. PICK end \in [0..Len(d) -> Nat] :
        /\ end[0] = 0 /\ end[Len(d)] = n
        /\ \A m \in 1..Len(d) : begin[end[m]] = end[m-1] + 1 /\ d[m] = value[end[m]]
  BY DEF Tiles
<1>2. Len(d) \in Nat \ {0}
  OBVIOUS
<1>3. Len(c) = Len(d) - 1 /\ \A m \in 1..Len(c) : c[m] = d[m]
  BY <1>2
<1>4. begin[n] = end[Len(d) - 1] + 1 /\ d[Len(d)] = value[n] /\ end[Len(d) - 1] \in Nat /\ n \in Nat
  BY <1>1, <1>2
<1> DEFINE e == [m \in 0..(Len(d) - 1) |-> end[m]]
<1>5. /\ e \in [0..Len(c) -> Nat] /\ e[0] = 0 /\ e[Len(c)] = begin[n] - 1
      /\ \A m \in 1..Len(c) : begin[e[m]] = e[m-1] + 1 /\ c[m] = value[e[m]]
  <2>1. \A m \in 0..Len(c) : e[m] = end[m] /\ end[m] \in Nat
    BY <1>2, <1>3
  <2>2. e \in [0..Len(c) -> Nat]
    BY <1>3, <2>1
  <2>3. 0 \in 0..Len(c) /\ Len(c) \in 0..Len(c)
    BY <1>2, <1>3
  <2>4. ASSUME NEW m \in 1..Len(c) PROVE begin[e[m]] = e[m-1] + 1 /\ c[m] = value[e[m]]
    <3>1. m \in 1..Len(d) /\ m \in 0..Len(c) /\ m-1 \in 0..Len(c)
      BY <1>2, <1>3
    <3> QED
      BY <1>1, <1>3, <2>1, <3>1
  <2> HIDE DEF e, c
  <2> QED
    BY <1>1, <1>3, <1>4, <2>1, <2>2, <2>3, <2>4
<1> HIDE DEF e, c
<1>6. Tiles(begin, value, c, begin[n] - 1)
  BY <1>5 DEF Tiles
<1> QED
  BY <1>4, <1>6 DEF c

\* One formula on the stack is all that was read, several are not one formula.
LEMMA TilesOne ==
  ASSUME NEW begin, NEW value, NEW X, NEW d \in Seq(X), begin[0] = 0,
         NEW n, Tiles(begin, value, d, n)
  PROVE  /\ Len(d) = 1 <=> begin[n] = 1
         /\ Len(d) = 1 => d[1] = value[n]
<1> DEFINE c == SubSeq(d, 1, Len(d) - 1)
<1>1. CASE d = <<>>
  BY <1>1, TilesEmpty
<1>2. CASE d # <<>>
  <2>1. /\ begin[n] \in Nat \ {0} /\ d[Len(d)] = value[n]
        /\ Tiles(begin, value, c, begin[n] - 1)
    BY <1>2, TilesPop
  <2>2. c \in Seq(X) /\ Len(c) = Len(d) - 1 /\ Len(d) \in Nat /\ Len(c) \in Nat
    BY <1>2, Shortened
  <2>3. CASE c = <<>>
    <3>1. begin[n] - 1 = 0
      BY <2>1, <2>3, TilesEmpty
    <3> QED
      BY <2>1, <2>2, <2>3, <3>1
  <2>4. CASE c # <<>>
    <3>1. begin[n] - 1 \in Nat \ {0}
      BY <2>1, <2>2, <2>4, TilesPop
    <3>2. Len(c) # 0
      BY <2>2, <2>4
    <3> QED
      BY <2>1, <2>2, <3>1, <3>2
  <2> QED
    BY <2>3, <2>4
<1> QED
  BY <1>1, <1>2

-----------------------------------------------------------------------------
\* What a subformula is, by the kind of its last token.
TokenKinds(leaves, unary, binary) ==
  leaves \cap unary = {} /\ leaves \cap binary = {} /\ unary \cap binary = {}

LEMMA BeginCases ==
  ASSUME NEW s, Len(s) \in Nat, NEW leaves, NEW unary, NEW binary, TokenKinds(leaves, unary, binary),
         NEW b, b = Begins(s, leaves, unary, binary), NEW j \in 0..(Len(s) - 1)
  PROVE  /\ b[0] = 0 /\ b[j] \in 0..j
         /\ s[j+1] \in leaves => b[j+1] = j+1
         /\ s[j+1] \in unary  => b[j+1] = b[j]
         /\ s[j+1] \in binary => b[j+1] = IF b[j] > 1 THEN b[b[j] - 1] ELSE 0
         /\ s[j+1] \notin leaves \cup unary \cup binary => b[j+1] = 0
<1> DEFINE n == j+1
<1>1. n \in 1..Len(s) /\ n - 1 = j /\ n \in 0..Len(s) /\ j \in 0..Len(s) /\ 0 \in 0..Len(s) /\ n # 0
  OBVIOUS
<1> HIDE DEF n
<1>2. b[n] = BeginAt(s, leaves, unary, binary, b, n) /\ b[j] \in 0..j /\ b[0] \in 0..0
  BY <1>1, BeginFacts
<1>3. b[j] \in 2..n <=> b[j] > 1
  BY <1>1, <1>2
<1>4. CASE s[n] \in leaves
  BY <1>1, <1>2, <1>4 DEF BeginAt, TokenKinds, n
<1>5. CASE s[n] \in unary
  BY <1>1, <1>2, <1>5 DEF BeginAt, TokenKinds, n
<1>6. CASE s[n] \in binary
  <2>1. b[n] = IF b[j] \in 2..n THEN b[b[j] - 1] ELSE 0
    BY <1>1, <1>2, <1>6 DEF BeginAt, TokenKinds
  <2> QED
    BY <1>2, <1>3, <1>6, <2>1 DEF TokenKinds, n
<1>7. CASE s[n] \notin leaves \cup unary \cup binary
  BY <1>1, <1>2, <1>7 DEF BeginAt, n
<1> QED
  BY <1>2, <1>4, <1>5, <1>6, <1>7 DEF n

LEMMA ValueCases ==
  ASSUME NEW s, Len(s) \in Nat, NEW leaf, NEW unary, NEW one, NEW binary, NEW two,
         TokenKinds(DOMAIN leaf, unary, binary),
         NEW b, b = Begins(s, DOMAIN leaf, unary, binary),
         NEW v, v = Values(s, leaf, unary, one, binary, two),
         NEW j \in 0..(Len(s) - 1)
  PROVE  /\ v[0] = {}
         /\ b[j+1] = 0 => v[j+1] = {}
         /\ b[j+1] # 0 =>
              /\ s[j+1] \in DOMAIN leaf => v[j+1] = leaf[s[j+1]]
              /\ s[j+1] \in unary  => v[j+1] = one[<<s[j+1], v[j]>>]
              /\ s[j+1] \in binary => v[j+1] = two[<<s[j+1], v[b[j] - 1], v[j]>>]
<1> DEFINE n == j+1
           V(k) == ValueAt(s, leaf, unary, one, binary, two, b, v, k)
<1>1. n \in 1..Len(s) /\ n - 1 = j /\ n \in 0..Len(s) /\ 0 \in 0..Len(s) /\ n # 0
  OBVIOUS
<1>2. v = [k \in 0..Len(s) |-> V(k)]
  BY ValuesUnfold DEF AreValues
<1> HIDE DEF n, V
<1>3. v[n] = V(n) /\ v[0] = V(0)
  BY <1>1, <1>2
<1>4. b[0] = 0
  BY BeginCases
<1>5. v[0] = {} /\ (b[n] = 0 => v[n] = {})
  BY <1>3, <1>4 DEF V, ValueAt
<1>6. ASSUME b[n] # 0, s[n] \in DOMAIN leaf PROVE v[n] = leaf[s[n]]
  BY <1>1, <1>3, <1>6 DEF V, ValueAt, TokenKinds
<1>7. ASSUME b[n] # 0, s[n] \in unary PROVE v[n] = one[<<s[n], v[j]>>]
  BY <1>1, <1>3, <1>7 DEF V, ValueAt, TokenKinds
<1>8. ASSUME b[n] # 0, s[n] \in binary PROVE v[n] = two[<<s[n], v[b[j] - 1], v[j]>>]
  BY <1>1, <1>3, <1>8 DEF V, ValueAt, TokenKinds
<1> QED
  BY <1>5, <1>6, <1>7, <1>8 DEF n

\* A token that ends no subformula makes the whole no formula.
LEMMA Stuck ==
  ASSUME NEW s, Len(s) \in Nat, NEW leaves, NEW unary, NEW binary,
         NEW n \in 1..Len(s), Begins(s, leaves, unary, binary)[n] = 0
  PROVE  ~IsPostfix(s, leaves, unary, binary)
<1>1. Len(s) \in 0..Len(s)
  OBVIOUS
<1> SUFFICES ASSUME Begins(s, leaves, unary, binary)[Len(s)] = 1 PROVE FALSE
  BY DEF IsPostfix
<1>2. Begins(s, leaves, unary, binary)[n] >= 1
  BY <1>1, InnerBegins
<1> QED
  BY <1>2

\* What a machine with a stack finds there when it reads an operator.
Beneath(d) == SubSeq(d, 1, Len(d) - 1)

LEMMA TilesBelow ==
  ASSUME NEW b, NEW v, NEW X, NEW d \in Seq(X), d # <<>>, b[0] = 0, NEW j, Tiles(b, v, d, j)
  PROVE  /\ j \in Nat \ {0} /\ b[j] \in Nat \ {0} /\ d[Len(d)] = v[j]
         /\ Beneath(d) \in Seq(X) /\ Tiles(b, v, Beneath(d), b[j] - 1)
<1>1. /\ j \in Nat \ {0} /\ b[j] \in Nat \ {0} /\ d[Len(d)] = v[j]
      /\ Tiles(b, v, SubSeq(d, 1, Len(d) - 1), b[j] - 1)
  BY TilesPop
<1>2. SubSeq(d, 1, Len(d) - 1) \in Seq(X)
  BY Shortened
<1> QED
  BY <1>1, <1>2 DEF Beneath

LEMMA TilesUnary ==
  ASSUME NEW b, NEW v, NEW X, NEW d \in Seq(X), NEW j, Tiles(b, v, d, j), b[0] = 0,
         NEW n, b[n] = b[j]
  PROVE  /\ d = <<>> => b[n] = 0
         /\ d # <<>> => /\ b[n] \in Nat \ {0} /\ d[Len(d)] = v[j]
                        /\ Beneath(d) \in Seq(X) /\ Tiles(b, v, Beneath(d), b[n] - 1)
<1>1. CASE d = <<>>
  BY <1>1, TilesEmpty
<1>2. CASE d # <<>>
  <2>1. /\ j \in Nat \ {0} /\ b[j] \in Nat \ {0} /\ d[Len(d)] = v[j]
        /\ Beneath(d) \in Seq(X) /\ Tiles(b, v, Beneath(d), b[j] - 1)
    BY <1>2, TilesBelow
  <2> QED
    BY <1>2, <2>1
<1> QED
  BY <1>1, <1>2

\* The subformula that a binary operator ends begins with its first operand.
Joins(b, j, n) == b[n] = IF b[j] > 1 THEN b[b[j] - 1] ELSE 0

\* All that the n-th token says of the subformulas.
LEMMA CasesAt ==
  ASSUME NEW s, Len(s) \in Nat, NEW leaf, NEW unary, NEW one, NEW binary, NEW two,
         TokenKinds(DOMAIN leaf, unary, binary),
         NEW b, b = Begins(s, DOMAIN leaf, unary, binary),
         NEW v, v = Values(s, leaf, unary, one, binary, two),
         NEW j \in 0..(Len(s) - 1), NEW n, n = j + 1, NEW t, t = s[n]
  PROVE  /\ b[0] = 0 /\ b[j] \in 0..j
         /\ t \in DOMAIN leaf => b[n] = n /\ v[n] = leaf[t]
         /\ t \in unary => b[n] = b[j] /\ (b[n] # 0 => v[n] = one[<<t, v[j]>>])
         /\ t \in binary => /\ Joins(b, j, n)
                            /\ b[n] # 0 => v[n] = two[<<t, v[b[j] - 1], v[j]>>]
         /\ t \notin DOMAIN leaf \cup unary \cup binary => b[n] = 0
         /\ b[n] = 0 => ~IsPostfix(s, DOMAIN leaf, unary, binary)
<1>1. /\ b[0] = 0 /\ b[j] \in 0..j
      /\ s[j+1] \in DOMAIN leaf => b[j+1] = j+1
      /\ s[j+1] \in unary  => b[j+1] = b[j]
      /\ s[j+1] \in binary => b[j+1] = IF b[j] > 1 THEN b[b[j] - 1] ELSE 0
      /\ s[j+1] \notin DOMAIN leaf \cup unary \cup binary => b[j+1] = 0
  BY BeginCases
<1>2. /\ b[j+1] = 0 => v[j+1] = {}
      /\ b[j+1] # 0 =>
           /\ s[j+1] \in DOMAIN leaf => v[j+1] = leaf[s[j+1]]
           /\ s[j+1] \in unary  => v[j+1] = one[<<s[j+1], v[j]>>]
           /\ s[j+1] \in binary => v[j+1] = two[<<s[j+1], v[b[j] - 1], v[j]>>]
  BY ValueCases
<1>3. b[n] = 0 => ~IsPostfix(s, DOMAIN leaf, unary, binary)
  <2>1. n \in 1..Len(s)
    OBVIOUS
  <2> QED
    BY <2>1, Stuck
<1>4. n # 0
  OBVIOUS
<1> QED
  BY <1>1, <1>2, <1>3, <1>4 DEF Joins

LEMMA TilesBinary ==
  ASSUME NEW b, NEW v, NEW X, NEW d \in Seq(X), NEW j, Tiles(b, v, d, j), b[0] = 0,
         NEW n, Joins(b, j, n)
  PROVE  /\ d = <<>> \/ Beneath(d) = <<>> => b[n] = 0
         /\ d # <<>> /\ Beneath(d) # <<>> =>
              /\ b[n] \in Nat \ {0} /\ d[Len(d)] = v[j]
              /\ Beneath(d)[Len(Beneath(d))] = v[b[j] - 1]
              /\ Beneath(Beneath(d)) \in Seq(X) /\ Tiles(b, v, Beneath(Beneath(d)), b[n] - 1)
<1>1. CASE d = <<>>
  BY <1>1, TilesEmpty DEF Joins
<1>2. CASE d # <<>>
  <2> DEFINE c == Beneath(d)
  <2>1. /\ j \in Nat \ {0} /\ b[j] \in Nat \ {0} /\ d[Len(d)] = v[j]
        /\ c \in Seq(X) /\ Tiles(b, v, c, b[j] - 1)
    BY <1>2, TilesBelow
  <2> HIDE DEF c
  <2>2. CASE c = <<>>
    <3>1. b[j] - 1 = 0
      BY <2>1, <2>2, TilesEmpty
    <3>2. ~(b[j] > 1)
      BY <2>1, <3>1
    <3> QED
      BY <1>2, <2>2, <3>2 DEF c, Joins
  <2>3. CASE c # <<>>
    <3> DEFINE k == b[j] - 1
    <3>1. Tiles(b, v, c, k)
      BY <2>1
    <3> HIDE DEF k
    <3>2. /\ k \in Nat \ {0} /\ b[k] \in Nat \ {0} /\ c[Len(c)] = v[k]
          /\ Beneath(c) \in Seq(X) /\ Tiles(b, v, Beneath(c), b[k] - 1)
      BY <2>1, <2>3, <3>1, TilesBelow
    <3>3. b[n] = b[k]
      BY <2>1, <3>2 DEF k, Joins
    <3> QED
      BY <1>2, <2>1, <2>3, <3>2, <3>3 DEF k, c
  <2> QED
    BY <2>2, <2>3
<1> QED
  BY <1>1, <1>2

-----------------------------------------------------------------------------
\* The topmost operand, null when there is none.
Top(d, null) == IF d # <<>> THEN d[Len(d)] ELSE null

\* A unary operator found no operand and pushed null, which is under all that
\* came later.
OnNull(d, null) == d # <<>> /\ d[1] = null /\ \A m \in 2..Len(d) : d[m] # null

LEMMA BeneathFacts ==
  ASSUME NEW X, NEW d \in Seq(X)
  PROVE  /\ Len(d) \in Nat
         /\ d = <<>> => Beneath(d) = <<>>
         /\ d # <<>> => Len(Beneath(d)) = Len(d) - 1
         /\ Beneath(d) \in Seq(X) /\ Len(Beneath(d)) \in Nat /\ Len(Beneath(d)) <= Len(d)
         /\ \A m \in 1..Len(Beneath(d)) : Beneath(d)[m] = d[m]
<1>0. Len(d) \in Nat
  OBVIOUS
<1>1. CASE d = <<>>
  <2>1. Beneath(d) = <<>>
    <3>1. Len(d) = 0
      BY <1>1
    <3> DEFINE n == Len(d) - 1
    <3>2. n \in Int /\ n < 1
      BY <3>1
    <3> HIDE DEF n
    <3>3. SubSeq(d, 1, n) = <<>>
      BY <3>2, SubSeqEmpty
    <3> QED
      BY <3>3 DEF Beneath, n
  <2>2. <<>> \in Seq(X) /\ Len(<<>>) = 0 /\ Len(<<>>) <= Len(<<>>)
    OBVIOUS
  <2>3. \A m \in 1..Len(Beneath(d)) : Beneath(d)[m] = d[m]
    BY <1>1, <2>1
  <2> QED
    BY <1>1, <2>1, <2>2, <2>3
<1>2. CASE d # <<>>
  <2>1. /\ Len(d) \in Nat \ {0} /\ Beneath(d) \in Seq(X) /\ Len(Beneath(d)) = Len(d) - 1
        /\ \A m \in 1..(Len(d) - 1) : Beneath(d)[m] = d[m]
    BY <1>2, Shortened DEF Beneath
  <2> QED
    BY <1>2, <2>1
<1> QED
  BY <1>1, <1>2

\* A null under everything stays there, whatever comes off or on.
LEMMA BeneathOnNull ==
  ASSUME NEW X, NEW null, NEW d \in Seq(X), OnNull(d, null)
  PROVE  /\ Top(d, null) = null => Beneath(d) = <<>>
         /\ Top(d, null) # null => OnNull(Beneath(d), null)
<1>1. /\ Len(d) \in Nat /\ Len(Beneath(d)) = Len(d) - 1 /\ Len(d) # 0
      /\ Beneath(d) \in Seq(X) /\ d # <<>>
      /\ \A m \in 1..Len(Beneath(d)) : Beneath(d)[m] = d[m]
  BY BeneathFacts DEF OnNull
<1>2. ASSUME Top(d, null) = null PROVE Beneath(d) = <<>>
  <2>1. d[Len(d)] = null
    BY <1>1, <1>2 DEF Top
  <2>2. ~(Len(d) \in 2..Len(d))
    BY <2>1 DEF OnNull
  <2>3. Len(Beneath(d)) = 0
    BY <1>1, <2>2
  <2> QED
    BY <1>1, <2>3
<1>3. ASSUME Top(d, null) # null PROVE OnNull(Beneath(d), null)
  <2>1. Len(d) # 1
    BY <1>3 DEF OnNull, Top
  <2>2. Beneath(d) # <<>>
    <3>1. Len(Beneath(d)) # 0
      BY <1>1, <2>1
    <3> QED
      BY <3>1
  <2>3. Beneath(d)[1] = null /\ \A m \in 2..Len(Beneath(d)) : Beneath(d)[m] # null
    BY <1>1, <2>1 DEF OnNull
  <2> QED
    BY <2>2, <2>3 DEF OnNull
<1> QED
  BY <1>2, <1>3

LEMMA AppendOnNull ==
  ASSUME NEW X, NEW null, NEW c \in Seq(X), NEW node \in X,
         (OnNull(c, null) /\ node # null) \/ (c = <<>> /\ node = null)
  PROVE  OnNull(Append(c, node), null)
<1>1. /\ Append(c, node) # <<>> /\ Len(c) \in Nat /\ Len(Append(c, node)) = Len(c) + 1
      /\ Append(c, node)[Len(c) + 1] = node /\ \A m \in 1..Len(c) : Append(c, node)[m] = c[m]
  BY AppendProperties
<1> DEFINE a == Append(c, node)
<1> HIDE DEF a
<1>2. CASE OnNull(c, null) /\ node # null
  <2>1. Len(c) # 0 /\ a[1] = null
    BY <1>1, <1>2 DEF OnNull, a
  <2>2. ASSUME NEW m \in 2..Len(a) PROVE a[m] # null
    BY <1>1, <1>2, <2>1 DEF OnNull, a
  <2> QED
    BY <1>1, <2>1, <2>2 DEF OnNull, a
<1>3. CASE c = <<>> /\ node = null
  <2>1. Len(c) = 0
    BY <1>3
  <2> QED
    BY <1>1, <1>3, <2>1 DEF OnNull, a
<1> QED
  BY <1>2, <1>3

\* The operand of a unary operator and what is under it.  d is a stack after j
\* tokens, the operator the n-th one.
LEMMA UnaryStack ==
  ASSUME NEW X, NEW null, null \notin X, NEW d \in Seq({null} \cup X),
         NEW b, NEW v, NEW j, NEW n, b[0] = 0, b[n] = b[j]
  PROVE  /\ Top(d, null) \in {null} \cup X
         /\ Beneath(d) \in Seq({null} \cup X) /\ Len(Beneath(d)) <= Len(d)
         /\ d \in Seq(X) /\ Tiles(b, v, d, j) =>
              /\ Top(d, null) = null => b[n] = 0 /\ Beneath(d) = <<>>
              /\ Top(d, null) # null =>
                   /\ Top(d, null) = v[j] /\ Beneath(d) \in Seq(X)
                   /\ b[n] \in Nat \ {0} /\ Tiles(b, v, Beneath(d), b[n] - 1)
         /\ OnNull(d, null) =>
              /\ Top(d, null) = null => Beneath(d) = <<>>
              /\ Top(d, null) # null => OnNull(Beneath(d), null)
<1>1. /\ Beneath(d) \in Seq({null} \cup X) /\ Len(Beneath(d)) <= Len(d)
      /\ d = <<>> => Beneath(d) = <<>>
  BY BeneathFacts
<1>2. Top(d, null) \in {null} \cup X
  BY DEF Top
<1>3. ASSUME d \in Seq(X), Tiles(b, v, d, j)
      PROVE  /\ Top(d, null) = null => b[n] = 0 /\ Beneath(d) = <<>>
             /\ Top(d, null) # null =>
                  /\ Top(d, null) = v[j] /\ Beneath(d) \in Seq(X)
                  /\ b[n] \in Nat \ {0} /\ Tiles(b, v, Beneath(d), b[n] - 1)
  <2>1. /\ d = <<>> => b[n] = 0
        /\ d # <<>> => /\ b[n] \in Nat \ {0} /\ d[Len(d)] = v[j]
                       /\ Beneath(d) \in Seq(X) /\ Tiles(b, v, Beneath(d), b[n] - 1)
    BY <1>3, TilesUnary
  <2>2. d # <<>> => d[Len(d)] \in X
    BY <1>3
  <2>3. Top(d, null) = null <=> d = <<>>
    BY <2>2 DEF Top
  <2>4. CASE d = <<>>
    BY <1>1, <2>1, <2>3, <2>4
  <2>5. CASE d # <<>>
    BY <2>1, <2>3, <2>5 DEF Top
  <2> QED
    BY <2>4, <2>5
<1>4. OnNull(d, null) =>
        /\ Top(d, null) = null => Beneath(d) = <<>>
        /\ Top(d, null) # null => OnNull(Beneath(d), null)
  BY BeneathOnNull
<1> QED
  BY <1>1, <1>2, <1>3, <1>4

\* The operands of a binary operator, likewise.
LEMMA BinaryStack ==
  ASSUME NEW X, NEW null, null \notin X, NEW d \in Seq({null} \cup X),
         NEW b, NEW v, NEW j, NEW n, b[0] = 0, Joins(b, j, n)
  PROVE  /\ Top(d, null) \in {null} \cup X /\ Top(Beneath(d), null) \in {null} \cup X
         /\ Beneath(Beneath(d)) \in Seq({null} \cup X) /\ Len(Beneath(Beneath(d))) <= Len(d)
         /\ d \in Seq(X) /\ Tiles(b, v, d, j) =>
              /\ Top(d, null) = null \/ Top(Beneath(d), null) = null => b[n] = 0
              /\ Top(d, null) # null /\ Top(Beneath(d), null) # null =>
                   /\ Top(d, null) = v[j] /\ Top(Beneath(d), null) = v[b[j] - 1]
                   /\ Beneath(Beneath(d)) \in Seq(X)
                   /\ b[n] \in Nat \ {0} /\ Tiles(b, v, Beneath(Beneath(d)), b[n] - 1)
         /\ OnNull(d, null) /\ Top(d, null) # null /\ Top(Beneath(d), null) # null =>
              OnNull(Beneath(Beneath(d)), null)
<1>0. PICK m : m = Beneath(d)
  OBVIOUS
<1> DEFINE c == Beneath(m)
<1>1. /\ m \in Seq({null} \cup X) /\ Len(m) <= Len(d) /\ Len(d) \in Nat /\ Len(m) \in Nat
      /\ d = <<>> => m = <<>>
  BY <1>0, BeneathFacts
<1>2. c \in Seq({null} \cup X) /\ Len(c) <= Len(m) /\ Len(c) \in Nat
  BY <1>1, BeneathFacts
<1>3. Top(d, null) \in {null} \cup X /\ Top(m, null) \in {null} \cup X /\ Len(c) <= Len(d)
  BY <1>1, <1>2 DEF Top
<1>4. ASSUME d \in Seq(X), Tiles(b, v, d, j)
      PROVE  /\ Top(d, null) = null \/ Top(m, null) = null => b[n] = 0
             /\ Top(d, null) # null /\ Top(m, null) # null =>
                  /\ Top(d, null) = v[j] /\ Top(m, null) = v[b[j] - 1] /\ c \in Seq(X)
                  /\ b[n] \in Nat \ {0} /\ Tiles(b, v, c, b[n] - 1)
  <2>1. /\ d = <<>> \/ Beneath(d) = <<>> => b[n] = 0
        /\ d # <<>> /\ Beneath(d) # <<>> =>
             /\ b[n] \in Nat \ {0} /\ d[Len(d)] = v[j]
             /\ Beneath(d)[Len(Beneath(d))] = v[b[j] - 1]
             /\ Beneath(Beneath(d)) \in Seq(X) /\ Tiles(b, v, Beneath(Beneath(d)), b[n] - 1)
    BY <1>4, TilesBinary
  <2>2. m \in Seq(X)
    BY <1>0, <1>4, BeneathFacts
  <2>3. (d # <<>> => d[Len(d)] \in X) /\ (m # <<>> => m[Len(m)] \in X)
    BY <1>4, <2>2
  <2>4. Top(d, null) = null \/ Top(m, null) = null <=> d = <<>> \/ m = <<>>
    BY <1>1, <2>3 DEF Top
  <2>5. CASE d = <<>> \/ m = <<>>
    BY <1>0, <2>1, <2>4, <2>5
  <2>6. CASE d # <<>> /\ m # <<>>
    BY <1>0, <2>1, <2>4, <2>6 DEF Top
  <2> QED
    BY <2>5, <2>6
<1>5. ASSUME OnNull(d, null), Top(d, null) # null, Top(m, null) # null PROVE OnNull(c, null)
  <2>1. OnNull(m, null)
    BY <1>0, <1>5, BeneathOnNull
  <2> QED
    BY <1>1, <1>5, <2>1, BeneathOnNull
<1> QED
  BY <1>0, <1>2, <1>3, <1>4, <1>5

-----------------------------------------------------------------------------
\* What the first n tokens mean depends on the leaves among them only.
LEMMA ValuesAgree ==
  ASSUME NEW s, Len(s) \in Nat, NEW f, NEW g, DOMAIN f = DOMAIN g,
         NEW unary, NEW one, NEW binary, NEW two, TokenKinds(DOMAIN f, unary, binary),
         NEW n \in 0..Len(s), \A j \in 1..n : s[j] \in DOMAIN f => f[s[j]] = g[s[j]],
         NEW v, v = Values(s, f, unary, one, binary, two),
         NEW w, w = Values(s, g, unary, one, binary, two)
  PROVE  \A j \in 0..n : v[j] = w[j]
<1>1. PICK b : b = Begins(s, DOMAIN f, unary, binary)
  OBVIOUS
<1> DEFINE S == {j \in Nat : j <= n /\ v[j] # w[j]}
<1>2. ASSUME NEW k \in S PROVE FALSE
  <2>1. PICK m \in S : \A l \in S : m <= l
    BY <1>2, HasLeast
  <2>2. m \in Nat /\ m <= n /\ v[m] # w[m] /\ \A l \in 0..(m-1) : v[l] = w[l]
    <3>1. \A l \in 0..(m-1) : l \in Nat /\ l <= n /\ ~(m <= l)
      BY <2>1
    <3> QED
      BY <2>1, <3>1
  <2> HIDE DEF S
  <2>3. m # 0
    <3>1. CASE Len(s) = 0
      <4>1. /\ AreValues(s, f, unary, one, binary, two, b, 0, v)
            /\ AreValues(s, g, unary, one, binary, two, b, 0, w) /\ b[0] = 0
        <5>1. b[0] \in 0..0
          BY <1>1, BeginFacts
        <5> QED
          BY <1>1, <3>1, <5>1, ValuesUnfold
      <4>2. v[0] = {} /\ w[0] = {}
        BY <4>1 DEF AreValues, ValueAt
      <4> QED
        BY <2>2, <4>2
    <3>2. CASE Len(s) # 0
      <4>1. 0 \in 0..(Len(s) - 1)
        BY <3>2
      <4>2. v[0] = {} /\ w[0] = {}
        BY <1>1, <4>1, ValueCases
      <4> QED
        BY <2>2, <4>2
    <3> QED
      BY <3>1, <3>2
  <2>4. PICK j \in 0..(Len(s) - 1) : m = j + 1
    <3>1. m - 1 \in 0..(Len(s) - 1) /\ m = (m - 1) + 1
      BY <2>2, <2>3
    <3> QED
      BY <3>1
  <2>5. /\ b[0] = 0 /\ b[j] \in 0..j
        /\ s[j+1] \in DOMAIN f => b[j+1] = j+1
        /\ s[j+1] \in unary  => b[j+1] = b[j]
        /\ s[j+1] \in binary => b[j+1] = IF b[j] > 1 THEN b[b[j] - 1] ELSE 0
        /\ s[j+1] \notin DOMAIN f \cup unary \cup binary => b[j+1] = 0
    BY <1>1, BeginCases
  <2>6. /\ v[0] = {}
        /\ b[j+1] = 0 => v[j+1] = {}
        /\ b[j+1] # 0 =>
             /\ s[j+1] \in DOMAIN f => v[j+1] = f[s[j+1]]
             /\ s[j+1] \in unary  => v[j+1] = one[<<s[j+1], v[j]>>]
             /\ s[j+1] \in binary => v[j+1] = two[<<s[j+1], v[b[j] - 1], v[j]>>]
    BY <1>1, ValueCases
  <2>7. /\ w[0] = {}
        /\ b[j+1] = 0 => w[j+1] = {}
        /\ b[j+1] # 0 =>
             /\ s[j+1] \in DOMAIN g => w[j+1] = g[s[j+1]]
             /\ s[j+1] \in unary  => w[j+1] = one[<<s[j+1], w[j]>>]
             /\ s[j+1] \in binary => w[j+1] = two[<<s[j+1], w[b[j] - 1], w[j]>>]
    <3>1. b = Begins(s, DOMAIN g, unary, binary) /\ TokenKinds(DOMAIN g, unary, binary)
      BY <1>1
    <3> QED
      BY <3>1, ValueCases
  <2>8. v[j] = w[j]
    BY <2>2, <2>4
  <2>9. CASE s[j+1] \in binary /\ b[j+1] # 0
    <3>1. b[j] \in Nat /\ b[j] > 1 /\ b[j] <= j
      BY <2>5, <2>9
    <3>2. v[b[j] - 1] = w[b[j] - 1]
      <4>1. b[j] - 1 \in 0..(m-1)
        BY <2>4, <3>1
      <4> QED
        BY <2>2, <4>1
    <3> QED
      BY <2>2, <2>4, <2>6, <2>7, <2>8, <2>9, <3>2
  <2>10. CASE s[j+1] \in DOMAIN f /\ b[j+1] # 0
    <3>1. f[s[j+1]] = g[s[j+1]]
      BY <2>2, <2>4, <2>10
    <3> QED
      BY <2>2, <2>4, <2>6, <2>7, <2>10, <3>1
  <2>11. CASE s[j+1] \in unary /\ b[j+1] # 0
    BY <2>2, <2>4, <2>6, <2>7, <2>8, <2>11
  <2>12. CASE b[j+1] = 0
    BY <2>2, <2>4, <2>6, <2>7, <2>12
  <2> QED
    BY <2>5, <2>9, <2>10, <2>11, <2>12
<1>3. \A j \in 0..n : j \in Nat /\ j <= n
  OBVIOUS
<1> QED
  BY <1>2, <1>3

\* A stack depends on what the tokens read so far mean only.
LEMMA TilesAgree ==
  ASSUME NEW b, NEW v, NEW w, NEW X, NEW d \in Seq(X), NEW j \in Nat, Tiles(b, v, d, j),
         \A k \in 0..j : b[k] \in 0..k /\ v[k] = w[k]
  PROVE  Tiles(b, w, d, j)
<1>1. PICK end \in [0..Len(d) -> Nat] :
        /\ end[0] = 0 /\ end[Len(d)] = j
        /\ \A m \in 1..Len(d) : b[end[m]] = end[m-1] + 1 /\ d[m] = v[end[m]]
  BY DEF Tiles
<1>2. Len(d) \in Nat
  OBVIOUS
<1> DEFINE S == {k \in Nat : k <= Len(d) => end[Len(d) - k] <= j}
<1>3. 0 \in S
  BY <1>1, <1>2
<1>4. ASSUME NEW k \in S PROVE k + 1 \in S
  <2> SUFFICES ASSUME k + 1 <= Len(d) PROVE end[Len(d) - (k + 1)] <= j
    OBVIOUS
  <2>1. PICK m \in 1..Len(d) : m = Len(d) - k
    BY <1>2
  <2>2. end[m] \in 0..j /\ end[m-1] \in Nat /\ b[end[m]] = end[m-1] + 1
    <3>1. m \in 0..Len(d) /\ m-1 \in 0..Len(d)
      BY <1>2
    <3>2. end[m] \in Nat /\ end[m-1] \in Nat
      BY <1>1, <3>1
    <3>3. end[m] <= j
      BY <1>2, <2>1
    <3>4. b[end[m]] = end[m-1] + 1
      BY <1>1
    <3> QED
      BY <3>2, <3>3, <3>4
  <2>3. b[end[m]] \in 0..end[m]
    BY <2>2
  <2>4. end[m-1] <= j
    BY <2>2, <2>3
  <2> QED
    BY <1>2, <2>1, <2>4
<1>5. S \in SUBSET Nat
  OBVIOUS
<1> HIDE DEF S
<1>6. S = Nat
  BY <1>3, <1>4, <1>5, SetInduction
<1>7. ASSUME NEW m \in 1..Len(d) PROVE end[m] \in 0..j
  <2>1. Len(d) - m \in Nat /\ Len(d) - m <= Len(d) /\ Len(d) - (Len(d) - m) = m
    BY <1>2
  <2>2. end[m] <= j
    BY <1>6, <2>1 DEF S
  <2> QED
    BY <1>1, <1>2, <2>2
<1>8. \A m \in 1..Len(d) : d[m] = w[end[m]]
  BY <1>1, <1>7
<1> QED
  BY <1>1, <1>8 DEF Tiles
=============================================================================
