--------------------------- MODULE TokeniseProofs ---------------------------
(***************************************************************************)
(* What TLC checks of tokenize and getUniqVars on texts of eight           *)
(* characters, proved for texts of any length.                             *)
(***************************************************************************)
EXTENDS MCTokenise, CommonLemmas

Char == STRING \ {NUL}

\* A token with room for it.
Short == {t \in Seq(Char) : Len(t) < MAX_VAR_LEN}

Below(S, n) == {p \in S : p < n}

\* The first loop has counted the words that begin before chr.
CountInv ==
  /\ string \in Seq(Char)
  /\ pc \in {"count", "split", "unique", "returned", "exit2"}
  /\ pc = "count" =>
       /\ chr \in 1..(Len(string) + 1)
       /\ outside <=> (chr > 1 => string[chr-1] = BLANK)
       /\ count = Cardinality(Below(WordStarts, chr))
  /\ pc # "count" => count = Cardinality(WordStarts)

\* Where strtok may go on: it has not left a word in the middle.
AtBoundary(p) == p \in 1..(Len(string) + 1) /\ (p \in 2..Len(string) => string[p-1] = BLANK)

\* The second loop has stored the words that begin before rest, except for the
\* one in its hands.
SplitInv ==
  /\ tokens \in Seq(Short)
  /\ pc = "count" => tokens = <<>>
  /\ pc = "split" =>
       /\ rest \in 1..(Len(string) + 1) /\ (rest \in 2..Len(string) => string[rest-1] = BLANK)
       /\ token = NoToken => /\ rest = Len(string) + 1
                             /\ Cardinality(Below(WordStarts, rest)) = Len(tokens)
       /\ token # NoToken => /\ token \in Seq(Char)
                             /\ Cardinality(Below(WordStarts, rest)) = Len(tokens) + 1
  /\ pc \in {"unique", "returned"} => rest = Len(string) + 1

\* They are those words, in order, and the word in hand is the last of them.
WordsInv ==
  /\ pc \in {"split", "unique", "returned"} =>
       \A p \in Below(WordStarts, rest) : Rank(p) <= Len(tokens) => tokens[Rank(p)] = WordAt(p)
  /\ pc = "split" /\ token # NoToken =>
       \E p \in Below(WordStarts, rest) : /\ token = WordAt(p)
                                         /\ \A q \in Below(WordStarts, rest) : q <= p
  /\ pc = "exit2" => \E p \in WordStarts : Len(WordAt(p)) >= MAX_VAR_LEN
  /\ pc \in {"unique", "returned"} => Len(tokens) = Cardinality(WordStarts)

\* The names collected are those among the tokens looked at, each once.
UniqueInv ==
  /\ seenVars \in Seq(Short)
  /\ next \in 1..(Len(tokens) + 1)
  /\ pc \in {"count", "split"} => next = 1
  /\ {seenVars[k] : k \in DOMAIN seenVars} = {tokens[k] : k \in 1..(next-1)} \ Operators
  /\ \A j, k \in DOMAIN seenVars : seenVars[j] = seenVars[k] => j = k
  /\ pc = "returned" => next = Len(tokens) + 1

IInv == CountInv /\ SplitInv /\ WordsInv /\ UniqueInv

-----------------------------------------------------------------------------
\* From every position of the text the next blank, the next character that is
\* none, or the end is found.
LEMMA NextFound ==
  ASSUME string \in Seq(Char), NEW p \in 1..(Len(string) + 1), NEW S
  PROVE  \E q \in p..(Len(string) + 1) : /\ q > Len(string) \/ string[q] \in S
                                         /\ \A k \in p..(q-1) : string[k] \notin S
<1> DEFINE Q == {q \in Nat : q \in p..(Len(string) + 1) /\ (q > Len(string) \/ string[q] \in S)}
<1>1. Len(string) \in Nat
  OBVIOUS
<1>2. Len(string) + 1 \in Q
  BY <1>1
<1>3. PICK q \in Q : \A k \in Q : q <= k
  BY <1>2, HasLeast
<1>4. ASSUME NEW k \in p..(q-1) PROVE string[k] \notin S
  <2>1. k \in Nat /\ k \in p..(Len(string) + 1) /\ k < q
    BY <1>1, <1>3
  <2> QED
    BY <1>3, <2>1
<1> QED
  BY <1>3, <1>4

LEMMA WordFound ==
  ASSUME string \in Seq(Char), NEW p \in 1..(Len(string) + 1)
  PROVE  /\ WordFrom(p) \in p..(Len(string) + 1)
         /\ WordFrom(p) > Len(string) \/ string[WordFrom(p)] # BLANK
         /\ \A k \in p..(WordFrom(p) - 1) : string[k] = BLANK
<1> DEFINE R(q) == /\ q > Len(string) \/ string[q] # BLANK
                   /\ \A k \in p..(q-1) : string[k] = BLANK
<1>1. PICK q \in p..(Len(string) + 1) : /\ q > Len(string) \/ string[q] \in Char \ {BLANK}
                                        /\ \A k \in p..(q-1) : string[k] \notin Char \ {BLANK}
  BY NextFound
<1>2. \A k \in p..(q-1) : string[k] \in Char
  BY <1>1
<1>3. R(q)
  BY <1>1, <1>2
<1>4. WordFrom(p) = CHOOSE n \in p..(Len(string) + 1) : R(n)
  BY DEF WordFrom
<1>5. \E n \in p..(Len(string) + 1) : R(n)
  BY <1>1, <1>3
<1> HIDE DEF R
<1>6. WordFrom(p) \in p..(Len(string) + 1) /\ R(WordFrom(p))
  BY <1>4, <1>5
<1> QED
  BY <1>6 DEF R

LEMMA BlankFound ==
  ASSUME string \in Seq(Char), NEW p \in 1..(Len(string) + 1)
  PROVE  /\ BlankFrom(p) \in p..(Len(string) + 1)
         /\ BlankFrom(p) > Len(string) \/ string[BlankFrom(p)] = BLANK
         /\ \A k \in p..(BlankFrom(p) - 1) : string[k] # BLANK
<1> DEFINE R(q) == /\ q > Len(string) \/ string[q] = BLANK
                   /\ \A k \in p..(q-1) : string[k] # BLANK
<1>1. PICK q \in p..(Len(string) + 1) : /\ q > Len(string) \/ string[q] \in {BLANK}
                                        /\ \A k \in p..(q-1) : string[k] \notin {BLANK}
  BY NextFound
<1>2. R(q)
  BY <1>1
<1>3. BlankFrom(p) = CHOOSE n \in p..(Len(string) + 1) : R(n)
  BY DEF BlankFrom
<1>4. \E n \in p..(Len(string) + 1) : R(n)
  BY <1>1, <1>2
<1> HIDE DEF R
<1>5. BlankFrom(p) \in p..(Len(string) + 1) /\ R(BlankFrom(p))
  BY <1>3, <1>4
<1> QED
  BY <1>5 DEF R

\* A word goes on until the blank behind it.
LEMMA WordIs ==
  ASSUME string \in Seq(Char), NEW p \in 1..Len(string), NEW q \in (p+1)..(Len(string) + 1),
         q > Len(string) \/ string[q] = BLANK, \A k \in p..(q-1) : string[k] # BLANK
  PROVE  WordAt(p) = SubSeq(string, p, q-1)
<1> DEFINE inside == {m \in p..Len(string) : \A k \in p..m : string[k] # BLANK}
           last == CHOOSE m \in inside : \A k \in inside : k <= m
<1>1. Len(string) \in Nat /\ q - 1 \in inside
  OBVIOUS
<1>2. \A m \in inside : m <= q - 1
  OBVIOUS
<1> HIDE DEF inside
<1>3. last \in inside /\ \A k \in inside : k <= last
  BY <1>1, <1>2
<1>4. inside \subseteq Nat
  BY <1>1 DEF inside
<1> HIDE DEF last
<1>5. last = q - 1
  BY <1>1, <1>2, <1>3, <1>4
<1> QED
  BY <1>5 DEF WordAt, last, inside

\* One call of strtok: the next word, and no other, is passed.
LEMMA StrtokStep ==
  ASSUME string \in Seq(Char), NEW p, AtBoundary(p), Strtok(p)
  PROVE  /\ rest' \in 1..(Len(string) + 1)
         /\ rest' \in 2..Len(string) => string[rest'-1] = BLANK
         /\ \/ /\ token' = NoToken /\ rest' = Len(string) + 1
               /\ Below(WordStarts, rest') = Below(WordStarts, p)
            \/ /\ token' # NoToken /\ token' \in Seq(Char)
               /\ \E s \in WordStarts : /\ s \notin Below(WordStarts, p) /\ s >= p
                                        /\ Below(WordStarts, rest') = Below(WordStarts, p) \cup {s}
                                        /\ token' = WordAt(s)
<1> DEFINE n == Len(string)
           start == WordFrom(p)
           end == BlankFrom(start)
<1>1. n \in Nat /\ DOMAIN string = 1..n /\ p \in 1..(n+1)
  BY DEF AtBoundary
<1>2. /\ start \in p..(n+1)
      /\ start > n \/ string[start] # BLANK
      /\ \A k \in p..(start-1) : string[k] = BLANK
  BY <1>1, WordFound
<1>3. CASE start > n
  <2>1. token' = NoToken /\ rest' = n + 1
    BY <1>1, <1>2, <1>3 DEF Strtok
  <2>2. start = n + 1
    BY <1>1, <1>2, <1>3
  <2>3. Below(WordStarts, n + 1) = Below(WordStarts, p)
    BY <1>1, <1>2, <2>2 DEF Below, WordStarts
  <2> QED
    BY <1>1, <2>1, <2>3
<1>4. CASE start <= n
  <2>1. start \in 1..n
    BY <1>1, <1>2, <1>4
  <2>2. /\ end \in start..(n+1)
        /\ end > n \/ string[end] = BLANK
        /\ \A k \in start..(end-1) : string[k] # BLANK
    BY <1>1, <2>1, BlankFound
  <2>3. end # start
    BY <1>2, <1>4, <2>1, <2>2
  <2> DEFINE last == IF end > n THEN end ELSE end + 1
  <2>4. token' = SubSeq(string, start, end - 1) /\ rest' = last
    BY <1>4, <2>1 DEF Strtok
  <2> HIDE DEF start, end, n
  <2>5. last \in 1..(n+1) /\ (last \in 2..n => string[last-1] = BLANK)
    BY <1>1, <2>1, <2>2
  <2>6. token' \in Seq(Char) /\ token'[1] \in Char
    <3>1. \A k \in start..(end-1) : string[k] \in Char
      BY <1>1, <2>1, <2>2 DEF n
    <3>2. /\ SubSeq(string, start, end-1) \in Seq(Char)
          /\ SubSeq(string, start, end-1)[1] = string[start]
      BY <1>1, <2>1, <2>2, <2>3, <3>1, SubSeqProperties
    <3> QED
      BY <2>1, <2>2, <2>3, <2>4, <3>1, <3>2
  <2>7. token' # NoToken
    BY <2>6 DEF NoToken, Char
  <2>8. start \in WordStarts /\ start \notin Below(WordStarts, p)
    <3>1. start > 1 => string[start-1] = BLANK
      BY <1>1, <1>2, <2>1 DEF AtBoundary, n
    <3> QED
      BY <1>1, <1>2, <2>1, <3>1 DEF WordStarts, Below
  <2>9. Below(WordStarts, last) = Below(WordStarts, p) \cup {start}
    <3>1. ASSUME NEW s \in WordStarts, s < last, s >= p PROVE s = start
      <4>1. s \in 1..n /\ string[s] # BLANK /\ (s > 1 => string[s-1] = BLANK)
        BY <1>1, <3>1 DEF WordStarts
      <4>2. s >= start
        BY <1>1, <1>2, <2>1, <3>1, <4>1
      <4>3. s < end
        BY <1>1, <2>1, <2>2, <3>1, <4>1
      <4>4. ASSUME s > start PROVE FALSE
        <5>1. s - 1 \in start..(end-1) /\ s > 1
          BY <2>1, <2>2, <4>1, <4>3, <4>4
        <5> QED
          BY <2>2, <4>1, <5>1
      <4> QED
        BY <2>1, <4>1, <4>2, <4>4
    <3>2. start < last /\ p <= last
      BY <1>1, <1>2, <2>1, <2>2, <2>3
    <3>3. \A s \in WordStarts : s \in Nat
      BY <1>1 DEF WordStarts
    <3>4. p \in Nat /\ last \in Nat
      BY <1>1, <2>5
    <3> HIDE DEF last
    <3>5. \A s \in WordStarts : s < last <=> s < p \/ s = start
      BY <2>8, <3>1, <3>2, <3>3, <3>4
    <3> QED
      BY <2>8, <3>5 DEF Below
  <2>10. token' = WordAt(start)
    BY <1>1, <2>1, <2>2, <2>3, <2>4, WordIs DEF n
  <2>11. start >= p
    BY <1>1, <1>2, <2>1
  <2> QED
    BY <2>4, <2>5, <2>6, <2>7, <2>8, <2>9, <2>10, <2>11 DEF n
<1> QED
  BY <1>1, <1>2, <1>3, <1>4

LEMMA InvInit == Init => IInv
<1> SUFFICES ASSUME Init PROVE IInv
  OBVIOUS
<1>1. string \in Seq(Char)
  BY Terminated DEF Init, Char
<1>2. Below(WordStarts, chr) = {}
  BY <1>1 DEF Init, Below, WordStarts
<1>3. CountInv
  <2>1. chr = 1 /\ chr \in 1..(Len(string) + 1) /\ outside = TRUE /\ count = 0 /\ pc = "count"
    BY <1>1 DEF Init
  <2>2. count = Cardinality(Below(WordStarts, chr))
    BY <1>2, <2>1, FS_EmptySet
  <2> QED
    BY <1>1, <2>1, <2>2 DEF CountInv
<1>4. SplitInv
  BY DEF Init, SplitInv
<1>5. UniqueInv
  BY DEF Init, UniqueInv
<1>6. WordsInv
  BY DEF Init, WordsInv
<1> QED
  BY <1>3, <1>4, <1>5, <1>6 DEF IInv

LEMMA StartsFinite ==
  ASSUME string \in Seq(Char), NEW n
  PROVE  IsFiniteSet(WordStarts) /\ IsFiniteSet(Below(WordStarts, n))
<1>1. WordStarts \subseteq 1..Len(string) /\ Len(string) \in Nat
  BY DEF WordStarts
<1>2. IsFiniteSet(1..Len(string))
  BY <1>1, UpTo
<1> QED
  BY <1>1, <1>2, FS_Subset DEF Below

\* The rank of a word counts the words up to it, and grows with its position.
LEMMA RankCounts ==
  ASSUME string \in Seq(Char), NEW n \in Nat, NEW p \in Below(WordStarts, n),
         \A q \in Below(WordStarts, n) : q <= p
  PROVE  Rank(p) = Cardinality(Below(WordStarts, n))
<1>1. \A q \in WordStarts : q \in Nat
  BY DEF WordStarts
<1>2. p \in Nat /\ p < n
  BY <1>1 DEF Below
<1>3. \A q \in WordStarts : q <= p <=> q < n
  BY <1>1, <1>2 DEF Below
<1> QED
  BY <1>3 DEF Rank, Below

LEMMA RankGrows ==
  ASSUME string \in Seq(Char), NEW p \in WordStarts, NEW q \in WordStarts, p < q
  PROVE  Rank(p) < Rank(q)
<1> DEFINE P == {m \in WordStarts : m <= p}
           Q == {m \in WordStarts : m <= q}
<1>1. \A m \in WordStarts : m \in Nat
  BY DEF WordStarts
<1>2. P \subseteq Q /\ q \in Q /\ q \notin P /\ Q \subseteq WordStarts
  BY <1>1
<1>3. IsFiniteSet(Q)
  BY <1>2, StartsFinite, FS_Subset
<1>4. Rank(p) = Cardinality(P) /\ Rank(q) = Cardinality(Q)
  BY DEF Rank
<1> HIDE DEF P, Q
<1>5. /\ Cardinality(P) <= Cardinality(Q) /\ (Cardinality(Q) = Cardinality(P) => Q = P)
      /\ IsFiniteSet(P)
  BY <1>2, <1>3, FS_Subset
<1>6. Cardinality(P) \in Nat /\ Cardinality(Q) \in Nat
  BY <1>3, <1>5, FS_CardinalityType
<1> QED
  BY <1>2, <1>4, <1>5, <1>6

LEMMA RankBounds ==
  ASSUME string \in Seq(Char), NEW p \in WordStarts
  PROVE  Rank(p) \in Nat \ {0} /\ Rank(p) <= Cardinality(WordStarts)
<1> DEFINE P == {m \in WordStarts : m <= p}
<1>1. P \subseteq WordStarts /\ p \in P /\ Rank(p) = Cardinality(P)
  BY DEF WordStarts, Rank
<1> HIDE DEF P
<1>2. IsFiniteSet(P) /\ Cardinality(P) <= Cardinality(WordStarts)
  BY <1>1, StartsFinite, FS_Subset
<1> QED
  BY <1>1, <1>2, FS_EmptySet, FS_CardinalityType

\* The word found behind p comes next in the order.
LEMMA NextInOrder ==
  ASSUME string \in Seq(Char), NEW p \in Nat, NEW q \in Nat, NEW s \in WordStarts, s >= p,
         Below(WordStarts, q) = Below(WordStarts, p) \cup {s}
  PROVE  /\ \A r \in Below(WordStarts, q) : r <= s
         /\ Rank(s) = Cardinality(Below(WordStarts, p)) + 1
<1>1. \A r \in WordStarts : r \in Nat
  BY DEF WordStarts
<1>2. s \in Below(WordStarts, q) /\ \A r \in Below(WordStarts, q) : r <= s
  BY <1>1 DEF Below
<1>3. s \notin Below(WordStarts, p) /\ IsFiniteSet(Below(WordStarts, p))
  <2>1. s \notin Below(WordStarts, p)
    BY <1>1 DEF Below
  <2> QED
    BY <2>1, StartsFinite
<1>4. Cardinality(Below(WordStarts, p) \cup {s}) = Cardinality(Below(WordStarts, p)) + 1
  BY <1>3, FS_AddElement
<1> QED
  BY <1>2, <1>4, RankCounts

\* None of this depends on anything but the text.
LEMMA TextSteady ==
  ASSUME string' = string
  PROVE  /\ WordStarts' = WordStarts
         /\ \A p : Rank(p)' = Rank(p) /\ WordAt(p)' = WordAt(p)
<1>1. WordStarts' = WordStarts
  BY DEF WordStarts
<1> QED
  BY <1>1 DEF Rank, WordAt

LEMMA CountCharInv == IInv /\ CountChar => IInv'
<1> SUFFICES ASSUME IInv, CountChar PROVE IInv'
  OBVIOUS
<1>0. /\ outside <=> (chr > 1 => string[chr-1] = BLANK)
      /\ outside' <=> (string[chr] = BLANK)
  BY DEF IInv, CountInv, CountChar
<1>1. /\ string \in Seq(Char) /\ Len(string) \in Nat /\ pc = "count" /\ pc' = "count"
      /\ chr \in 1..Len(string) /\ chr' = chr + 1
      /\ count = Cardinality(Below(WordStarts, chr))
      /\ count' = IF outside /\ string[chr] # BLANK THEN count + 1 ELSE count
      /\ UNCHANGED <<string, token, rest, tokens, seenVars, next>>
  BY DEF IInv, CountInv, CountChar
<1>2. WordStarts' = WordStarts /\ \A s \in WordStarts : s \in Nat
  BY <1>1 DEF WordStarts
<1>3. Below(WordStarts, chr + 1) = IF chr \in WordStarts THEN Below(WordStarts, chr) \cup {chr} ELSE Below(WordStarts, chr)
  BY <1>1, <1>2 DEF Below
<1>4. chr \in WordStarts <=> outside /\ string[chr] # BLANK
  <2>1. chr \in DOMAIN string /\ chr \in Nat
    BY <1>1
  <2>2. chr \in WordStarts <=> string[chr] # BLANK /\ (chr > 1 => string[chr-1] = BLANK)
    BY <2>1 DEF WordStarts
  <2> QED
    BY <1>0, <2>2
<1>5. chr \notin Below(WordStarts, chr) /\ IsFiniteSet(Below(WordStarts, chr))
  <2>1. chr \notin Below(WordStarts, chr)
    BY <1>1 DEF Below
  <2> QED
    BY <1>1, <2>1, StartsFinite
<1>6. count' = Cardinality(Below(WordStarts, chr + 1))
  BY <1>1, <1>3, <1>4, <1>5, FS_AddElement
<1>7. CountInv'
  <2>1. chr' \in 1..(Len(string) + 1) /\ chr' > 1 /\ chr' - 1 = chr
    BY <1>1
  <2> QED
    BY <1>0, <1>1, <1>2, <1>6, <2>1 DEF CountInv
<1>8. SplitInv' /\ UniqueInv'
  BY <1>1 DEF IInv, SplitInv, UniqueInv
<1>9. WordsInv'
  BY <1>1 DEF WordsInv
<1> QED
  BY <1>7, <1>8, <1>9 DEF IInv

LEMMA CountDoneInv == IInv /\ CountDone => IInv'
<1> SUFFICES ASSUME IInv, CountDone PROVE IInv'
  OBVIOUS
<1>1. /\ string \in Seq(Char) /\ Len(string) \in Nat /\ pc = "count" /\ pc' = "split"
      /\ chr = Len(string) + 1 /\ Strtok(1) /\ tokens = <<>> /\ tokens' = <<>>
      /\ count' = count /\ count = Cardinality(Below(WordStarts, chr))
      /\ UNCHANGED <<string, seenVars, next>>
  BY DEF IInv, CountInv, SplitInv, CountDone
<1>2. WordStarts' = WordStarts /\ Below(WordStarts, chr) = WordStarts /\ Below(WordStarts, 1) = {}
  BY <1>1 DEF WordStarts, Below
<1>3. CountInv'
  BY <1>1, <1>2 DEF CountInv
<1>4. AtBoundary(1)
  BY <1>1 DEF AtBoundary
<1>5. Len(tokens') = 0
  BY <1>1
<1>6. /\ token' = NoToken => Cardinality(Below(WordStarts, rest')) = Len(tokens')
      /\ token' # NoToken => Cardinality(Below(WordStarts, rest')) = Len(tokens') + 1
  <2>1. CASE Below(WordStarts, rest') = Below(WordStarts, 1) /\ token' = NoToken
    BY <1>1, <1>2, <1>5, <2>1, FS_EmptySet
  <2>2. ASSUME NEW s, Below(WordStarts, rest') = Below(WordStarts, 1) \cup {s}, token' # NoToken
        PROVE  Cardinality(Below(WordStarts, rest')) = Len(tokens') + 1
    <3>1. Below(WordStarts, rest') = {s}
      BY <1>2, <2>2
    <3>2. Cardinality({s}) = 1
      BY FS_Singleton
    <3> QED
      BY <1>5, <3>1, <3>2
  <2> QED
    BY <1>1, <1>4, <2>1, <2>2, StrtokStep
<1>8. SplitInv'
  BY <1>1, <1>2, <1>4, <1>6, StrtokStep DEF SplitInv
<1>7. UniqueInv'
  BY <1>1 DEF IInv, UniqueInv
<1>9. WordsInv'
  <2>1. rest' \in Nat /\ 1 \in Nat
    BY <1>1, <1>4, StrtokStep
  <2>2. \A p \in WordStarts : ~(Rank(p) <= Len(tokens'))
    BY <1>1, <1>5, RankBounds
  <2>3. token' # NoToken =>
          \E s \in Below(WordStarts, rest') : /\ token' = WordAt(s)
                                             /\ \A q \in Below(WordStarts, rest') : q <= s
    BY <1>1, <1>4, <2>1, StrtokStep, NextInOrder
  <2> QED
    BY <1>1, <1>2, <2>2, <2>3, TextSteady DEF WordsInv, Below
<1> QED
  BY <1>3, <1>7, <1>8, <1>9 DEF IInv

LEMMA StoreInv == IInv /\ Store => IInv'
<1> SUFFICES ASSUME IInv, Store PROVE IInv'
  OBVIOUS
<1>1. /\ string \in Seq(Char) /\ Len(string) \in Nat /\ pc = "split" /\ pc' = "split"
      /\ token # NoToken /\ token \in Seq(Char) /\ Len(token) < MAX_VAR_LEN
      /\ tokens' = Append(tokens, Copied(token, MAX_VAR_LEN))
      /\ tokens \in Seq(Short) /\ Len(tokens) \in Nat
      /\ Strtok(rest) /\ AtBoundary(rest)
      /\ Cardinality(Below(WordStarts, rest)) = Len(tokens) + 1
      /\ UNCHANGED <<string, count, seenVars, next>>
  BY DEF IInv, CountInv, SplitInv, Store, AtBoundary
<1>2. WordStarts' = WordStarts
  BY <1>1 DEF WordStarts
<1>3. CountInv'
  BY <1>1, <1>2 DEF IInv, CountInv
<1>4. token \in Short /\ tokens' = Append(tokens, token)
  BY <1>1 DEF Copied, Short
<1>5. /\ tokens' \in Seq(Short) /\ Len(tokens') = Len(tokens) + 1
      /\ \A k \in 1..Len(tokens) : tokens'[k] = tokens[k]
  BY <1>1, <1>4
<1>6. IsFiniteSet(Below(WordStarts, rest))
  BY <1>1, StartsFinite
<1>7. /\ token' = NoToken => Cardinality(Below(WordStarts, rest')) = Len(tokens')
      /\ token' # NoToken => Cardinality(Below(WordStarts, rest')) = Len(tokens') + 1
  <2>1. CASE Below(WordStarts, rest') = Below(WordStarts, rest) /\ token' = NoToken
    BY <1>1, <1>5, <2>1
  <2>2. ASSUME NEW s, s \notin Below(WordStarts, rest), token' # NoToken,
               Below(WordStarts, rest') = Below(WordStarts, rest) \cup {s}
        PROVE  Cardinality(Below(WordStarts, rest')) = Len(tokens') + 1
    BY <1>1, <1>5, <1>6, <2>2, FS_AddElement
  <2> QED
    BY <1>1, <2>1, <2>2, StrtokStep
<1>8. SplitInv'
  BY <1>1, <1>2, <1>5, <1>7, StrtokStep DEF SplitInv
<1>9. UniqueInv'
  <2>1. next = 1 /\ next \in 1..(Len(tokens') + 1)
    BY <1>1, <1>5 DEF IInv, UniqueInv
  <2>2. {tokens[k] : k \in 1..(next-1)} = {} /\ {tokens'[k] : k \in 1..(next-1)} = {}
    BY <2>1
  <2>3. /\ seenVars \in Seq(Short)
        /\ {seenVars[k] : k \in DOMAIN seenVars} = {} \ Operators
        /\ \A j, k \in DOMAIN seenVars : seenVars[j] = seenVars[k] => j = k
    BY <2>2 DEF IInv, UniqueInv
  <2> QED
    BY <1>1, <2>1, <2>2, <2>3 DEF UniqueInv
<1>10. WordsInv'
  <2>1. rest \in Nat /\ rest' \in Nat
    <3>1. rest \in 1..(Len(string) + 1)
      BY <1>1 DEF AtBoundary
    <3>2. rest' \in 1..(Len(string) + 1)
      BY <1>1, StrtokStep
    <3> QED
      BY <1>1, <3>1, <3>2
  <2>2. PICK m \in Below(WordStarts, rest) : /\ token = WordAt(m)
                                             /\ \A q \in Below(WordStarts, rest) : q <= m
    BY <1>1 DEF IInv, WordsInv
  <2>3. Rank(m) = Len(tokens) + 1
    BY <1>1, <2>1, <2>2, RankCounts
  <2>4. ASSUME NEW p \in Below(WordStarts, rest), Rank(p) <= Len(tokens) + 1
        PROVE  tokens'[Rank(p)] = WordAt(p)
    <3>1. p \in WordStarts /\ m \in WordStarts /\ p \in Nat /\ m \in Nat /\ p <= m
      <4>1. p \in WordStarts /\ m \in WordStarts
        BY DEF Below
      <4>2. \A q \in WordStarts : q \in Nat
        BY <1>1 DEF WordStarts
      <4> QED
        BY <2>2, <4>1, <4>2
    <3>2. CASE p = m
      BY <1>1, <1>4, <2>2, <2>3, <3>2
    <3>3. CASE p < m
      <4>1. Rank(p) \in 1..Len(tokens)
        BY <1>1, <2>3, <3>1, <3>3, RankGrows, RankBounds
      <4>2. tokens[Rank(p)] = WordAt(p)
        BY <1>1, <4>1 DEF IInv, WordsInv
      <4> QED
        BY <1>5, <4>1, <4>2
    <3> QED
      BY <3>1, <3>2, <3>3
  <2>5. CASE token' = NoToken /\ Below(WordStarts, rest') = Below(WordStarts, rest)
    <3>1. \A p \in Below(WordStarts, rest') : Rank(p) <= Len(tokens') => tokens'[Rank(p)] = WordAt(p)
      BY <1>5, <2>4, <2>5
    <3> QED
      BY <1>1, <1>2, <2>5, <3>1, TextSteady DEF WordsInv
  <2>6. ASSUME NEW s \in WordStarts, s >= rest, token' = WordAt(s),
               Below(WordStarts, rest') = Below(WordStarts, rest) \cup {s}
        PROVE  WordsInv'
    <3>1. /\ \A r \in Below(WordStarts, rest') : r <= s
          /\ Rank(s) = Len(tokens) + 2
      BY <1>1, <2>1, <2>6, NextInOrder
    <3>2. \A p \in Below(WordStarts, rest') : Rank(p) <= Len(tokens') => tokens'[Rank(p)] = WordAt(p)
      <4>1. SUFFICES ASSUME NEW p \in Below(WordStarts, rest'), Rank(p) <= Len(tokens')
                     PROVE  tokens'[Rank(p)] = WordAt(p)
        OBVIOUS
      <4>2. p # s
        BY <1>1, <1>5, <3>1, <4>1
      <4> QED
        BY <1>5, <2>4, <2>6, <4>1, <4>2
    <3>3. \E r \in Below(WordStarts, rest') : /\ token' = WordAt(r)
                                             /\ \A q \in Below(WordStarts, rest') : q <= r
      BY <2>6, <3>1
    <3> QED
      BY <1>1, <1>2, <3>2, <3>3, TextSteady DEF WordsInv
  <2> QED
    BY <1>1, <2>5, <2>6, StrtokStep
<1> QED
  BY <1>3, <1>8, <1>9, <1>10 DEF IInv

\* strtok and the count agree: there is a word in hand just as long as fewer
\* have been stored than were counted.
LEMMA CountsAgree ==
  ASSUME IInv, pc = "split"
  PROVE  /\ Len(tokens) < count <=> token # NoToken
         /\ token = NoToken => rest = Len(string) + 1
<1>1. /\ string \in Seq(Char) /\ count = Cardinality(WordStarts) /\ Len(tokens) \in Nat
      /\ Len(string) \in Nat /\ DOMAIN string = 1..Len(string)
  BY DEF IInv, CountInv, SplitInv
<1>2. IsFiniteSet(WordStarts) /\ count \in Nat
  BY <1>1, StartsFinite, FS_CardinalityType
<1>3. CASE token = NoToken
  <2>1. rest = Len(string) + 1 /\ Cardinality(Below(WordStarts, rest)) = Len(tokens)
    BY <1>3 DEF IInv, SplitInv
  <2>2. Below(WordStarts, rest) = WordStarts
    BY <1>1, <2>1 DEF Below, WordStarts
  <2> QED
    BY <1>1, <1>2, <1>3, <2>1, <2>2
<1>4. CASE token # NoToken
  <2>1. Cardinality(Below(WordStarts, rest)) = Len(tokens) + 1
    BY <1>4 DEF IInv, SplitInv
  <2>2. Below(WordStarts, rest) \subseteq WordStarts
    BY DEF Below
  <2>3. Cardinality(Below(WordStarts, rest)) <= count
    BY <1>1, <1>2, <2>2, FS_Subset
  <2> QED
    BY <1>1, <1>2, <1>4, <2>1, <2>3
<1> QED
  BY <1>3, <1>4

LEMMA SplitEndInv == IInv /\ (TooLong \/ SplitDone) => IInv'
<1> SUFFICES ASSUME IInv, TooLong \/ SplitDone PROVE IInv'
  OBVIOUS
<1>1. /\ pc = "split" /\ pc' \in {"unique", "exit2"}
      /\ UNCHANGED <<string, chr, outside, count, token, rest, tokens, seenVars, next>>
  BY DEF TooLong, SplitDone
<1>2. pc' = "unique" => rest = Len(string) + 1
  <2> SUFFICES ASSUME SplitDone PROVE rest = Len(string) + 1
    BY DEF TooLong
  <2>1. Len(tokens) = count /\ Len(tokens) \in Nat
    BY DEF SplitDone, IInv, SplitInv
  <2> QED
    BY <1>1, <2>1, CountsAgree
<1>3. WordStarts' = WordStarts
  BY <1>1 DEF WordStarts
<1>4. CountInv'
  BY <1>1, <1>3 DEF IInv, CountInv
<1>5. SplitInv'
  BY <1>1, <1>2 DEF IInv, SplitInv
<1>6. UniqueInv'
  BY <1>1 DEF IInv, UniqueInv
<1>7. pc' = "exit2" => \E p \in WordStarts : Len(WordAt(p)) >= MAX_VAR_LEN
  <2> SUFFICES ASSUME TooLong PROVE \E p \in WordStarts : Len(WordAt(p)) >= MAX_VAR_LEN
    BY <1>1 DEF SplitDone
  <2>1. token # NoToken /\ Len(token) >= MAX_VAR_LEN
    BY DEF TooLong
  <2>2. PICK p \in Below(WordStarts, rest) : token = WordAt(p)
    BY <1>1, <2>1 DEF IInv, WordsInv
  <2> QED
    BY <2>1, <2>2 DEF Below
<1>8. pc' = "unique" => Len(tokens) = Cardinality(WordStarts)
  BY <1>1 DEF IInv, CountInv, SplitDone, TooLong
<1>9. WordsInv'
  <2>1. \A p \in Below(WordStarts, rest) : Rank(p) <= Len(tokens) => tokens[Rank(p)] = WordAt(p)
    BY <1>1 DEF IInv, WordsInv
  <2> QED
    BY <1>1, <1>3, <1>7, <1>8, <2>1, TextSteady DEF WordsInv
<1> QED
  BY <1>4, <1>5, <1>6, <1>9 DEF IInv

\* The strings, with NUL and the letters of the operators named: the provers do
\* not know of a literal that it is in STRING.
Byte == STRING \cup {NUL} \cup {"+", ".", "^", "!", "=", "E", "A", "X", "F", "G", "U"}

LEMMA AppendSame ==
  ASSUME NEW s \in Seq(Byte), NEW t \in Seq(Byte), NEW c \in Byte,
         Append(s, c) = Append(t, c)
  PROVE  s = t
<1>1. Len(s) + 1 = Len(t) + 1
  BY AppendProperties
<1>2. Len(s) = Len(t)
  BY <1>1
<1>3. \A k \in 1..Len(s) : s[k] = t[k]
  BY <1>2, AppendProperties
<1> QED
  BY <1>2, <1>3, SeqEqual

\* Names that fit their buffers are equal when as much as fits is equal.
LEMMA NamesCompared ==
  ASSUME NEW s \in Short, NEW t \in Short
  PROVE  SameUpTo(s, t, MAX_VAR_LEN) <=> s = t
<1>1. s \in Seq(Byte) /\ t \in Seq(Byte) /\ Len(s) < MAX_VAR_LEN /\ Len(t) < MAX_VAR_LEN
  BY DEF Short, Char, Byte
<1>2. NUL \in Byte
  BY DEF Byte
<1>3. Append(s, NUL) = Append(t, NUL) => s = t
  BY <1>1, <1>2, AppendSame
<1> QED
  BY <1>1, <1>3 DEF SameUpTo, Compared

\* A token is taken for an operator only if it is one: a longer token differs
\* from the operator where that has its NUL.
LEMMA OperatorsCompared ==
  ASSUME NEW t \in Seq(Char)
  PROVE  isOperator(t) <=> t \in Operators
<1>1. ASSUME NEW o \in Operators PROVE o \in Seq(Byte) /\ Len(o) <= 2 /\ Len(o) \in Nat
  <2>1. CASE o \in {<<c>> : c \in {"+", ".", "^", "!", "="}}
    <3>1. PICK c \in {"+", ".", "^", "!", "="} : o = <<c>>
      BY <2>1, Zenon
    <3>2. c \in Byte
      BY DEF Byte
    <3>3. <<c>> \in Seq(Byte) /\ Len(<<c>>) = 1
      BY <3>2
    <3> QED
      BY <3>1, <3>3
  <2>2. CASE o \in {<<q, u>> : q \in {"E", "A"}, u \in {"X", "F", "G", "U"}}
    <3>1. PICK q \in {"E", "A"}, u \in {"X", "F", "G", "U"} : o = <<q, u>>
      BY <2>2
    <3>2. q \in Byte /\ u \in Byte
      BY DEF Byte
    <3>3. <<q, u>> \in Seq(Byte) /\ Len(<<q, u>>) = 2
      BY <3>2
    <3> QED
      BY <3>1, <3>3
  <2> QED
    BY <2>1, <2>2 DEF Operators
<1>0. NUL \in Byte
  BY DEF Byte
<1>2. ASSUME t \in Operators PROVE isOperator(t)
  BY <1>2 DEF isOperator, SameUpTo
<1>3. ASSUME NEW o \in Operators, SameUpTo(t, o, MAX_OP_LEN) PROVE t = o
  <2>1. o \in Seq(Byte) /\ Len(o) < MAX_OP_LEN /\ Len(o) \in Nat /\ MAX_OP_LEN \in Nat
    BY <1>1, Lengths
  <2>2. t \in Seq(Byte) /\ Len(t) \in Nat
    BY DEF Char, Byte
  <2>3. Compared(t, MAX_OP_LEN) = Append(o, NUL)
    BY <1>3, <2>1 DEF SameUpTo, Compared
  <2>4. CASE Len(t) < MAX_OP_LEN
    <3>1. Append(t, NUL) = Append(o, NUL)
      BY <2>3, <2>4 DEF Compared
    <3> QED
      BY <1>0, <2>1, <2>2, <3>1, AppendSame
  <2>5. CASE ~(Len(t) < MAX_OP_LEN)
    <3>1. SubSeq(t, 1, MAX_OP_LEN) = Append(o, NUL)
      BY <2>3, <2>5 DEF Compared
    <3>2. /\ Len(SubSeq(t, 1, MAX_OP_LEN)) = MAX_OP_LEN
          /\ SubSeq(t, 1, MAX_OP_LEN)[MAX_OP_LEN] = t[MAX_OP_LEN]
      <4>1. \A k \in 1..MAX_OP_LEN : t[k] \in Byte
        BY <2>1, <2>2, <2>5
      <4> QED
        BY <2>1, <4>1, Lengths, SubSeqProperties
    <3>3. Len(Append(o, NUL)) = Len(o) + 1 /\ Append(o, NUL)[Len(o) + 1] = NUL
      BY <1>0, <2>1, AppendProperties
    <3>4. t[MAX_OP_LEN] = NUL /\ MAX_OP_LEN \in 1..Len(t)
      BY <2>1, <2>2, <2>5, <3>1, <3>2, <3>3
    <3> QED
      BY <3>4 DEF Char
  <2> QED
    BY <2>4, <2>5
<1> QED
  BY <1>2, <1>3 DEF isOperator

LEMMA CollectInv == IInv /\ Collect => IInv'
<1> SUFFICES ASSUME IInv, Collect PROVE IInv'
  OBVIOUS
<1> DEFINE t == tokens[next]
           Seen == {seenVars[k] : k \in DOMAIN seenVars}
<1>1. /\ pc = "unique" /\ pc' = pc /\ tokens \in Seq(Short) /\ seenVars \in Seq(Short)
      /\ Len(tokens) \in Nat /\ Len(seenVars) \in Nat
      /\ next \in 1..Len(tokens) /\ next' = next + 1
      /\ UNCHANGED <<string, chr, outside, count, token, rest, tokens>>
  BY DEF IInv, SplitInv, UniqueInv, Collect
<1>2. t \in Short /\ t \in Seq(Char) /\ Len(t) < MAX_VAR_LEN
  BY <1>1 DEF Short
<1>3. seenVars' = IF t \in Operators \/ t \in Seen THEN seenVars ELSE Append(seenVars, t)
  <2>1. (\E k \in DOMAIN seenVars : SameUpTo(seenVars[k], t, MAX_VAR_LEN)) <=> t \in Seen
    BY <1>1, <1>2, NamesCompared
  <2>2. Copied(t, MAX_VAR_LEN) = t
    BY <1>2 DEF Copied
  <2> QED
    BY <1>2, <2>1, <2>2, OperatorsCompared DEF Collect
<1>4. /\ Seen = {tokens[k] : k \in 1..(next-1)} \ Operators
      /\ \A j, k \in DOMAIN seenVars : seenVars[j] = seenVars[k] => j = k
  BY DEF IInv, UniqueInv
<1>5. {tokens[k] : k \in 1..next} = {tokens[k] : k \in 1..(next-1)} \cup {t}
  <2>1. 1..next = 1..(next-1) \cup {next}
    BY <1>1
  <2> QED
    BY <2>1
<1>8. CountInv' /\ SplitInv'
  BY <1>1, TextSteady DEF IInv, CountInv, SplitInv
<1>9. WordsInv'
  BY <1>1, TextSteady DEF IInv, WordsInv
<1> HIDE DEF t
<1>6. CASE t \in Operators \/ t \in Seen
  <2>1. seenVars' = seenVars
    BY <1>3, <1>6
  <2>2. Seen = {tokens[k] : k \in 1..next} \ Operators
    BY <1>4, <1>5, <1>6
  <2> QED
    BY <1>1, <1>4, <1>8, <1>9, <2>1, <2>2 DEF UniqueInv, IInv
<1>7. CASE ~(t \in Operators \/ t \in Seen)
  <2>1. /\ seenVars' \in Seq(Short)
        /\ DOMAIN seenVars' = DOMAIN seenVars \cup {Len(seenVars) + 1}
        /\ \A k \in DOMAIN seenVars : seenVars'[k] = seenVars[k]
        /\ seenVars'[Len(seenVars) + 1] = t
    BY <1>1, <1>2, <1>3, <1>7
  <2>2. {seenVars'[k] : k \in DOMAIN seenVars'} = Seen \cup {t}
    BY <2>1
  <2>3. {seenVars'[k] : k \in DOMAIN seenVars'} = {tokens[k] : k \in 1..next} \ Operators
    BY <1>4, <1>5, <1>7, <2>2
  <2>4. \A j, k \in DOMAIN seenVars' : seenVars'[j] = seenVars'[k] => j = k
    BY <1>4, <1>7, <2>1
  <2> QED
    BY <1>1, <1>8, <1>9, <2>1, <2>3, <2>4 DEF UniqueInv, IInv
<1> QED
  BY <1>6, <1>7

LEMMA CollectDoneInv == IInv /\ CollectDone => IInv'
<1> SUFFICES ASSUME IInv, CollectDone PROVE IInv'
  OBVIOUS
<1>1. /\ pc = "unique" /\ pc' = "returned"
      /\ UNCHANGED <<string, chr, outside, count, token, rest, tokens, seenVars, next>>
  BY DEF CollectDone
<1>2. CountInv' /\ SplitInv'
  BY <1>1, TextSteady DEF IInv, CountInv, SplitInv
<1>3. WordsInv'
  BY <1>1, TextSteady DEF IInv, WordsInv
<1>4. UniqueInv'
  BY DEF IInv, UniqueInv, SplitInv, CollectDone
<1> QED
  BY <1>2, <1>3, <1>4 DEF IInv

LEMMA Invariance == Spec => []IInv
<1>1. IInv /\ UNCHANGED vars => IInv'
  <2> SUFFICES ASSUME IInv, UNCHANGED vars PROVE IInv'
    OBVIOUS
  <2>1. CountInv' /\ SplitInv'
    BY TextSteady DEF IInv, CountInv, SplitInv, vars
  <2>2. WordsInv'
    BY TextSteady DEF IInv, WordsInv, vars
  <2>3. UniqueInv'
    BY DEF IInv, UniqueInv, vars
  <2> QED
    BY <2>1, <2>2, <2>3 DEF IInv
<1>2. IInv /\ [Next]_vars => IInv'
  BY <1>1, CountCharInv, CountDoneInv, StoreInv, SplitEndInv, CollectInv, CollectDoneInv DEF Next
<1> QED
  BY InvInit, <1>2, PTL DEF Spec

-----------------------------------------------------------------------------
\* strtok finds exactly the tokens that were counted, in any text.
THEOREM CountIsRight == Spec => []TokensKeepUp
<1>1. IInv => TokensKeepUp
  BY CountsAgree DEF TokensKeepUp, IInv, CountInv, SplitInv
<1> QED
  BY Invariance, <1>1, PTL

\* Comparing a bounded number of characters finds the operators and the names,
\* for any lengths that leave room for an operator of CTL.
THEOREM BoundedComparisons == Spec => []ComparisonsAreExact
<1>1. IInv => ComparisonsAreExact
  <2> SUFFICES ASSUME IInv, pc = "returned"
               PROVE  {seenVars[k] : k \in DOMAIN seenVars}
                        = {tokens[k] : k \in DOMAIN tokens} \ Operators
    BY DEF ComparisonsAreExact, IInv, UniqueInv
  <2>1. next - 1 = Len(tokens) /\ DOMAIN tokens = 1..Len(tokens)
    BY DEF IInv, SplitInv, UniqueInv
  <2> QED
    BY <2>1 DEF IInv, UniqueInv
<1> QED
  BY Invariance, <1>1, PTL

\* The tokens are the words of the text, none lost, split or out of order, in
\* any text; only a word without room makes tokenize give up.
THEOREM WordsInOrder == Spec => []TokensAreWords
<1>1. IInv => TokensAreWords
  <2> SUFFICES ASSUME IInv, pc \in {"unique", "returned"}
               PROVE  \A p \in WordStarts : tokens[Rank(p)] = WordAt(p)
    BY DEF TokensAreWords, IInv, WordsInv
  <2>1. string \in Seq(Char) /\ Len(tokens) = Cardinality(WordStarts) /\ rest = Len(string) + 1
    BY DEF IInv, CountInv, SplitInv, WordsInv
  <2>2. Below(WordStarts, rest) = WordStarts
    BY <2>1 DEF Below, WordStarts
  <2> QED
    BY <2>1, <2>2, RankBounds DEF IInv, WordsInv
<1> QED
  BY Invariance, <1>1, PTL
=============================================================================
