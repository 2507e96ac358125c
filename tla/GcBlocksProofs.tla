--------------------------- MODULE GcBlocksProofs ---------------------------
(***************************************************************************)
(* What TLC checks of the block allocator on six blocks, proved for heaps  *)
(* of any size, whatever the callers do.                                   *)
(***************************************************************************)
EXTENDS GcBlocks, CommonLemmas

\* The blocks that block b of state g speaks for, and those in use.
N(g, b) == OBJ_SZ_TO_BLOCKS(g.hdr[b].sz)
UsedBlocks(g) == {b \in DOMAIN g.hdr : IsUsed(g, b)}

Fields ==
  {"hdr", "fwd", "index", "hblkfreelist", "free_bytes", "large_free_bytes",
   "large_allocd_bytes", "unmapped_bytes", "heap_sects",
   "USE_MUNMAP", "downwards", "gap", "got"}

IsHeader(r) == {"sz", "flags"} \subseteq DOMAIN r /\ r.sz \in Nat \ {0}

\* The index has the entries of all headers, and no others than of blocks.
Indexed(g) ==
  /\ g.index \subseteq 0..Segment(NBLOCKS)
  /\ \A b \in DOMAIN g.hdr : Segment(b) \in g.index

Typed(g) ==
  /\ Fields \subseteq DOMAIN g
  /\ DOMAIN g.hdr \subseteq Blocks
  /\ \A b \in DOMAIN g.hdr : IsHeader(g.hdr[b]) /\ g.fwd[b] = 0
  /\ DOMAIN g.fwd = 0..NBLOCKS
  /\ g.hblkfreelist \in [0..N_HBLK_FLS -> Seq(Blocks)]
  /\ Indexed(g)

\* What the functions on blocks leave alone.
Kept(g, r) ==
  /\ DOMAIN r = DOMAIN g
  /\ r.heap_sects = g.heap_sects /\ r.USE_MUNMAP = g.USE_MUNMAP
  /\ r.downwards = g.downwards /\ r.gap = g.gap /\ r.got = g.got

\* And what they leave alone outside S.
Outside(g, r, S) ==
  /\ Kept(g, r)
  /\ DOMAIN r.hdr \ S = DOMAIN g.hdr \ S
  /\ \A c \in DOMAIN g.hdr \ S : r.hdr[c] = g.hdr[c]
  /\ \A c \in (0..NBLOCKS) \ S : r.fwd[c] = g.fwd[c]

SameBlocks(g, r) == Kept(g, r) /\ r.hdr = g.hdr /\ r.fwd = g.fwd /\ r.index = g.index

\* A header x for b is added, the header of b removed, the blocks of B lose
\* their counts.
Added(g, r, b, x) ==
  /\ Outside(g, r, {b}) /\ b \in DOMAIN r.hdr /\ r.hdr[b] = x /\ r.fwd[b] = 0
  /\ r.hblkfreelist = g.hblkfreelist
Removed(g, r, b) == Outside(g, r, {b}) /\ b \notin DOMAIN r.hdr /\ r.fwd[b] = 0
Emptied(g, r, B) ==
  /\ Outside(g, r, B) /\ DOMAIN r.hdr = DOMAIN g.hdr
  /\ \A c \in DOMAIN g.hdr : r.hdr[c] = g.hdr[c]
  /\ \A c \in B : r.fwd[c] = 0

\* b, of the same size, has become free.
Linked(g, r, b) ==
  /\ Outside(g, r, {b}) /\ DOMAIN r.hdr = DOMAIN g.hdr /\ r.fwd = g.fwd
  /\ r.hdr[b].flags = g.hdr[b].flags \cup {"FREE_BLK"} /\ r.hdr[b].sz = g.hdr[b].sz

\* The blocks of heap, apart from those of hole, belong to one header each, none
\* of which is that of a block in X.
Cut(g, heap, X, hole) ==
  /\ \A c \in heap \ hole : \E b \in DOMAIN g.hdr \ X : c \in Extent(g, b)
  /\ \A b \in DOMAIN g.hdr \ X : Extent(g, b) \subseteq heap \ hole
  /\ \A b, c \in DOMAIN g.hdr \ X : b # c => Extent(g, b) \cap Extent(g, c) = {}
  /\ \A b \in FreeBlocks(g) \ X : g.hdr[b].sz % HBLKSIZE = 0

\* A list without repetitions.
Lists(s, S) ==
  /\ ToSet(s) = S
  /\ \A j, k \in DOMAIN s : s[j] = s[k] => j = k

FreeOf(g, X, i) == {b \in FreeBlocks(g) \ X : FlIndex(g.hdr[b]) = i}
Listed(g, X) == \A i \in 0..N_HBLK_FLS : Lists(g.hblkfreelist[i], FreeOf(g, X, i))

Jump(n) == IF n > MAX_JUMP THEN MAX_JUMP ELSE n

\* The counts are those of the blocks in use, and nil elsewhere.
CountsOf(g, X, hole) ==
  /\ \A b \in UsedBlocks(g) \ X : \A c \in Extent(g, b) \ {b} : g.fwd[c] = Jump(c - b)
  /\ \A c \in (0..NBLOCKS) \ hole :
       g.fwd[c] # 0 => \E b \in UsedBlocks(g) \ X : c \in Extent(g, b)

But(g, heap, X, hole) ==
  /\ Typed(g) /\ heap \subseteq Blocks /\ hole \subseteq heap /\ X \subseteq hole
  /\ Cut(g, heap, X, hole) /\ Listed(g, X) /\ CountsOf(g, X, hole)

\* The block structure between two calls, and while n blocks from b on are in
\* the hands of the allocator.
Good(g, heap) == But(g, heap, {}, {})
Held(g, heap, b, n) ==
  /\ b \in DOMAIN g.hdr /\ n \in Nat \ {0}
  /\ But(g, heap, {b}, b..(b + n - 1))

\* The header of b speaks for the n blocks of E, which have no counts.
Vacant(g, b, n, E) ==
  /\ n \in Nat \ {0} /\ E = b..(b + n - 1)
  /\ b \in DOMAIN g.hdr /\ g.hdr[b].sz = n * HBLKSIZE
  /\ \A c \in E : g.fwd[c] = 0

\* Held, and of the look of a free block.
Clear(g, heap, b, n) == Held(g, heap, b, n) /\ Vacant(g, b, n, b..(b + n - 1))

\* Without unmapping every block is mapped and no two free blocks, x left aside,
\* are neighbours; no free block lies behind the n blocks from b on; none but b
\* ends where b begins.
FreeBut(g, x) == FreeBlocks(g) \ {x}
Lone(g, x) ==
  ~g.USE_MUNMAP =>
    /\ \A b \in DOMAIN g.hdr : IS_MAPPED(g.hdr[b])
    /\ \A b \in FreeBut(g, x) : b + N(g, b) \notin FreeBut(g, x)
Fenced(g, b, n) == ~g.USE_MUNMAP => b + n \notin FreeBlocks(g)
Unled(g, b) == ~g.USE_MUNMAP => \A c \in FreeBut(g, b) : c + N(g, c) # b
Stays(g, r) == Lone(g, NULL) => Lone(r, NULL)

-----------------------------------------------------------------------------
\* Numbers.
LEMMA Multiples ==
  ASSUME NEW d \in Nat \ {0}, NEW a \in Nat, NEW b \in Nat
  PROVE  /\ a < b <=> a * d < b * d
         /\ a = b <=> a * d = b * d
         /\ a <= b <=> a * d <= b * d
         /\ (a + b) * d = a * d + b * d
         /\ a * d \in Nat
         /\ a < b => a * d + d <= b * d
         /\ b <= a => (a - b) * d = a * d - b * d
OBVIOUS

LEMMA DivIs ==
  ASSUME NEW d \in Nat \ {0}, NEW a \in Nat, NEW q \in Nat, d * q <= a, a < d * q + d
  PROVE  a \div d = q
OBVIOUS

LEMMA DivBounds ==
  ASSUME NEW d \in Nat \ {0}, NEW a \in Nat
  PROVE  /\ a \div d \in Nat
         /\ d * (a \div d) <= a
         /\ a < d * (a \div d) + d
OBVIOUS

LEMMA ModZero ==
  ASSUME NEW d \in Nat \ {0}, NEW a \in Nat, a % d = 0
  PROVE  \E q \in Nat : a = q * d
OBVIOUS

\* n whole blocks.
LEMMA Whole ==
  ASSUME NEW n \in Nat
  PROVE  /\ n * HBLKSIZE \in Nat
         /\ (n * HBLKSIZE) \div HBLKSIZE = n
         /\ (n * HBLKSIZE) % HBLKSIZE = 0
         /\ OBJ_SZ_TO_BLOCKS(n * HBLKSIZE) = n
         /\ n # 0 => n * HBLKSIZE \in Nat \ {0}
<1>1. HBLKSIZE \in Nat \ {0}
  BY HeaderSizes
<1>2. n * HBLKSIZE \in Nat /\ HBLKSIZE * n = n * HBLKSIZE
  BY <1>1
<1>3. (n * HBLKSIZE) \div HBLKSIZE = n
  BY <1>1, <1>2, DivIs
<1>4. (n * HBLKSIZE + HBLKSIZE - 1) \div HBLKSIZE = n
  BY <1>1, <1>2, DivIs
<1>5. (n * HBLKSIZE) % HBLKSIZE = 0
  BY <1>1
<1>6. n # 0 => n * HBLKSIZE # 0
  BY <1>1
<1> QED
  BY <1>2, <1>3, <1>4, <1>5, <1>6 DEF OBJ_SZ_TO_BLOCKS

\* An object of sz granules needs a block, and as many as hold it.
LEMMA Rounded ==
  ASSUME NEW sz \in Nat \ {0}
  PROVE  /\ OBJ_SZ_TO_BLOCKS(sz) \in Nat \ {0}
         /\ sz <= OBJ_SZ_TO_BLOCKS(sz) * HBLKSIZE
         /\ sz % HBLKSIZE = 0 =>
              /\ sz = OBJ_SZ_TO_BLOCKS(sz) * HBLKSIZE
              /\ sz \div HBLKSIZE = OBJ_SZ_TO_BLOCKS(sz)
<1>1. HBLKSIZE \in Nat \ {0} /\ sz + HBLKSIZE - 1 \in Nat
  BY HeaderSizes
<1> DEFINE q == OBJ_SZ_TO_BLOCKS(sz)
<1>2. q \in Nat /\ HBLKSIZE * q <= sz + HBLKSIZE - 1 /\ sz + HBLKSIZE - 1 < HBLKSIZE * q + HBLKSIZE
  BY <1>1, DivBounds DEF OBJ_SZ_TO_BLOCKS
<1>3. q # 0
  BY <1>1, <1>2
<1>4. HBLKSIZE * q = q * HBLKSIZE
  BY <1>1, <1>2
<1>5. ASSUME sz % HBLKSIZE = 0 PROVE sz = q * HBLKSIZE /\ sz \div HBLKSIZE = q
  <2>1. PICK n \in Nat : sz = n * HBLKSIZE
    BY <1>1, <1>5, ModZero
  <2> QED
    BY <2>1, Whole
<1> QED
  BY <1>1, <1>2, <1>3, <1>4, <1>5

-----------------------------------------------------------------------------
\* Lists.
LEMMA Removal ==
  ASSUME NEW E, NEW s \in Seq(E), NEW i \in 1..Len(s), NEW q, q = RemoveAt(s, i)
  PROVE  /\ q \in Seq(E) /\ DOMAIN q = 1..(Len(s) - 1)
         /\ \A k \in 1..(Len(s) - 1) : q[k] = IF k < i THEN s[k] ELSE s[k + 1]
<1>1. DOMAIN s = 1..Len(s) /\ Len(s) \in Nat /\ i \in Nat /\ 1 <= i /\ i <= Len(s)
  OBVIOUS
<1> DEFINE a == SubSeq(s, 1, i - 1)
           b == SubSeq(s, i + 1, Len(s))
<1>2. a \in Seq(E) /\ Len(a) = i - 1 /\ \A k \in 1..(i - 1) : a[k] = s[k]
  BY <1>1
<1>3. b \in Seq(E) /\ Len(b) = Len(s) - i /\ \A k \in 1..(Len(s) - i) : b[k] = s[i + k]
  <2> DEFINE n == Len(s)
             m == i + 1
  <2>1. b = SubSeq(s, m, n)
    OBVIOUS
  <2>2. n = Len(s) /\ m = i + 1 /\ n \in Nat /\ m \in Nat /\ 1 <= m /\ m <= n + 1
    BY ONLY <1>1
  <2> HIDE DEF n, m, b
  <2>3. /\ b \in Seq(E)
        /\ Len(b) = IF m <= n THEN n - m + 1 ELSE 0
        /\ \A k \in 1..(n - m + 1) : b[k] = s[m + k - 1]
    BY ONLY <2>1, <2>2, s \in Seq(E)
  <2>4. n - m + 1 = Len(s) - i /\ \A k \in 1..(Len(s) - i) : m + k - 1 = i + k
    BY ONLY <1>1, <2>2
  <2>5. Len(b) = Len(s) - i
    <3>1. CASE m <= n
      BY ONLY <2>3, <2>4, <3>1
    <3>2. CASE ~(m <= n)
      <4>1. Len(s) - i = 0
        <5>1. i \in Nat /\ n \in Nat /\ i <= n /\ m = i + 1
          BY ONLY <1>1, <2>2
        <5>2. n - i = 0
          BY ONLY <3>2, <5>1
        <5> QED
          BY ONLY <2>2, <5>2
      <4> QED
        BY ONLY <2>3, <3>2, <4>1
    <3> QED
      BY ONLY <3>1, <3>2
  <2> QED
    BY ONLY <2>3, <2>4, <2>5
<1>4. q = a \o b
  BY DEF RemoveAt
<1> HIDE DEF a, b
<1>5. /\ q \in Seq(E) /\ Len(q) = Len(a) + Len(b) /\ DOMAIN q = 1..Len(q)
      /\ \A k \in 1..Len(a) : q[k] = a[k]
      /\ \A k \in 1..Len(b) : q[Len(a) + k] = b[k]
  <2>1. a \in Seq(E) /\ b \in Seq(E)
    BY ONLY <1>2, <1>3
  <2> QED
    BY ONLY <1>4, <2>1
<1>6. Len(q) = Len(s) - 1
  BY ONLY <1>1, <1>2, <1>3, <1>5
<1>7. ASSUME NEW k \in 1..(Len(s) - 1) PROVE q[k] = IF k < i THEN s[k] ELSE s[k + 1]
  <2>1. k \in Nat /\ 1 <= k /\ k <= Len(s) - 1
    BY ONLY <1>1, <1>7
  <2>2. CASE k < i
    <3>1. k \in 1..(i - 1) /\ k \in 1..Len(a)
      BY ONLY <1>1, <1>2, <2>1, <2>2
    <3> QED
      BY ONLY <1>2, <1>5, <2>2, <3>1
  <2>3. CASE ~(k < i)
    <3> DEFINE m == k - (i - 1)
    <3>1. m \in 1..(Len(s) - i) /\ m \in 1..Len(b) /\ Len(a) + m = k /\ i + m = k + 1
      BY ONLY <1>1, <1>2, <1>3, <2>1, <2>3
    <3> HIDE DEF m
    <3>2. q[k] = b[m] /\ b[m] = s[k + 1]
      BY ONLY <1>3, <1>5, <3>1
    <3> QED
      BY ONLY <2>3, <3>2
  <2> QED
    BY ONLY <2>2, <2>3
<1> QED
  BY <1>5, <1>6, <1>7

LEMMA UnlinkedLists ==
  ASSUME NEW E, NEW s \in Seq(E), NEW S, Lists(s, S), NEW b
  PROVE  Unlinked(s, b) \in Seq(E) /\ Lists(Unlinked(s, b), S \ {b})
<1>1. CASE b \notin ToSet(s)
  BY <1>1 DEF Unlinked, Lists
<1>2. CASE b \in ToSet(s)
  <2> DEFINE i == CHOOSE j \in DOMAIN s : s[j] = b
             q == RemoveAt(s, i)
  <2>1. i \in 1..Len(s) /\ s[i] = b /\ DOMAIN s = 1..Len(s) /\ Len(s) \in Nat
    BY <1>2 DEF ToSet
  <2>2. Unlinked(s, b) = q
    BY <1>2 DEF Unlinked
  <2> HIDE DEF i, q
  <2>3. \A k \in 1..(Len(s) - 1) : k \in 1..Len(s) /\ k + 1 \in 1..Len(s)
    BY <2>1
  <2>4. /\ q \in Seq(E) /\ DOMAIN q = 1..(Len(s) - 1)
        /\ \A k \in 1..(Len(s) - 1) : q[k] = IF k < i THEN s[k] ELSE s[k + 1]
    BY <2>1, Removal DEF q
  <2>5. \A j, k \in 1..Len(s) : s[j] = s[k] => j = k
    BY <2>1 DEF Lists
  <2>6. \A k \in DOMAIN q : q[k] \in ToSet(s) /\ q[k] # b
    BY <2>1, <2>3, <2>4, <2>5 DEF ToSet
  <2>7. ASSUME NEW x \in ToSet(s), x # b PROVE x \in ToSet(q)
    <3>1. PICK j \in 1..Len(s) : s[j] = x
      BY <2>1 DEF ToSet
    <3>2. CASE j < i
      <4>1. j \in 1..(Len(s) - 1) /\ q[j] = x
        BY <2>1, <2>4, <3>1, <3>2
      <4> QED
        BY <2>4, <4>1 DEF ToSet
    <3>3. CASE j > i
      <4>1. j - 1 \in 1..(Len(s) - 1) /\ q[j - 1] = x
        BY <2>1, <2>4, <3>1, <3>3
      <4> QED
        BY <2>4, <4>1 DEF ToSet
    <3> QED
      BY <2>1, <2>7, <3>1, <3>2, <3>3
  <2>8. ToSet(q) = S \ {b}
    <3>1. \A x \in ToSet(q) : x \in ToSet(s) /\ x # b
      BY <2>6 DEF ToSet
    <3> QED
      BY <2>7, <3>1 DEF Lists
  <2>9. ASSUME NEW j \in DOMAIN q, NEW k \in DOMAIN q, q[j] = q[k] PROVE j = k
    BY <2>1, <2>3, <2>4, <2>5, <2>9
  <2> QED
    BY <2>2, <2>4, <2>8, <2>9 DEF Lists
<1> QED
  BY <1>1, <1>2

LEMMA LinkedLists ==
  ASSUME NEW E, NEW s \in Seq(E), NEW S, Lists(s, S), NEW b \in E, b \notin S
  PROVE  <<b>> \o s \in Seq(E) /\ Lists(<<b>> \o s, S \cup {b})
<1> DEFINE q == <<b>> \o s
<1>1. Len(s) \in Nat /\ DOMAIN s = 1..Len(s)
  OBVIOUS
<1>2. q \in Seq(E) /\ Len(q) = Len(s) + 1 /\ DOMAIN q = 1..(Len(s) + 1) /\ q[1] = b
  OBVIOUS
<1>3. \A j \in 2..(Len(s) + 1) : q[j] = s[j - 1] /\ j - 1 \in 1..Len(s)
  OBVIOUS
<1>4. \A j \in 1..Len(s) : q[j + 1] = s[j] /\ j + 1 \in 1..(Len(s) + 1)
  OBVIOUS
<1> HIDE DEF q
<1>5. ToSet(q) = S \cup {b}
  <2>1. ASSUME NEW j \in DOMAIN q PROVE q[j] \in S \cup {b}
    BY <1>1, <1>2, <1>3 DEF Lists, ToSet
  <2>2. ASSUME NEW x \in S PROVE \E j \in DOMAIN q : q[j] = x
    BY <1>1, <1>2, <1>4 DEF Lists, ToSet
  <2> QED
    BY <1>1, <1>2, <2>1, <2>2 DEF ToSet
<1>6. ASSUME NEW j \in DOMAIN q, NEW k \in DOMAIN q, q[j] = q[k] PROVE j = k
  <2>1. \A m \in 2..(Len(s) + 1) : q[m] # b
    BY <1>1, <1>3 DEF Lists, ToSet
  <2>2. CASE j = 1 \/ k = 1
    BY <1>1, <1>2, <1>6, <2>1, <2>2
  <2>3. CASE j # 1 /\ k # 1
    <3>1. s[j - 1] = s[k - 1] /\ j - 1 \in DOMAIN s /\ k - 1 \in DOMAIN s
      BY <1>1, <1>2, <1>3, <1>6, <2>3
    <3> QED
      BY <1>1, <1>2, <3>1 DEF Lists
  <2> QED
    BY <2>2, <2>3
<1> QED
  BY <1>2, <1>5, <1>6 DEF Lists, q

LEMMA ReplacedLists ==
  ASSUME NEW E, NEW s \in Seq(E), NEW S, Lists(s, S), NEW b \in S, NEW c \in E, c \notin S
  PROVE  LET q == [j \in DOMAIN s |-> IF s[j] = b THEN c ELSE s[j]]
         IN  q \in Seq(E) /\ Lists(q, (S \ {b}) \cup {c})
<1> DEFINE q == [j \in DOMAIN s |-> IF s[j] = b THEN c ELSE s[j]]
<1>1. Len(s) \in Nat /\ DOMAIN s = 1..Len(s) /\ q \in Seq(E)
  OBVIOUS
<1>2. ToSet(q) = (S \ {b}) \cup {c}
  BY DEF Lists, ToSet
<1>3. ASSUME NEW j \in DOMAIN q, NEW k \in DOMAIN q, q[j] = q[k] PROVE j = k
  BY <1>3 DEF Lists, ToSet
<1> QED
  BY <1>1, <1>2, <1>3 DEF Lists
-----------------------------------------------------------------------------
\* Lists by sizes.
LEMMA FlRange ==
  ASSUME NEW n \in Nat \ {0}
  PROVE  /\ GC_hblk_fl_from_blocks(n) \in 0..N_HBLK_FLS
         /\ GC_hblk_fl_from_blocks(n) # 0
         /\ N_HBLK_FLS \in Nat /\ UNIQUE_THRESHOLD <= N_HBLK_FLS
         /\ GC_hblk_fl_from_blocks(n) < UNIQUE_THRESHOLD => GC_hblk_fl_from_blocks(n) = n
<1> DEFINE U == UNIQUE_THRESHOLD
           C == FL_COMPRESSION
           a == (n - U) \div C
           z == (HUGE_THRESHOLD - U) \div C
<1>1. U \in Nat \ {0} /\ C \in Nat \ {0} /\ HUGE_THRESHOLD \in Nat /\ HUGE_THRESHOLD > U
  BY ListSizes
<1>2. z \in Nat /\ N_HBLK_FLS = z + U
  <2>1. HUGE_THRESHOLD - U \in Nat
    BY <1>1
  <2> QED
    BY <1>1, <2>1, DivBounds DEF N_HBLK_FLS
<1>3. n > U /\ n < HUGE_THRESHOLD => a \in Nat /\ a <= z
  <2> SUFFICES ASSUME n > U, n < HUGE_THRESHOLD PROVE a \in Nat /\ a <= z
    OBVIOUS
  <2>1. n - U \in Nat /\ HUGE_THRESHOLD - U \in Nat /\ n - U < HUGE_THRESHOLD - U
    BY <1>1
  <2>2. a \in Nat /\ C * a <= n - U
    BY <1>1, <2>1, DivBounds
  <2>3. HUGE_THRESHOLD - U < C * z + C
    BY <1>1, <2>1, DivBounds
  <2>4. C * a < C * z + C
    BY <1>1, <1>2, <2>1, <2>2, <2>3
  <2>5. C * a = a * C /\ C * z + C = (z + 1) * C
    BY <1>1, <1>2, <2>2
  <2>6. a < z + 1
    BY <1>1, <1>2, <2>2, <2>4, <2>5, Multiples
  <2> QED
    BY <1>2, <2>2, <2>6
<1> HIDE DEF a, z
<1>4. GC_hblk_fl_from_blocks(n) =
        IF n <= U THEN n ELSE IF n >= HUGE_THRESHOLD THEN z + U ELSE a + U
  BY <1>2 DEF GC_hblk_fl_from_blocks, a
<1> QED
  BY <1>1, <1>2, <1>3, <1>4

LEMMA InRange == Blocks \subseteq 0..NBLOCKS /\ NULL \notin Blocks /\ Blocks \subseteq Nat
BY HeaderSizes DEF Blocks, NULL

-----------------------------------------------------------------------------
\* What is said of headers depends on nothing else.
LEMMA Alike ==
  ASSUME NEW g, NEW r, r.hdr = g.hdr
  PROVE  /\ \A b : N(r, b) = N(g, b) /\ Extent(r, b) = Extent(g, b)
         /\ FreeBlocks(r) = FreeBlocks(g) /\ UsedBlocks(r) = UsedBlocks(g)
         /\ \A X, i : FreeOf(r, X, i) = FreeOf(g, X, i)
         /\ \A heap, X, hole : Cut(r, heap, X, hole) <=> Cut(g, heap, X, hole)
         /\ \A X, hole : r.fwd = g.fwd => (CountsOf(r, X, hole) <=> CountsOf(g, X, hole))
<1>1. \A b : N(r, b) = N(g, b) /\ Extent(r, b) = Extent(g, b)
  BY DEF N, Extent
<1>2. FreeBlocks(r) = FreeBlocks(g) /\ UsedBlocks(r) = UsedBlocks(g)
  BY DEF FreeBlocks, UsedBlocks, IsFree, IsUsed, HasHdr
<1>3. \A X, i : FreeOf(r, X, i) = FreeOf(g, X, i)
  BY <1>2 DEF FreeOf
<1>4. \A heap, X, hole : Cut(r, heap, X, hole) <=> Cut(g, heap, X, hole)
  BY <1>1, <1>2 DEF Cut
<1>5. \A X, hole : r.fwd = g.fwd => (CountsOf(r, X, hole) <=> CountsOf(g, X, hole))
  BY <1>1, <1>2 DEF CountsOf
<1> QED
  BY <1>1, <1>2, <1>3, <1>4, <1>5

\* The extent of a block that has a header.
LEMMA Extents ==
  ASSUME NEW g, Typed(g), NEW b \in DOMAIN g.hdr
  PROVE  /\ N(g, b) \in Nat \ {0} /\ b \in Nat /\ b \in Blocks
         /\ Extent(g, b) = b..(b + N(g, b) - 1)
         /\ b \in Extent(g, b)
         /\ IsHeader(g.hdr[b]) /\ g.fwd[b] = 0
<1>1. b \in Blocks /\ IsHeader(g.hdr[b]) /\ g.fwd[b] = 0 /\ b \in Nat
  BY HeaderSizes DEF Typed, Blocks
<1>2. N(g, b) \in Nat \ {0}
  BY <1>1, Rounded DEF N, IsHeader
<1> QED
  BY <1>1, <1>2 DEF N, Extent

LEMMA FreeFacts ==
  ASSUME NEW g, NEW heap, NEW X, NEW hole, But(g, heap, X, hole), NEW b \in FreeBlocks(g) \ X
  PROVE  /\ b \in DOMAIN g.hdr /\ N(g, b) \in Nat \ {0} /\ b \in Blocks
         /\ g.hdr[b].sz = N(g, b) * HBLKSIZE
         /\ g.hdr[b].sz \div HBLKSIZE = N(g, b)
         /\ FlIndex(g.hdr[b]) \in 0..N_HBLK_FLS
         /\ FlIndex(g.hdr[b]) = GC_hblk_fl_from_blocks(N(g, b))
         /\ Extent(g, b) = b..(b + N(g, b) - 1)
         /\ Extent(g, b) \subseteq heap \ hole
<1>1. b \in DOMAIN g.hdr \ X /\ Typed(g) /\ g.hdr[b].sz % HBLKSIZE = 0
  BY DEF FreeBlocks, But, Cut
<1>2. Extent(g, b) \subseteq heap \ hole
  BY <1>1 DEF But, Cut
<1>3. g.hdr[b].sz \in Nat \ {0}
  BY <1>1, Extents DEF IsHeader
<1>4. g.hdr[b].sz = N(g, b) * HBLKSIZE /\ g.hdr[b].sz \div HBLKSIZE = N(g, b)
  BY <1>1, <1>3, Rounded DEF N
<1>5. FlIndex(g.hdr[b]) = GC_hblk_fl_from_blocks(N(g, b))
  BY <1>4 DEF FlIndex
<1> QED
  BY <1>1, <1>2, <1>4, <1>5, Extents, FlRange

-----------------------------------------------------------------------------
\* Taking a free block off its list.
LEMMA TakeOff ==
  ASSUME NEW g, NEW heap, NEW X, NEW hole, But(g, heap, X, hole), NEW b \in FreeBlocks(g) \ X,
         NEW i, i = FlIndex(g.hdr[b]), NEW r, r = GC_remove_from_fl_at(g, b, i)
  PROVE  /\ But(r, heap, X \cup {b}, hole \cup Extent(g, b))
         /\ SameBlocks(g, r)
         /\ \A c \in Extent(g, b) : g.fwd[c] = 0
<1> DEFINE Y == X \cup {b}
           gap == hole \cup Extent(g, b)
<1>1. Typed(g) /\ Cut(g, heap, X, hole) /\ Listed(g, X) /\ CountsOf(g, X, hole)
      /\ heap \subseteq Blocks /\ hole \subseteq heap /\ X \subseteq hole
  BY DEF But
<1>2. /\ b \in DOMAIN g.hdr /\ i \in 0..N_HBLK_FLS
      /\ Extent(g, b) \subseteq heap \ hole /\ b \in Extent(g, b)
  BY <1>1, FreeFacts, Extents
<1>3. /\ r.hdr = g.hdr /\ r.fwd = g.fwd /\ DOMAIN r = DOMAIN g /\ Kept(g, r)
      /\ r.hblkfreelist = [g.hblkfreelist EXCEPT ![i] = Unlinked(g.hblkfreelist[i], b)]
      /\ r.index = g.index
  BY <1>1 DEF GC_remove_from_fl_at, Typed, Fields, Kept
<1>4. ASSUME NEW j \in 0..N_HBLK_FLS
      PROVE  r.hblkfreelist[j] \in Seq(Blocks) /\ Lists(r.hblkfreelist[j], FreeOf(r, Y, j))
  <2>1. FreeOf(r, Y, j) = FreeOf(g, Y, j)
    BY <1>3, Alike
  <2>2. /\ g.hblkfreelist[j] \in Seq(Blocks) /\ Lists(g.hblkfreelist[j], FreeOf(g, X, j))
        /\ DOMAIN g.hblkfreelist = 0..N_HBLK_FLS
    BY <1>1 DEF Typed, Listed
  <2>3. CASE j = i
    <3>1. FreeOf(g, Y, j) = FreeOf(g, X, j) \ {b}
      BY DEF FreeOf
    <3>2. r.hblkfreelist[j] = Unlinked(g.hblkfreelist[j], b)
      BY <1>3, <2>2, <2>3
    <3> HIDE DEF Y
    <3> QED
      BY ONLY <2>1, <2>2, <3>1, <3>2, UnlinkedLists
  <2>4. CASE j # i
    <3>1. FreeOf(g, Y, j) = FreeOf(g, X, j)
      BY <2>4 DEF FreeOf
    <3>2. r.hblkfreelist[j] = g.hblkfreelist[j]
      BY <1>3, <2>2, <2>4
    <3> QED
      BY <2>1, <2>2, <3>1, <3>2
  <2> QED
    BY <2>3, <2>4
<1>5. Listed(r, Y)
  BY <1>4 DEF Listed
<1>6. Typed(r)
  <2>1. r.hblkfreelist \in [0..N_HBLK_FLS -> Seq(Blocks)]
    BY <1>1, <1>3, <1>4 DEF Typed
  <2> QED
    BY <1>1, <1>3, <2>1 DEF Typed, Indexed
<1>7. Cut(g, heap, Y, gap)
  <2>1. ASSUME NEW c \in heap \ gap PROVE \E d \in DOMAIN g.hdr \ Y : c \in Extent(g, d)
    BY <1>1, <2>1 DEF Cut
  <2>2. ASSUME NEW c \in DOMAIN g.hdr \ Y PROVE Extent(g, c) \subseteq heap \ gap
    BY <1>1, <1>2, <2>2 DEF Cut
  <2> QED
    BY <1>1, <2>1, <2>2 DEF Cut
<1>8. b \notin UsedBlocks(g) /\ UsedBlocks(g) \subseteq DOMAIN g.hdr
  BY DEF UsedBlocks, FreeBlocks, IsUsed, IsFree
<1>9. CountsOf(g, Y, gap)
  BY <1>1, <1>8 DEF CountsOf
<1>10. ASSUME NEW c \in Extent(g, b) PROVE g.fwd[c] = 0
  <2>1. c \in (0..NBLOCKS) \ hole
    BY <1>1, <1>2, InRange
  <2>2. ASSUME NEW u \in UsedBlocks(g) \ X PROVE c \notin Extent(g, u)
    BY <1>1, <1>2, <1>8 DEF Cut
  <2> QED
    BY <1>1, <2>1, <2>2 DEF CountsOf
<1>11. But(r, heap, Y, gap)
  BY <1>1, <1>2, <1>3, <1>5, <1>6, <1>7, <1>9, Alike DEF But
<1> QED
  BY <1>3, <1>10, <1>11 DEF SameBlocks

\* A change of the headers in a hole, and of the counts in it.
LEMMA InHole ==
  ASSUME NEW g, NEW heap, NEW X, NEW hole, But(g, heap, X, hole),
         NEW r, Typed(r), r.hblkfreelist = g.hblkfreelist,
         NEW Y \in SUBSET hole, DOMAIN r.hdr \ Y = DOMAIN g.hdr \ X,
         \A c \in DOMAIN g.hdr \ X : r.hdr[c] = g.hdr[c],
         \A c \in (0..NBLOCKS) \ hole : r.fwd[c] = g.fwd[c]
  PROVE  But(r, heap, Y, hole)
<1>1. Typed(g) /\ Cut(g, heap, X, hole) /\ Listed(g, X) /\ CountsOf(g, X, hole)
      /\ heap \subseteq Blocks /\ hole \subseteq heap /\ X \subseteq hole
  BY DEF But
<1>2. \A c \in DOMAIN g.hdr \ X : Extent(r, c) = Extent(g, c)
  BY DEF Extent
<1>3. FreeBlocks(r) \ Y = FreeBlocks(g) \ X /\ UsedBlocks(r) \ Y = UsedBlocks(g) \ X
  BY DEF FreeBlocks, UsedBlocks, IsFree, IsUsed, HasHdr
<1>4. FreeBlocks(g) \subseteq DOMAIN g.hdr /\ UsedBlocks(g) \subseteq DOMAIN g.hdr
  BY DEF FreeBlocks, UsedBlocks
<1>5. Cut(r, heap, Y, hole)
  BY <1>1, <1>2, <1>3, <1>4 DEF Cut
<1>6. \A i : FreeOf(r, Y, i) = FreeOf(g, X, i)
  BY <1>3, <1>4 DEF FreeOf
<1>7. Listed(r, Y)
  BY <1>1, <1>6 DEF Listed
<1>8. CountsOf(r, Y, hole)
  <2>1. ASSUME NEW b \in UsedBlocks(r) \ Y, NEW c \in Extent(r, b) \ {b} PROVE r.fwd[c] = Jump(c - b)
    <3>1. b \in UsedBlocks(g) \ X /\ Extent(r, b) = Extent(g, b) /\ Extent(g, b) \subseteq heap \ hole
      BY <1>1, <1>2, <1>3, <1>4 DEF Cut
    <3>2. r.fwd[c] = g.fwd[c]
      BY <1>1, <3>1, InRange
    <3> QED
      BY <1>1, <3>1, <3>2 DEF CountsOf
  <2>2. ASSUME NEW c \in (0..NBLOCKS) \ hole, r.fwd[c] # 0
        PROVE  \E b \in UsedBlocks(r) \ Y : c \in Extent(r, b)
    <3>1. PICK b \in UsedBlocks(g) \ X : c \in Extent(g, b)
      BY <1>1, <2>2 DEF CountsOf
    <3> QED
      BY <1>2, <1>3, <1>4, <3>1
  <2> QED
    BY <2>1, <2>2 DEF CountsOf
<1> QED
  BY <1>1, <1>5, <1>7, <1>8 DEF But

\* Lists with the same blocks in another order.
LEMMA Reordered ==
  ASSUME NEW g, NEW heap, NEW X, NEW hole, But(g, heap, X, hole),
         NEW r, Typed(r), r.hdr = g.hdr, r.fwd = g.fwd, Listed(r, X)
  PROVE  But(r, heap, X, hole)
BY Alike DEF But

\* Putting a free block onto its list.
LEMMA PutOn ==
  ASSUME NEW g, NEW heap, NEW X, NEW hole, But(g, heap, X, hole),
         NEW b \in X, NEW n, NEW E, Vacant(g, b, n, E), E \subseteq hole, X \cap E = {b},
         NEW r, r = GC_add_to_fl(g, b)
  PROVE  /\ But(r, heap, X \ {b}, hole \ E)
         /\ Linked(g, r, b)
<1> DEFINE i == FlIndex(g.hdr[b])
           Y == X \ {b}
           rest == hole \ E
<1>0. /\ b \in DOMAIN g.hdr /\ n \in Nat \ {0} /\ g.hdr[b].sz = n * HBLKSIZE
      /\ E = b..(b + n - 1) /\ \A c \in E : g.fwd[c] = 0
  BY DEF Vacant
<1>1. Typed(g) /\ Cut(g, heap, X, hole) /\ Listed(g, X) /\ CountsOf(g, X, hole)
      /\ heap \subseteq Blocks /\ hole \subseteq heap /\ X \subseteq hole
  BY DEF But
<1>2. N(g, b) = n /\ g.hdr[b].sz \div HBLKSIZE = n /\ g.hdr[b].sz % HBLKSIZE = 0
  BY <1>0, Whole DEF N
<1>3. i \in 0..N_HBLK_FLS
  BY <1>0, <1>2, FlRange DEF FlIndex
<1>4. b \in Blocks /\ b \in Nat /\ b \in E /\ Extent(g, b) = E /\ IsHeader(g.hdr[b])
  BY <1>0, <1>1, <1>2, Extents
<1>5. /\ r.fwd = g.fwd /\ DOMAIN r = DOMAIN g /\ Kept(g, r)
      /\ r.hdr = [g.hdr EXCEPT ![b] = [g.hdr[b] EXCEPT !.flags = g.hdr[b].flags \cup {"FREE_BLK"}]]
      /\ r.hblkfreelist = [g.hblkfreelist EXCEPT ![i] = <<b>> \o g.hblkfreelist[i]]
      /\ r.index = g.index
  BY <1>1 DEF GC_add_to_fl, Typed, Fields, Kept
<1> HIDE DEF i
<1>6. /\ DOMAIN r.hdr = DOMAIN g.hdr
      /\ \A c \in DOMAIN g.hdr \ {b} : r.hdr[c] = g.hdr[c]
      /\ r.hdr[b].sz = g.hdr[b].sz /\ "FREE_BLK" \in r.hdr[b].flags /\ IsHeader(r.hdr[b])
      /\ FlIndex(r.hdr[b]) = i
      /\ r.hdr[b].flags = g.hdr[b].flags \cup {"FREE_BLK"}
  BY <1>0, <1>4, <1>5 DEF IsHeader, FlIndex, i
<1>7. \A c \in DOMAIN g.hdr : Extent(r, c) = Extent(g, c)
  BY <1>6 DEF Extent
<1>8. /\ FreeBlocks(r) \ Y = (FreeBlocks(g) \ X) \cup {b}
      /\ UsedBlocks(r) \ Y = UsedBlocks(g) \ X
      /\ FreeBlocks(g) \subseteq DOMAIN g.hdr /\ UsedBlocks(g) \subseteq DOMAIN g.hdr
      /\ FreeBlocks(r) \subseteq DOMAIN g.hdr
  BY <1>0, <1>6 DEF FreeBlocks, UsedBlocks, IsFree, IsUsed, HasHdr, HBLK_IS_FREE
<1>9. ASSUME NEW j \in 0..N_HBLK_FLS
      PROVE  r.hblkfreelist[j] \in Seq(Blocks) /\ Lists(r.hblkfreelist[j], FreeOf(r, Y, j))
  <2>1. /\ g.hblkfreelist[j] \in Seq(Blocks) /\ Lists(g.hblkfreelist[j], FreeOf(g, X, j))
        /\ DOMAIN g.hblkfreelist = 0..N_HBLK_FLS
    BY <1>1 DEF Typed, Listed
  <2>2. CASE j = i
    <3>1. FreeOf(r, Y, j) = FreeOf(g, X, j) \cup {b}
      BY <1>6, <1>8, <2>2 DEF FreeOf
    <3>2. r.hblkfreelist[j] = <<b>> \o g.hblkfreelist[j]
      BY <1>5, <2>1, <2>2
    <3>3. b \notin FreeOf(g, X, j)
      BY DEF FreeOf
    <3> DEFINE s == g.hblkfreelist[j]
               S == FreeOf(g, X, j)
    <3>4. s \in Seq(Blocks) /\ Lists(s, S) /\ b \in Blocks /\ b \notin S
      BY <1>4, <2>1, <3>3
    <3>5. r.hblkfreelist[j] = <<b>> \o s /\ FreeOf(r, Y, j) = S \cup {b}
      BY <2>2, <3>1, <3>2
    <3> HIDE DEF s, S
    <3>6. <<b>> \o s \in Seq(Blocks) /\ Lists(<<b>> \o s, S \cup {b})
      BY ONLY <3>4, LinkedLists
    <3> QED
      BY ONLY <3>5, <3>6
  <2>3. CASE j # i
    <3>1. FreeOf(r, Y, j) = FreeOf(g, X, j)
      BY <1>6, <1>8, <2>3 DEF FreeOf
    <3>2. r.hblkfreelist[j] = g.hblkfreelist[j]
      BY <1>5, <2>1, <2>3
    <3> QED
      BY <2>1, <3>1, <3>2
  <2> QED
    BY <2>2, <2>3
<1>10. Listed(r, Y)
  BY <1>9 DEF Listed
<1>11. Typed(r)
  <2>1. r.hblkfreelist \in [0..N_HBLK_FLS -> Seq(Blocks)]
    BY <1>1, <1>5, <1>9 DEF Typed
  <2> QED
    BY <1>1, <1>5, <1>6, <2>1 DEF Typed, Indexed
<1>12. Cut(r, heap, Y, rest)
  <2>1. DOMAIN r.hdr \ Y = (DOMAIN g.hdr \ X) \cup {b}
    BY <1>0, <1>6
  <2>2. Extent(r, b) = E /\ E \subseteq heap \ rest
    BY <1>0, <1>1, <1>4, <1>7
  <2>3. \A c \in DOMAIN g.hdr \ X : Extent(r, c) = Extent(g, c) /\ Extent(g, c) \subseteq heap \ hole
    BY <1>1, <1>7 DEF Cut
  <2>4. ASSUME NEW c \in heap \ rest PROVE \E d \in DOMAIN r.hdr \ Y : c \in Extent(r, d)
    <3>1. CASE c \in E
      BY <2>1, <2>2, <3>1
    <3>2. CASE c \notin E
      <4>1. PICK d \in DOMAIN g.hdr \ X : c \in Extent(g, d)
        BY <1>1, <2>4, <3>2 DEF Cut
      <4> QED
        BY <2>1, <2>3, <4>1
    <3> QED
      BY <3>1, <3>2
  <2>5. ASSUME NEW c \in DOMAIN r.hdr \ Y PROVE Extent(r, c) \subseteq heap \ rest
    BY <2>1, <2>2, <2>3
  <2>6. ASSUME NEW c \in DOMAIN r.hdr \ Y, NEW d \in DOMAIN r.hdr \ Y, c # d
        PROVE  Extent(r, c) \cap Extent(r, d) = {}
    <3>1. CASE c = b \/ d = b
      BY <2>1, <2>2, <2>3, <2>6, <3>1
    <3>2. CASE c # b /\ d # b
      BY <1>1, <2>1, <2>3, <2>6, <3>2 DEF Cut
    <3> QED
      BY <3>1, <3>2
  <2>7. ASSUME NEW c \in FreeBlocks(r) \ Y PROVE r.hdr[c].sz % HBLKSIZE = 0
    BY <1>1, <1>2, <1>6, <1>8 DEF Cut
  <2> QED
    BY <2>4, <2>5, <2>6, <2>7 DEF Cut
<1>13. CountsOf(r, Y, rest)
  <2>1. ASSUME NEW c \in UsedBlocks(r) \ Y, NEW d \in Extent(r, c) \ {c} PROVE r.fwd[d] = Jump(d - c)
    BY <1>1, <1>5, <1>7, <1>8 DEF CountsOf
  <2>2. ASSUME NEW c \in (0..NBLOCKS) \ rest, r.fwd[c] # 0
        PROVE  \E d \in UsedBlocks(r) \ Y : c \in Extent(r, d)
    <3>1. c \notin E /\ c \notin hole
      BY <1>0, <1>5, <2>2
    <3>2. PICK d \in UsedBlocks(g) \ X : c \in Extent(g, d)
      BY <1>1, <1>5, <2>2, <3>1 DEF CountsOf
    <3> QED
      BY <1>7, <1>8, <3>2
  <2> QED
    BY <2>1, <2>2 DEF CountsOf
<1>14. But(r, heap, Y, rest)
  <2>1. Y \subseteq rest
    BY <1>1
  <2> QED
    BY <1>1, <1>10, <1>11, <1>12, <1>13, <2>1 DEF But
<1> QED
  BY <1>4, <1>5, <1>6, <1>14 DEF i, Outside, Linked

\* No block of a hole has a header of its own but those in X.
LEMMA HoleHeaders ==
  ASSUME NEW g, NEW heap, NEW X, NEW hole, But(g, heap, X, hole)
  PROVE  DOMAIN g.hdr \cap hole \subseteq X
<1>1. \A b \in DOMAIN g.hdr : b \in Extent(g, b)
  BY Extents DEF But
<1> QED
  BY <1>1 DEF But, Cut

\* A hole where a used block was.
LEMMA UsedHole ==
  ASSUME NEW g, NEW heap, NEW X, NEW hole, But(g, heap, X, hole), NEW b \in UsedBlocks(g) \ X
  PROVE  But(g, heap, X \cup {b}, hole \cup Extent(g, b))
<1> DEFINE Y == X \cup {b}
           gap == hole \cup Extent(g, b)
<1>1. Typed(g) /\ Cut(g, heap, X, hole) /\ Listed(g, X) /\ CountsOf(g, X, hole)
      /\ heap \subseteq Blocks /\ hole \subseteq heap /\ X \subseteq hole
  BY DEF But
<1>2. b \in DOMAIN g.hdr /\ b \notin FreeBlocks(g) /\ b \in Extent(g, b)
      /\ Extent(g, b) \subseteq heap \ hole
  BY <1>1, Extents DEF UsedBlocks, FreeBlocks, IsUsed, IsFree, Cut
<1>3. \A i : FreeOf(g, Y, i) = FreeOf(g, X, i)
  BY <1>2 DEF FreeOf
<1>4. Listed(g, Y)
  BY <1>1, <1>3 DEF Listed
<1>5. Cut(g, heap, Y, gap)
  <2>1. ASSUME NEW c \in heap \ gap PROVE \E d \in DOMAIN g.hdr \ Y : c \in Extent(g, d)
    BY <1>1, <2>1 DEF Cut
  <2>2. ASSUME NEW c \in DOMAIN g.hdr \ Y PROVE Extent(g, c) \subseteq heap \ gap
    BY <1>1, <1>2, <2>2 DEF Cut
  <2> QED
    BY <1>1, <2>1, <2>2 DEF Cut
<1>6. CountsOf(g, Y, gap)
  <2>1. ASSUME NEW c \in (0..NBLOCKS) \ gap, g.fwd[c] # 0
        PROVE  \E d \in UsedBlocks(g) \ Y : c \in Extent(g, d)
    BY <1>1, <2>1 DEF CountsOf
  <2> QED
    BY <1>1, <2>1 DEF CountsOf
<1> QED
  BY <1>1, <1>2, <1>4, <1>5, <1>6 DEF But

\* A hole where the heap has grown.
LEMMA NewHole ==
  ASSUME NEW g, NEW heap, NEW X, NEW hole, But(g, heap, X, hole),
         NEW new \in SUBSET Blocks, new \cap heap = {}
  PROVE  But(g, heap \cup new, X, hole \cup new)
<1>1. Typed(g) /\ Cut(g, heap, X, hole) /\ Listed(g, X) /\ CountsOf(g, X, hole)
      /\ heap \subseteq Blocks /\ hole \subseteq heap /\ X \subseteq hole
  BY DEF But
<1>2. (heap \cup new) \ (hole \cup new) = heap \ hole
  BY <1>1
<1>3. Cut(g, heap \cup new, X, hole \cup new)
  BY <1>1, <1>2 DEF Cut
<1>4. CountsOf(g, X, hole \cup new)
  BY <1>1 DEF CountsOf
<1> QED
  BY <1>1, <1>3, <1>4 DEF But

\* Blocks put to use: B are the first blocks, E all of them.
LEMMA Filled ==
  ASSUME NEW g, NEW heap, NEW X, NEW hole, But(g, heap, X, hole),
         NEW r, Typed(r), r.hblkfreelist = g.hblkfreelist,
         NEW B \in SUBSET hole, NEW E \in SUBSET hole, X \cap E \subseteq B,
         DOMAIN r.hdr \ (X \ B) = (DOMAIN g.hdr \ X) \cup B,
         \A c \in DOMAIN g.hdr \ X : r.hdr[c] = g.hdr[c],
         \A b \in B : "FREE_BLK" \notin r.hdr[b].flags /\ Extent(r, b) \subseteq E,
         \A b, c \in B : b # c => Extent(r, b) \cap Extent(r, c) = {},
         \A c \in E : \E b \in B : c \in Extent(r, b),
         \A b \in B : \A c \in Extent(r, b) \ {b} : r.fwd[c] = Jump(c - b),
         \A c \in (0..NBLOCKS) \ hole : r.fwd[c] = g.fwd[c]
  PROVE  But(r, heap, X \ B, hole \ E)
<1> DEFINE Y == X \ B
           rest == hole \ E
<1>1. Typed(g) /\ Cut(g, heap, X, hole) /\ Listed(g, X) /\ CountsOf(g, X, hole)
      /\ heap \subseteq Blocks /\ hole \subseteq heap /\ X \subseteq hole
  BY DEF But
<1>2. \A c \in DOMAIN g.hdr \ X : Extent(r, c) = Extent(g, c) /\ Extent(g, c) \subseteq heap \ hole
  BY <1>1 DEF Extent, Cut
<1>3. B \subseteq DOMAIN r.hdr /\ \A b \in DOMAIN g.hdr \ X : b \notin B
  BY HoleHeaders
<1>4. FreeBlocks(r) \ Y = FreeBlocks(g) \ X
  <2>1. ASSUME NEW b \in FreeBlocks(r) \ Y PROVE b \in FreeBlocks(g) \ X
    BY DEF FreeBlocks, IsFree, HasHdr, HBLK_IS_FREE
  <2>2. ASSUME NEW b \in FreeBlocks(g) \ X PROVE b \in FreeBlocks(r) \ Y
    BY DEF FreeBlocks, IsFree, HasHdr, HBLK_IS_FREE
  <2> QED
    BY <2>1, <2>2
<1>5. UsedBlocks(r) \ Y = (UsedBlocks(g) \ X) \cup B
  <2>1. ASSUME NEW b \in UsedBlocks(r) \ Y PROVE b \in (UsedBlocks(g) \ X) \cup B
    BY DEF UsedBlocks, IsUsed, HasHdr, HBLK_IS_FREE
  <2>2. ASSUME NEW b \in UsedBlocks(g) \ X PROVE b \in UsedBlocks(r) \ Y
    BY DEF UsedBlocks, IsUsed, HasHdr, HBLK_IS_FREE
  <2>3. ASSUME NEW b \in B PROVE b \in UsedBlocks(r) \ Y
    BY <1>3 DEF UsedBlocks, IsUsed, HasHdr, HBLK_IS_FREE
  <2> QED
    BY <2>1, <2>2, <2>3
<1>6. FreeBlocks(g) \subseteq DOMAIN g.hdr /\ UsedBlocks(g) \subseteq DOMAIN g.hdr
  BY DEF FreeBlocks, UsedBlocks
<1>7. Cut(r, heap, Y, rest)
  <2>1. ASSUME NEW c \in heap \ rest PROVE \E d \in DOMAIN r.hdr \ Y : c \in Extent(r, d)
    <3>1. CASE c \in E
      BY <3>1
    <3>2. CASE c \notin E
      BY <1>1, <1>2, <2>1, <3>2 DEF Cut
    <3> QED
      BY <3>1, <3>2
  <2>2. ASSUME NEW c \in DOMAIN r.hdr \ Y PROVE Extent(r, c) \subseteq heap \ rest
    <3>1. CASE c \in B
      BY <1>1, <3>1
    <3>2. CASE c \notin B
      BY <1>2, <3>2
    <3> QED
      BY <3>1, <3>2
  <2>3. ASSUME NEW c \in DOMAIN r.hdr \ Y, NEW d \in DOMAIN r.hdr \ Y, c # d
        PROVE  Extent(r, c) \cap Extent(r, d) = {}
    <3>1. CASE c \in B /\ d \in B
      BY <2>3, <3>1
    <3>2. CASE c \in B /\ d \notin B
      BY <1>2, <3>2
    <3>3. CASE c \notin B /\ d \in B
      BY <1>2, <3>3
    <3>4. CASE c \notin B /\ d \notin B
      BY <1>1, <1>2, <2>3, <3>4 DEF Cut
    <3> QED
      BY <3>1, <3>2, <3>3, <3>4
  <2>4. ASSUME NEW c \in FreeBlocks(r) \ Y PROVE r.hdr[c].sz % HBLKSIZE = 0
    BY <1>1, <1>4, <1>6 DEF Cut
  <2> QED
    BY <2>1, <2>2, <2>3, <2>4 DEF Cut
<1>8. \A i : FreeOf(r, Y, i) = FreeOf(g, X, i)
  BY <1>4, <1>6 DEF FreeOf
<1>9. Listed(r, Y)
  BY <1>1, <1>8 DEF Listed
<1>10. CountsOf(r, Y, rest)
  <2>1. ASSUME NEW b \in UsedBlocks(r) \ Y, NEW c \in Extent(r, b) \ {b} PROVE r.fwd[c] = Jump(c - b)
    <3>1. CASE b \in B
      BY <3>1
    <3>2. CASE b \notin B
      <4>1. b \in UsedBlocks(g) \ X /\ Extent(r, b) = Extent(g, b) /\ Extent(g, b) \subseteq heap \ hole
        BY <1>2, <1>5, <1>6, <3>2
      <4>2. r.fwd[c] = g.fwd[c]
        BY <1>1, <4>1, InRange
      <4> QED
        BY <1>1, <4>1, <4>2 DEF CountsOf
    <3> QED
      BY <3>1, <3>2
  <2>2. ASSUME NEW c \in (0..NBLOCKS) \ rest, r.fwd[c] # 0
        PROVE  \E b \in UsedBlocks(r) \ Y : c \in Extent(r, b)
    <3>1. CASE c \in E
      BY <1>5, <3>1
    <3>2. CASE c \notin E
      <4>1. PICK b \in UsedBlocks(g) \ X : c \in Extent(g, b)
        BY <1>1, <2>2, <3>2 DEF CountsOf
      <4> QED
        BY <1>2, <1>5, <1>6, <4>1
    <3> QED
      BY <3>1, <3>2
  <2> QED
    BY <2>1, <2>2 DEF CountsOf
<1>11. Y \subseteq rest
  BY <1>1
<1> QED
  BY <1>1, <1>7, <1>9, <1>10, <1>11 DEF But
-----------------------------------------------------------------------------
\* The functions of headers.c.
LEMMA Segments ==
  ASSUME NEW b \in Blocks
  PROVE  Segment(b) \in 0..Segment(NBLOCKS)
<1>1. b \in Nat /\ NBLOCKS \in Nat /\ b <= NBLOCKS /\ BOTTOM_SZ \in Nat \ {0}
  BY HeaderSizes DEF Blocks
<1> DEFINE i == b \div BOTTOM_SZ
           j == NBLOCKS \div BOTTOM_SZ
<1>2. /\ i \in Nat /\ j \in Nat /\ BOTTOM_SZ * i <= b /\ NBLOCKS < BOTTOM_SZ * j + BOTTOM_SZ
  BY ONLY <1>1, DivBounds
<1> HIDE DEF i, j
<1>3. BOTTOM_SZ * i < BOTTOM_SZ * (j + 1)
  BY ONLY <1>1, <1>2
<1>4. i < j + 1
  BY ONLY <1>1, <1>2, <1>3
<1> QED
  BY <1>2, <1>4 DEF Segment, i, j

LEMMA SetHdrsIs ==
  ASSUME NEW g, Typed(g), NEW bs \in SUBSET Blocks, NEW header, DOMAIN header \subseteq bs,
         \A c \in DOMAIN header : IsHeader(header[c]),
         NEW r, r = SetHdrs(get_index(g, bs), header)
  PROVE  /\ Typed(r) /\ Kept(g, r) /\ r.hblkfreelist = g.hblkfreelist
         /\ DOMAIN r.hdr = DOMAIN g.hdr \cup DOMAIN header
         /\ \A c \in DOMAIN header : r.hdr[c] = header[c] /\ r.fwd[c] = 0
         /\ \A c \in DOMAIN g.hdr \ DOMAIN header : r.hdr[c] = g.hdr[c]
         /\ \A c \in (0..NBLOCKS) \ DOMAIN header : r.fwd[c] = g.fwd[c]
<1>1. /\ r.hdr = [c \in DOMAIN g.hdr \cup DOMAIN header |->
                    IF c \in DOMAIN header THEN header[c] ELSE g.hdr[c]]
      /\ r.fwd = [c \in 0..NBLOCKS |-> IF c \in DOMAIN header THEN 0 ELSE g.fwd[c]]
      /\ r.index = g.index \cup {Segment(b) : b \in bs}
      /\ r.hblkfreelist = g.hblkfreelist /\ DOMAIN r = DOMAIN g /\ Kept(g, r)
  BY DEF SetHdrs, get_index, Typed, Fields, Kept
<1>2. DOMAIN header \subseteq 0..NBLOCKS /\ DOMAIN g.hdr \subseteq 0..NBLOCKS
  BY InRange DEF Typed
<1>3. Typed(r)
  <2>1. \A b \in bs : Segment(b) \in 0..Segment(NBLOCKS)
    BY Segments
  <2>2. Indexed(r)
    BY <1>1, <2>1 DEF Typed, Indexed
  <2> QED
    BY <1>1, <1>2, <2>2 DEF Typed
<1> QED
  BY <1>1, <1>2, <1>3

LEMMA SetCountsIs ==
  ASSUME NEW g, Typed(g), NEW count, DOMAIN count \subseteq Blocks,
         NEW r, r = SetCounts(g, count)
  PROVE  /\ Typed(r) /\ Kept(g, r) /\ r.hblkfreelist = g.hblkfreelist
         /\ DOMAIN r.hdr = DOMAIN g.hdr \ DOMAIN count
         /\ \A c \in DOMAIN g.hdr \ DOMAIN count : r.hdr[c] = g.hdr[c]
         /\ \A c \in DOMAIN count : r.fwd[c] = count[c]
         /\ \A c \in (0..NBLOCKS) \ DOMAIN count : r.fwd[c] = g.fwd[c]
<1>1. /\ r.hdr = [c \in DOMAIN g.hdr \ DOMAIN count |-> g.hdr[c]]
      /\ r.fwd = [c \in 0..NBLOCKS |-> IF c \in DOMAIN count THEN count[c] ELSE g.fwd[c]]
      /\ r.index = g.index
      /\ r.hblkfreelist = g.hblkfreelist /\ DOMAIN r = DOMAIN g /\ Kept(g, r)
  BY DEF SetCounts, Typed, Fields, Kept
<1>2. DOMAIN count \subseteq 0..NBLOCKS /\ DOMAIN g.hdr \subseteq 0..NBLOCKS
  BY InRange DEF Typed
<1>3. Typed(r)
  BY <1>1, <1>2 DEF Typed, Indexed
<1> QED
  BY <1>1, <1>2, <1>3

\* A change of what the state says about block b alone.
LEMMA Rewritten ==
  ASSUME NEW g, NEW heap, NEW X, NEW hole, But(g, heap, X, hole),
         NEW b \in X, b \in DOMAIN g.hdr, NEW x, IsHeader(x),
         NEW r, DOMAIN r = DOMAIN g, r.hdr = [g.hdr EXCEPT ![b] = x],
         r.fwd = g.fwd, r.hblkfreelist = g.hblkfreelist, r.index = g.index
  PROVE  But(r, heap, X, hole)
<1>1. Typed(g) /\ X \subseteq hole
  BY DEF But
<1>2. DOMAIN r.hdr = DOMAIN g.hdr /\ r.hdr[b] = x /\ \A c \in DOMAIN g.hdr \ {b} : r.hdr[c] = g.hdr[c]
  OBVIOUS
<1>3. Typed(r)
  BY <1>1, <1>2 DEF Typed, Indexed
<1> QED
  BY <1>1, <1>2, <1>3, InHole

\* A new header in a hole.
LEMMA Installed ==
  ASSUME NEW g, NEW heap, NEW X, NEW hole, But(g, heap, X, hole),
         NEW b \in hole, NEW x, IsHeader(x), NEW r, r = GC_install_header(g, b, x)
  PROVE  But(r, heap, X \cup {b}, hole) /\ Added(g, r, b, x)
<1> DEFINE header == [c \in {b} |-> x]
<1>1. Typed(g) /\ X \subseteq hole /\ b \in Blocks
  BY DEF But
<1>2. r = SetHdrs(get_index(g, {b}), header)
  BY DEF GC_install_header
<1>3. DOMAIN header = {b} /\ header[b] = x /\ DOMAIN header \subseteq Blocks
      /\ \A c \in DOMAIN header : IsHeader(header[c])
  BY <1>1
<1> HIDE DEF header
<1>4. /\ Typed(r) /\ Kept(g, r) /\ r.hblkfreelist = g.hblkfreelist
      /\ DOMAIN r.hdr = DOMAIN g.hdr \cup {b} /\ r.hdr[b] = x /\ r.fwd[b] = 0
      /\ \A c \in DOMAIN g.hdr \ {b} : r.hdr[c] = g.hdr[c]
      /\ \A c \in (0..NBLOCKS) \ {b} : r.fwd[c] = g.fwd[c]
  BY <1>1, <1>2, <1>3, SetHdrsIs
<1>5. DOMAIN r.hdr \ (X \cup {b}) = DOMAIN g.hdr \ X
  BY <1>4, HoleHeaders
<1>6. \A c \in DOMAIN g.hdr \ X : c # b
  BY HoleHeaders
<1>7. But(r, heap, X \cup {b}, hole)
  BY <1>1, <1>4, <1>5, <1>6, InHole
<1> QED
  BY <1>4, <1>7 DEF Outside, Added

\* And one less.
LEMMA HeaderRemoved ==
  ASSUME NEW g, NEW heap, NEW X, NEW hole, But(g, heap, X, hole), NEW b \in X,
         NEW r, r = GC_remove_header(g, b)
  PROVE  But(r, heap, X \ {b}, hole) /\ Removed(g, r, b)
<1> DEFINE count == [c \in {b} |-> 0]
<1>1. Typed(g) /\ X \subseteq hole /\ b \in Blocks
  BY DEF But
<1>2. r = SetCounts(g, count)
  BY DEF GC_remove_header
<1>3. DOMAIN count = {b} /\ count[b] = 0 /\ DOMAIN count \subseteq Blocks
  BY <1>1
<1> HIDE DEF count
<1>4. /\ Typed(r) /\ Kept(g, r) /\ r.hblkfreelist = g.hblkfreelist
      /\ DOMAIN r.hdr = DOMAIN g.hdr \ {b} /\ r.fwd[b] = 0
      /\ \A c \in DOMAIN g.hdr \ {b} : r.hdr[c] = g.hdr[c]
      /\ \A c \in (0..NBLOCKS) \ {b} : r.fwd[c] = g.fwd[c]
  BY <1>1, <1>2, <1>3, SetCountsIs
<1>5. DOMAIN r.hdr \ (X \ {b}) = DOMAIN g.hdr \ X
  BY <1>4
<1>6. But(r, heap, X \ {b}, hole)
  BY <1>1, <1>4, <1>5, InHole
<1> QED
  BY <1>4, <1>6 DEF Outside, Removed

\* No counts in a part of it.
LEMMA CountsRemoved ==
  ASSUME NEW g, NEW heap, NEW X, NEW hole, But(g, heap, X, hole), NEW b \in Nat, NEW n \in Nat,
         NEW B, B = (b + 1)..(b + n - 1), B \subseteq hole, X \cap B = {},
         NEW r, r = GC_remove_counts(g, b, n)
  PROVE  But(r, heap, X, hole) /\ Emptied(g, r, B)
<1> DEFINE count == [c \in B |-> 0]
<1>1. Typed(g) /\ X \subseteq hole /\ B \in SUBSET Blocks
  BY DEF But
<1>2. r = SetCounts(g, count)
  BY DEF GC_remove_counts
<1>3. DOMAIN count = B /\ (\A c \in B : count[c] = 0) /\ DOMAIN count \subseteq Blocks
  BY <1>1
<1> HIDE DEF count
<1>4. DOMAIN g.hdr \cap B = {} /\ B \subseteq hole
  BY HoleHeaders
<1>5. /\ Typed(r) /\ Kept(g, r) /\ r.hblkfreelist = g.hblkfreelist
      /\ DOMAIN r.hdr = DOMAIN g.hdr
      /\ \A c \in DOMAIN g.hdr : r.hdr[c] = g.hdr[c]
      /\ \A c \in B : r.fwd[c] = 0
      /\ \A c \in (0..NBLOCKS) \ B : r.fwd[c] = g.fwd[c]
  <2>1. /\ Typed(r) /\ Kept(g, r) /\ r.hblkfreelist = g.hblkfreelist
        /\ DOMAIN r.hdr = DOMAIN g.hdr \ DOMAIN count
        /\ \A c \in DOMAIN g.hdr \ DOMAIN count : r.hdr[c] = g.hdr[c]
        /\ \A c \in DOMAIN count : r.fwd[c] = count[c]
        /\ \A c \in (0..NBLOCKS) \ DOMAIN count : r.fwd[c] = g.fwd[c]
    BY <1>1, <1>2, <1>3, SetCountsIs
  <2> QED
    BY <1>3, <1>4, <2>1
<1>6. (\A c \in (0..NBLOCKS) \ hole : r.fwd[c] = g.fwd[c]) /\ X \in SUBSET hole
      /\ DOMAIN r.hdr \ X = DOMAIN g.hdr \ X /\ \A c \in DOMAIN g.hdr \ X : r.hdr[c] = g.hdr[c]
  BY <1>1, <1>4, <1>5
<1>7. But(r, heap, X, hole)
  BY ONLY But(g, heap, X, hole), <1>5, <1>6, InHole
<1> QED
  BY <1>3, <1>4, <1>5, <1>7 DEF Outside, Emptied

-----------------------------------------------------------------------------
\* Marks, times and the memory behind a block say nothing of the structure.
LEMMA Restyled ==
  ASSUME NEW g, NEW heap, NEW X, NEW hole, But(g, heap, X, hole),
         NEW r, DOMAIN r = DOMAIN g, r.fwd = g.fwd, r.hblkfreelist = g.hblkfreelist, r.index = g.index,
         DOMAIN r.hdr = DOMAIN g.hdr,
         \A b \in DOMAIN g.hdr :
           /\ {"sz", "flags"} \subseteq DOMAIN r.hdr[b] /\ r.hdr[b].sz = g.hdr[b].sz
           /\ "FREE_BLK" \in r.hdr[b].flags <=> "FREE_BLK" \in g.hdr[b].flags
  PROVE  /\ But(r, heap, X, hole)
         /\ FreeBlocks(r) = FreeBlocks(g) /\ UsedBlocks(r) = UsedBlocks(g)
         /\ \A b \in DOMAIN g.hdr : Extent(r, b) = Extent(g, b) /\ N(r, b) = N(g, b)
<1>1. Typed(g) /\ Cut(g, heap, X, hole) /\ Listed(g, X) /\ CountsOf(g, X, hole)
      /\ heap \subseteq Blocks /\ hole \subseteq heap /\ X \subseteq hole
  BY DEF But
<1>2. FreeBlocks(r) = FreeBlocks(g) /\ UsedBlocks(r) = UsedBlocks(g)
      /\ FreeBlocks(g) \subseteq DOMAIN g.hdr /\ UsedBlocks(g) \subseteq DOMAIN g.hdr
  BY DEF FreeBlocks, UsedBlocks, IsFree, IsUsed, HasHdr, HBLK_IS_FREE
<1>3. \A b \in DOMAIN g.hdr : Extent(r, b) = Extent(g, b) /\ N(r, b) = N(g, b)
  BY DEF Extent, N
<1>4. Typed(r)
  BY <1>1 DEF Typed, Indexed, IsHeader
<1>5. Cut(r, heap, X, hole)
  BY <1>1, <1>2, <1>3 DEF Cut
<1>6. \A i : FreeOf(r, X, i) = FreeOf(g, X, i)
  BY <1>2 DEF FreeOf, FlIndex
<1>7. Listed(r, X)
  BY <1>1, <1>6 DEF Listed
<1>8. CountsOf(r, X, hole)
  BY <1>1, <1>2, <1>3 DEF CountsOf
<1> QED
  BY <1>1, <1>2, <1>3, <1>4, <1>5, <1>7, <1>8 DEF But

LEMMA Unrelated ==
  ASSUME NEW g, NEW heap, NEW X, NEW hole, But(g, heap, X, hole),
         NEW r, DOMAIN r = DOMAIN g, r.fwd = g.fwd, r.hblkfreelist = g.hblkfreelist, r.index = g.index,
         r.hdr = g.hdr
  PROVE  But(r, heap, X, hole)
<1>1. \A b \in DOMAIN g.hdr : {"sz", "flags"} \subseteq DOMAIN g.hdr[b]
  BY DEF But, Typed, IsHeader
<1> QED
  BY <1>1, Restyled

LEMMA Remapped ==
  ASSUME NEW g, NEW heap, Good(g, heap), NEW b \in FreeBlocks(g), NEW r, r = Remap(g, b)
  PROVE  /\ Good(r, heap) /\ Kept(g, r) /\ r.fwd = g.fwd /\ r.hblkfreelist = g.hblkfreelist
         /\ FreeBlocks(r) = FreeBlocks(g) /\ DOMAIN r.hdr = DOMAIN g.hdr
         /\ \A c \in DOMAIN g.hdr : r.hdr[c].sz = g.hdr[c].sz
         /\ \A c \in DOMAIN g.hdr \ {b} : r.hdr[c] = g.hdr[c]
<1>1. b \in DOMAIN g.hdr /\ Typed(g) /\ IsHeader(g.hdr[b])
  BY Extents DEF FreeBlocks, Good, But
<1>2. CASE IS_MAPPED(g.hdr[b])
  BY <1>2 DEF Remap, Kept
<1>3. CASE ~IS_MAPPED(g.hdr[b])
  <2> DEFINE x == [g.hdr[b] EXCEPT !.flags = g.hdr[b].flags \ {"WAS_UNMAPPED"}]
  <2>1. /\ r.hdr = [g.hdr EXCEPT ![b] = x] /\ r.fwd = g.fwd
        /\ r.hblkfreelist = g.hblkfreelist /\ r.index = g.index /\ Kept(g, r)
    BY <1>1, <1>3 DEF Remap, Typed, Fields, Kept
  <2>2. /\ {"sz", "flags"} \subseteq DOMAIN x /\ x.sz = g.hdr[b].sz
        /\ "FREE_BLK" \in x.flags <=> "FREE_BLK" \in g.hdr[b].flags
    BY <1>1 DEF IsHeader
  <2> HIDE DEF x
  <2>3. \A c \in DOMAIN g.hdr :
          /\ {"sz", "flags"} \subseteq DOMAIN r.hdr[c] /\ r.hdr[c].sz = g.hdr[c].sz
          /\ "FREE_BLK" \in r.hdr[c].flags <=> "FREE_BLK" \in g.hdr[c].flags
    BY <1>1, <2>1, <2>2 DEF Typed, IsHeader
  <2>4. But(g, heap, {}, {}) /\ DOMAIN r = DOMAIN g /\ DOMAIN r.hdr = DOMAIN g.hdr
    BY <2>1 DEF Good, Kept
  <2>5. But(r, heap, {}, {}) /\ FreeBlocks(r) = FreeBlocks(g)
    BY <2>1, <2>3, <2>4, Restyled
  <2> QED
    BY <2>1, <2>3, <2>4, <2>5 DEF Good
<1> QED
  BY <1>2, <1>3

-----------------------------------------------------------------------------
\* Walks.  What leads from each place to another, always nearer to the end, has
\* an end; it may gather something on its way.
Walk(D, stop, out, jump, f) == f = [c \in D |-> IF c \in stop THEN out[c] ELSE f[jump[c]]]
Gather(D, stop, out, jump, pre, f) ==
  f = [c \in D |-> IF c \in stop THEN out[c]
                   ELSE IF c \in DOMAIN pre THEN pre[c] \o f[jump[c]] ELSE f[jump[c]]]

LEMMA GatherExist ==
  ASSUME NEW D, NEW stop, NEW out, NEW jump, NEW pre, NEW far,
         \A c \in D : far[c] \in Nat,
         \A c \in D \ stop : jump[c] \in D /\ far[jump[c]] < far[c]
  PROVE  \E f : Gather(D, stop, out, jump, pre, f)
<1> DEFINE Act(c, v) == IF c \in DOMAIN pre THEN pre[c] \o v ELSE v
<1> DEFINE P(f, m) == \A c \in D : far[c] < m =>
                        f[c] = IF c \in stop THEN out[c] ELSE Act(c, f[jump[c]])
           S == {m \in Nat : \E f : P(f, m)}
<1>0. \A f : Gather(D, stop, out, jump, pre, f) <=>
         f = [c \in D |-> IF c \in stop THEN out[c] ELSE Act(c, f[jump[c]])]
  BY DEF Gather
<1> HIDE DEF Act
<1>1. 0 \in S
  <2>1. P([c \in D |-> 0], 0)
    OBVIOUS
  <2> QED
    BY <2>1
<1>2. ASSUME NEW m \in S PROVE m + 1 \in S
  <2>1. PICK f : P(f, m)
    OBVIOUS
  <2> DEFINE q == [c \in D |-> IF far[c] < m THEN f[c]
                               ELSE IF c \in stop THEN out[c] ELSE Act(c, f[jump[c]])]
  <2>2. P(q, m + 1)
    <3> SUFFICES ASSUME NEW c \in D, far[c] < m + 1
                 PROVE  q[c] = IF c \in stop THEN out[c] ELSE Act(c, q[jump[c]])
      OBVIOUS
    <3>1. c \notin stop => q[jump[c]] = f[jump[c]]
      OBVIOUS
    <3>2. q[c] = IF c \in stop THEN out[c] ELSE Act(c, f[jump[c]])
      BY <2>1
    <3> QED
      BY <3>1, <3>2
  <2> HIDE DEF P, q
  <2>3. \E p : P(p, m + 1)
    BY <2>2
  <2> QED
    BY <2>3
<1>3. S = Nat
  BY <1>1, <1>2, SetInduction
<1> DEFINE F == [m \in Nat |-> CHOOSE f : P(f, m)]
<1>4. \A m \in Nat : P(F[m], m)
  BY <1>3
<1> HIDE DEF F
\* All of them agree.
<1> DEFINE A == {m \in Nat : \A c \in D : far[c] = m =>
                    \A k, n \in Nat : k > far[c] /\ n > far[c] => F[k][c] = F[n][c]}
           B == {m \in Nat : \A j \in 0..m : j \in A}
<1>5. ASSUME NEW m \in Nat, \A j \in 0..(m - 1) : j \in A PROVE m \in A
  <2> SUFFICES ASSUME NEW c \in D, far[c] = m, NEW k \in Nat, NEW n \in Nat, k > m, n > m
               PROVE  F[k][c] = F[n][c]
    OBVIOUS
  <2>1. /\ F[k][c] = IF c \in stop THEN out[c] ELSE Act(c, F[k][jump[c]])
        /\ F[n][c] = IF c \in stop THEN out[c] ELSE Act(c, F[n][jump[c]])
    BY <1>4
  <2>2. CASE c \in stop
    BY <2>1, <2>2
  <2>3. CASE c \notin stop
    <3>1. jump[c] \in D /\ far[jump[c]] \in 0..(m - 1)
      BY <2>3
    <3>2. far[jump[c]] \in A
      BY <1>5, <3>1
    <3>3. F[k][jump[c]] = F[n][jump[c]]
      BY <3>1, <3>2
    <3> QED
      BY <2>1, <2>3, <3>3
  <2> QED
    BY <2>2, <2>3
<1> HIDE DEF A
<1>6. B = Nat
  <2>1. 0 \in B
    BY <1>5
  <2>2. ASSUME NEW m \in B PROVE m + 1 \in B
    <3>1. m + 1 \in A
      BY <1>5
    <3> QED
      BY <3>1
  <2> HIDE DEF B
  <2> QED
    BY <2>1, <2>2, SetInduction DEF B
<1> DEFINE f == [c \in D |-> F[far[c] + 1][c]]
<1>7. ASSUME NEW c \in D PROVE f[c] = IF c \in stop THEN out[c] ELSE Act(c, f[jump[c]])
  <2>1. far[c] + 1 \in Nat /\ far[c] < far[c] + 1
    OBVIOUS
  <2>2. f[c] = IF c \in stop THEN out[c] ELSE Act(c, F[far[c] + 1][jump[c]])
    BY <1>4, <2>1
  <2>3. CASE c \notin stop
    <3>1. jump[c] \in D /\ far[jump[c]] \in Nat /\ far[jump[c]] < far[c]
      BY <2>3
    <3>2. far[jump[c]] \in A
      BY <1>6, <3>1
    <3>3. F[far[c] + 1][jump[c]] = F[far[jump[c]] + 1][jump[c]]
      BY <3>1, <3>2 DEF A
    <3> QED
      BY <2>2, <2>3, <3>1, <3>3
  <2> QED
    BY <2>2, <2>3
<1>8. f = [c \in D |-> IF c \in stop THEN out[c] ELSE Act(c, f[jump[c]])]
  BY <1>7
<1> HIDE DEF f
<1> QED
  BY <1>0, <1>8

LEMMA JumpsExist ==
  ASSUME NEW D, NEW stop, NEW out, NEW jump, NEW far,
         \A c \in D : far[c] \in Nat,
         \A c \in D \ stop : jump[c] \in D /\ far[jump[c]] < far[c]
  PROVE  \E f : Walk(D, stop, out, jump, f)
<1> DEFINE pre == [c \in {} |-> <<>>]
<1>1. DOMAIN pre = {}
  OBVIOUS
<1> HIDE DEF pre
<1>2. PICK f : Gather(D, stop, out, jump, pre, f)
  BY GatherExist
<1>3. Walk(D, stop, out, jump, f)
  BY <1>1, <1>2 DEF Walk, Gather
<1> QED
  BY <1>3

\* And every place leads to such an end.
LEMMA JumpsLead ==
  ASSUME NEW D, NEW stop, NEW out, NEW jump, NEW far, NEW f,
         Walk(D, stop, out, jump, f),
         \A c \in D : far[c] \in Nat,
         \A c \in D \ stop : jump[c] \in D /\ far[jump[c]] < far[c]
  PROVE  \A c \in D : \E e \in D \cap stop : f[c] = out[e]
<1> DEFINE R == {out[e] : e \in D \cap stop}
<1> DEFINE S == {m \in Nat : \A c \in D : far[c] < m => f[c] \in R}
<1>1. \A c \in D : f[c] = IF c \in stop THEN out[c] ELSE f[jump[c]]
  BY DEF Walk
<1>2. 0 \in S
  OBVIOUS
<1>3. ASSUME NEW m \in S PROVE m + 1 \in S
  <2> SUFFICES ASSUME NEW c \in D, far[c] < m + 1 PROVE f[c] \in R
    OBVIOUS
  <2>1. CASE c \in stop
    BY <1>1, <2>1
  <2>2. CASE c \notin stop
    <3>1. jump[c] \in D /\ far[jump[c]] < m
      BY <2>2
    <3> QED
      BY <1>1, <2>2, <3>1
  <2> QED
    BY <2>1, <2>2
<1>4. S = Nat
  BY <1>2, <1>3, SetInduction
<1>5. ASSUME NEW c \in D PROVE f[c] \in R
  <2>1. far[c] \in Nat /\ far[c] + 1 \in Nat /\ far[c] < far[c] + 1
    OBVIOUS
  <2>2. far[c] + 1 \in S
    BY ONLY <1>4, <2>1
  <2> QED
    BY <2>1, <2>2
<1> QED
  BY <1>5

\* What is said of the ends and stays true from each place to those before it
\* is true of all.
LEMMA GatherFinds ==
  ASSUME NEW D, NEW stop, NEW out, NEW jump, NEW pre, NEW far, NEW f,
         Gather(D, stop, out, jump, pre, f),
         \A c \in D : far[c] \in Nat,
         \A c \in D \ stop : jump[c] \in D /\ far[jump[c]] < far[c],
         NEW G, \A c \in D \cap stop : out[c] \in G[c],
         \A c \in D \ stop : \A x \in G[jump[c]] :
           (IF c \in DOMAIN pre THEN pre[c] \o x ELSE x) \in G[c]
  PROVE  \A c \in D : f[c] \in G[c]
<1> DEFINE Act(c, v) == IF c \in DOMAIN pre THEN pre[c] \o v ELSE v
           S == {m \in Nat : \A c \in D : far[c] < m => f[c] \in G[c]}
<1>1. \A c \in D : f[c] = IF c \in stop THEN out[c] ELSE Act(c, f[jump[c]])
  BY DEF Gather
<1>2. \A c \in D \ stop : \A x \in G[jump[c]] : Act(c, x) \in G[c]
  OBVIOUS
<1> HIDE DEF Act
<1>3. 0 \in S
  OBVIOUS
<1>4. ASSUME NEW m \in S PROVE m + 1 \in S
  <2> SUFFICES ASSUME NEW c \in D, far[c] < m + 1 PROVE f[c] \in G[c]
    OBVIOUS
  <2>1. CASE c \in stop
    BY <1>1, <2>1
  <2>2. CASE c \notin stop
    <3>1. jump[c] \in D /\ far[jump[c]] < m
      BY <2>2
    <3>2. f[jump[c]] \in G[jump[c]]
      BY <3>1
    <3> QED
      BY <1>1, <1>2, <2>2, <3>2
  <2> QED
    BY <2>1, <2>2
<1>5. S = Nat
  BY <1>3, <1>4, SetInduction
<1>6. ASSUME NEW c \in D PROVE f[c] \in G[c]
  <2>1. far[c] \in Nat /\ far[c] + 1 \in Nat /\ far[c] < far[c] + 1
    OBVIOUS
  <2>2. far[c] + 1 \in S
    BY ONLY <1>5, <2>1
  <2> QED
    BY <2>1, <2>2
<1> QED
  BY <1>6

LEMMA JumpsFind ==
  ASSUME NEW D, NEW stop, NEW out, NEW jump, NEW far, NEW f,
         Walk(D, stop, out, jump, f),
         \A c \in D : far[c] \in Nat,
         \A c \in D \ stop : jump[c] \in D /\ far[jump[c]] < far[c],
         NEW G, \A c \in D \cap stop : out[c] \in G[c],
         \A c \in D \ stop : G[jump[c]] \subseteq G[c]
  PROVE  \A c \in D : f[c] \in G[c]
<1> DEFINE pre == [c \in {} |-> <<>>]
<1>1. DOMAIN pre = {}
  OBVIOUS
<1> HIDE DEF pre
<1>2. Gather(D, stop, out, jump, pre, f)
  BY <1>1 DEF Walk, Gather
<1>3. \A c \in D \ stop : \A x \in G[jump[c]] :
        (IF c \in DOMAIN pre THEN pre[c] \o x ELSE x) \in G[c]
  BY <1>1
<1> QED
  BY <1>2, <1>3, GatherFinds

\* Counts and headers: where no block is in the hands of the allocator but
\* without counts, the counts of a used block lead to its header.
LEMMA Leads ==
  ASSUME NEW g, NEW heap, NEW X, NEW hole, But(g, heap, X, hole),
         \A c \in hole : g.fwd[c] = 0
  PROVE  /\ \A u \in UsedBlocks(g) \ X : \A c \in Extent(g, u) : Forwarded(g, c) = u
         /\ \A c \in DOMAIN g.hdr : Forwarded(g, c) = c
         /\ \A c \in (0..NBLOCKS) \ DOMAIN g.hdr : g.fwd[c] = 0 => Forwarded(g, c) = NULL
<1> DEFINE D == 0..NBLOCKS
           step(to) == [c \in 0..NBLOCKS |->
                          IF HasHdr(g, c) THEN c
                          ELSE IF g.fwd[c] = 0 THEN NULL ELSE to[c - g.fwd[c]]]
           stop == {c \in D : HasHdr(g, c) \/ g.fwd[c] = 0}
           out == [c \in D |-> IF HasHdr(g, c) THEN c ELSE NULL]
           jump == [c \in D |-> c - g.fwd[c]]
           far == [c \in D |-> c]
           f == CHOOSE to : to = step(to)
<1>1. Typed(g) /\ Cut(g, heap, X, hole) /\ CountsOf(g, X, hole)
      /\ heap \subseteq Blocks /\ hole \subseteq heap /\ X \subseteq hole
  BY DEF But
<1>2. ASSUME NEW u \in UsedBlocks(g) \ X, NEW c \in Extent(g, u), c # u
      PROVE  /\ u \in Nat /\ c \in D /\ c > u /\ c \notin DOMAIN g.hdr
             /\ g.fwd[c] \in Nat \ {0} /\ c - g.fwd[c] \in Extent(g, u)
             /\ c - g.fwd[c] < c /\ c - g.fwd[c] \in D
  <2>1. u \in DOMAIN g.hdr \ X /\ N(g, u) \in Nat \ {0} /\ u \in Blocks /\ u \in Nat
        /\ Extent(g, u) = u..(u + N(g, u) - 1) /\ Extent(g, u) \subseteq heap \ hole
    BY <1>1, Extents DEF UsedBlocks, Cut
  <2>2. c \in D /\ c \in Nat /\ c > u /\ Extent(g, u) \subseteq D
    BY <1>1, <1>2, <2>1, InRange
  <2>3. c \notin DOMAIN g.hdr
    <3> SUFFICES ASSUME c \in DOMAIN g.hdr PROVE FALSE
      OBVIOUS
    <3>1. c \in DOMAIN g.hdr \ X /\ c \in Extent(g, c)
      BY <1>1, <1>2, <2>1, Extents
    <3> QED
      BY <1>1, <1>2, <2>1, <3>1 DEF Cut
  <2>4. g.fwd[c] = Jump(c - u)
    BY <1>1, <1>2 DEF CountsOf
  <2>5. Jump(c - u) \in 1..(c - u)
    BY <2>1, <2>2, HeaderSizes DEF Jump
  <2>6. c - g.fwd[c] \in u..(u + N(g, u) - 1) /\ c - g.fwd[c] < c /\ g.fwd[c] \in Nat \ {0}
    BY <1>2, <2>1, <2>2, <2>4, <2>5
  <2> QED
    BY <2>1, <2>2, <2>3, <2>6
<1>3. ASSUME NEW c \in D \ stop PROVE jump[c] \in D /\ far[jump[c]] < far[c]
  <2>1. g.fwd[c] # 0 /\ c \notin hole /\ c \notin DOMAIN g.hdr
    BY DEF HasHdr
  <2>2. PICK u \in UsedBlocks(g) \ X : c \in Extent(g, u)
    BY <1>1, <2>1 DEF CountsOf
  <2>3. c # u
    BY <2>1, <2>2 DEF UsedBlocks
  <2> QED
    BY <1>2, <2>2, <2>3
<1>4. \A c \in D : far[c] \in Nat
  OBVIOUS
<1>5. \E to : Walk(D, stop, out, jump, to)
  <2> HIDE DEF stop, out, jump, far, D
  <2> QED
    BY <1>3, <1>4, JumpsExist
<1>6. \E to : to = step(to)
  <2>1. PICK to : Walk(D, stop, out, jump, to)
    BY <1>5
  <2>2. to = step(to)
    BY <2>1 DEF Walk
  <2> QED
    BY <2>2
<1>7. f = step(f)
  <2> HIDE DEF step
  <2> QED
    BY <1>6
<1>8. \A c \in D : f[c] = IF HasHdr(g, c) THEN c
                          ELSE IF g.fwd[c] = 0 THEN NULL ELSE f[c - g.fwd[c]]
  <2> HIDE DEF f
  <2> QED
    BY <1>7
<1>9. \A c : Forwarded(g, c) = f[c]
  BY DEF Forwarded
<1> HIDE DEF f
<1>10. DOMAIN g.hdr \subseteq D
  BY <1>1, InRange DEF Typed
<1>11. ASSUME NEW u \in UsedBlocks(g) \ X PROVE \A c \in Extent(g, u) : f[c] = u
  <2> DEFINE S == {m \in Nat : \A c \in Extent(g, u) : c - u <= m => f[c] = u}
  <2>1. u \in DOMAIN g.hdr /\ u \in D /\ u \in Nat /\ Extent(g, u) = u..(u + N(g, u) - 1)
        /\ N(g, u) \in Nat \ {0}
    BY <1>1, <1>10, Extents DEF UsedBlocks
  <2>2. f[u] = u
    BY <1>8, <2>1 DEF HasHdr
  <2>3. 0 \in S
    BY <2>1, <2>2
  <2>4. ASSUME NEW m \in S PROVE m + 1 \in S
    <3> SUFFICES ASSUME NEW c \in Extent(g, u), c - u <= m + 1, c # u PROVE f[c] = u
      BY <2>2
    <3>1. /\ c \in D /\ c \notin DOMAIN g.hdr /\ g.fwd[c] # 0
          /\ c - g.fwd[c] \in Extent(g, u) /\ c - g.fwd[c] < c
      BY <1>2
    <3>2. f[c] = f[c - g.fwd[c]]
      BY <1>8, <3>1 DEF HasHdr
    <3>3. c - g.fwd[c] - u <= m
      <4> DEFINE d == c - g.fwd[c]
      <4>1. d \in Nat /\ c \in Nat /\ u \in Nat /\ m \in Nat /\ d < c
        BY <2>1, <3>1
      <4> HIDE DEF d
      <4>2. d - u <= m
        BY <4>1
      <4> QED
        BY <4>2 DEF d
    <3> QED
      BY <3>1, <3>2, <3>3
  <2>5. S = Nat
    BY <2>3, <2>4, SetInduction
  <2>6. ASSUME NEW c \in Extent(g, u) PROVE f[c] = u
    <3>1. c - u \in Nat /\ c - u <= c - u
      BY <2>1
    <3> QED
      BY <2>5, <3>1
  <2> QED
    BY <2>6
<1>12. \A c \in DOMAIN g.hdr : f[c] = c
  BY <1>8, <1>10 DEF HasHdr
<1>13. \A c \in (0..NBLOCKS) \ DOMAIN g.hdr : g.fwd[c] = 0 => f[c] = NULL
  BY <1>8 DEF HasHdr
<1> QED
  BY <1>9, <1>11, <1>12, <1>13

-----------------------------------------------------------------------------
\* Where a block may begin when the black lists are minded.
LEMMA Beyond ==
  ASSUME NEW g, NEW c \in Nat, NEW n \in Nat \ {0}
  PROVE  GC_is_black_listed(g, c, n) = NULL \/ GC_is_black_listed(g, c, n) \in (c + 1)..(c + n)
<1> DEFINE listed == {i \in 0..(n - 1) :
                        PHT_HASH(c + i) \in g.old_stack_bl \cup g.incomplete_stack_bl}
<1>1. CASE listed # {}
  <2>1. listed \in SUBSET Nat
    OBVIOUS
  <2>2. \E x \in listed : \A y \in listed : x <= y
    <3> HIDE DEF listed
    <3> QED
      BY <1>1, <2>1, HasLeast
  <2>3. Min(listed) \in listed
    <3> HIDE DEF listed
    <3> QED
      BY <2>2 DEF Min
  <2>4. Min(listed) \in 0..(n - 1)
    BY <2>3
  <2> DEFINE x == Min(listed)
  <2>5. GC_is_black_listed(g, c, n) = c + 1 \/ GC_is_black_listed(g, c, n) = c + x + 1
    BY <1>1 DEF GC_is_black_listed
  <2>6. x \in 0..(n - 1)
    BY <2>4
  <2> HIDE DEF x
  <2> QED
    BY <2>5, <2>6
<1>2. CASE listed = {}
  <2>1. GC_is_black_listed(g, c, n) = c + 1 \/ GC_is_black_listed(g, c, n) = NULL
    BY <1>2 DEF GC_is_black_listed
  <2> QED
    BY <2>1
<1> QED
  BY <1>1, <1>2

LEMMA Behind ==
  ASSUME NEW g, NEW b \in Nat, NEW tries \in Nat, NEW eff \in Nat \ {0}
  PROVE  BehindBlackListed(g, b, tries, eff) \in b..(b + tries + eff)
<1> DEFINE D == b..(b + tries + eff)
           step(last) ==
             [c \in D |-> LET r == GC_is_black_listed(g, c, eff)
                          IN  IF c >= b + tries \/ r = NULL THEN c ELSE last[r]]
           jump == [c \in D |-> GC_is_black_listed(g, c, eff)]
           stop == {c \in D : c >= b + tries \/ jump[c] = NULL}
           out == [c \in D |-> c]
           far == [c \in D |-> b + tries + eff - c]
           f == CHOOSE last : last = step(last)
<1>1. \A c \in D : far[c] \in Nat /\ c \in Nat
  OBVIOUS
<1>2. ASSUME NEW c \in D \ stop PROVE jump[c] \in D /\ far[jump[c]] < far[c]
  <2> DEFINE r == jump[c]
  <2>1. c \in Nat /\ c < b + tries /\ b <= c
    OBVIOUS
  <2>2. r \in (c + 1)..(c + eff)
    BY <2>1, Beyond
  <2> HIDE DEF r
  <2>3. r \in D /\ b + tries + eff - r < b + tries + eff - c
    BY <2>1, <2>2
  <2>4. far[r] = b + tries + eff - r /\ far[c] = b + tries + eff - c
    BY <2>3
  <2> QED
    BY <2>3, <2>4 DEF r
<1>3. \A last : last = step(last) <=> Walk(D, stop, out, jump, last)
  BY DEF Walk
<1>5. \E last : Walk(D, stop, out, jump, last)
  <2> HIDE DEF D, stop, out, jump, far
  <2> QED
    BY <1>1, <1>2, JumpsExist
<1>6. \E last : last = step(last)
  <2> HIDE DEF step, D, stop, out, jump
  <2> QED
    BY <1>3, <1>5
<1>7. Walk(D, stop, out, jump, f)
  <2>1. f = step(f)
    <3> HIDE DEF step
    <3> QED
      BY <1>6
  <2> HIDE DEF f, step, D, stop, out, jump
  <2> QED
    BY <1>3, <2>1
<1>8. BehindBlackListed(g, b, tries, eff) = f[b]
  BY DEF BehindBlackListed
<1>9. b \in D
  OBVIOUS
<1> HIDE DEF f
<1>10. \A c \in D : \E e \in D \cap stop : f[c] = out[e]
  <2> HIDE DEF D, stop, out, jump, far
  <2> QED
    BY <1>1, <1>2, <1>7, JumpsLead
<1>11. f[b] \in D
  BY <1>9, <1>10
<1> QED
  BY <1>8, <1>11

-----------------------------------------------------------------------------
\* Neighbours.
LEMMA LoneAlike ==
  ASSUME NEW g, NEW r, r.hdr = g.hdr, r.USE_MUNMAP = g.USE_MUNMAP
  PROVE  /\ \A x : Lone(r, x) <=> Lone(g, x)
         /\ \A b, n : Fenced(r, b, n) <=> Fenced(g, b, n)
         /\ \A b : Unled(r, b) <=> Unled(g, b)
BY Alike DEF Lone, FreeBut, Fenced, Unled

LEMMA StaysAlike ==
  ASSUME NEW g, NEW r, r.hdr = g.hdr, r.USE_MUNMAP = g.USE_MUNMAP
  PROVE  Stays(g, r)
BY LoneAlike DEF Stays

LEMMA StaysOn ==
  ASSUME NEW g, NEW r, Stays(g, r), NEW q, Stays(r, q)
  PROVE  Stays(g, q)
BY DEF Stays

\* A block may be left aside.
LEMMA LoneLess ==
  ASSUME NEW g, Typed(g), Lone(g, NULL), NEW x
  PROVE  Lone(g, x)
<1>1. FreeBut(g, x) \subseteq FreeBut(g, NULL)
  BY InRange DEF Typed, FreeBut, FreeBlocks
<1> QED
  BY <1>1 DEF Lone

\* No block outside a hole ends inside it.
LEMMA NotInto ==
  ASSUME NEW g, NEW heap, NEW X, NEW hole, But(g, heap, X, hole), NEW s \in Nat, s - 1 \in hole,
         NEW c \in DOMAIN g.hdr \ X
  PROVE  c + N(g, c) # s
<1>1. /\ c \in Nat /\ N(g, c) \in Nat \ {0} /\ Extent(g, c) = c..(c + N(g, c) - 1)
  BY Extents DEF But
<1>2. s - 1 \notin Extent(g, c)
  BY DEF But, Cut
<1> DEFINE n == N(g, c)
<1> HIDE DEF n
<1>3. c \in Nat /\ n \in Nat \ {0} /\ s - 1 \notin c..(c + n - 1)
  BY <1>1, <1>2 DEF n
<1>4. c + n # s
  BY ONLY <1>3, s \in Nat
<1> QED
  BY <1>4 DEF n

\* A hole is cut at s: the first k of its blocks are left aside, the others free.
LEMMA CarvedLone ==
  ASSUME NEW g, NEW heap, NEW b, NEW n, Clear(g, heap, b, n), Lone(g, b), Fenced(g, b, n),
         NEW k \in 1..n, k # n, NEW s, s = b + k,
         NEW r, r.USE_MUNMAP = g.USE_MUNMAP, DOMAIN r.hdr = DOMAIN g.hdr \cup {s},
         \A c \in DOMAIN g.hdr \ {s} : r.hdr[c] = g.hdr[c],
         r.hdr[s].flags = {"FREE_BLK"}, r.hdr[s].sz = (n - k) * HBLKSIZE
  PROVE  Lone(r, b)
<1> DEFINE hole == b..(b + n - 1)
           X == {b}
<1>1. /\ b \in DOMAIN g.hdr /\ n \in Nat \ {0} /\ But(g, heap, X, hole) /\ Typed(g) /\ b \in Nat
  <2>1. b \in DOMAIN g.hdr /\ n \in Nat \ {0} /\ But(g, heap, X, hole)
    BY DEF Clear, Held
  <2>2. Typed(g)
    BY <2>1 DEF But
  <2> QED
    BY <2>1, <2>2, Extents
<1>2. /\ k \in Nat \ {0} /\ n - k \in Nat \ {0} /\ s \in Nat /\ s - 1 \in hole /\ s # b
      /\ s + (n - k) = b + n /\ b + n # s
  BY <1>1
<1>3. N(r, s) = n - k
  BY <1>2, Whole DEF N
<1> HIDE DEF hole, X
<1> SUFFICES ASSUME ~r.USE_MUNMAP PROVE Lone(r, b)
  BY DEF Lone
<1>4. /\ \A c \in DOMAIN g.hdr : IS_MAPPED(g.hdr[c])
      /\ \A c \in FreeBut(g, b) : c + N(g, c) \notin FreeBut(g, b)
      /\ b + n \notin FreeBlocks(g)
  BY DEF Lone, Fenced
<1>5. ASSUME NEW c \in DOMAIN r.hdr PROVE IS_MAPPED(r.hdr[c])
  <2>1. IS_MAPPED(r.hdr[s])
    BY DEF IS_MAPPED
  <2>2. c # s => IS_MAPPED(r.hdr[c])
    BY <1>4
  <2> QED
    BY <2>1, <2>2
<1>6. \A c \in FreeBut(r, b) : c = s \/ (c \in FreeBut(g, b) /\ N(r, c) = N(g, c))
  BY DEF FreeBut, FreeBlocks, IsFree, HasHdr, N
<1>7. ASSUME NEW c \in FreeBut(r, b), c + N(r, c) \in FreeBut(r, b) PROVE FALSE
  <2>1. CASE c = s
    <3>1. b + n \in FreeBut(g, b)
      BY <1>2, <1>3, <1>6, <1>7, <2>1
    <3> QED
      BY <1>4, <3>1 DEF FreeBut
  <2>2. CASE c # s
    <3>1. c \in FreeBut(g, b) /\ c + N(g, c) \in FreeBut(r, b)
      BY <1>6, <1>7, <2>2
    <3>2. c + N(g, c) = s
      BY <1>4, <1>6, <3>1
    <3>3. c \in DOMAIN g.hdr \ X
      BY <3>1 DEF FreeBut, FreeBlocks, X
    <3>4. s \in Nat /\ s - 1 \in hole /\ But(g, heap, X, hole)
      BY <1>1, <1>2
    <3>5. c + N(g, c) # s
      BY ONLY <3>3, <3>4, NotInto
    <3> QED
      BY <3>2, <3>5
  <2> QED
    BY <2>1, <2>2
<1> QED
  BY <1>5, <1>7 DEF Lone

\* A free block is cut at s and its second part left aside.
LEMMA CutLone ==
  ASSUME NEW g, NEW heap, Good(g, heap), NEW b \in FreeBlocks(g), Lone(g, NULL),
         NEW n, n = N(g, b), NEW s \in (b + 1)..(b + n - 1), s \notin DOMAIN g.hdr,
         NEW r, r.USE_MUNMAP = g.USE_MUNMAP, DOMAIN r.hdr = DOMAIN g.hdr \cup {s},
         \A c \in DOMAIN g.hdr \ {b} : r.hdr[c] = g.hdr[c],
         r.hdr[b].flags = g.hdr[b].flags \cup {"FREE_BLK"}, r.hdr[b].sz = (s - b) * HBLKSIZE,
         r.hdr[s].flags = {"FREE_BLK"}
  PROVE  Lone(r, s) /\ Fenced(r, s, b + n - s)
<1>1. b \in DOMAIN g.hdr /\ b \in Nat /\ n \in Nat \ {0} /\ b # NULL
  <2>1. b \in DOMAIN g.hdr /\ Typed(g)
    BY DEF Good, But, FreeBlocks
  <2>2. b \in Blocks /\ n \in Nat \ {0} /\ b \in Nat
    BY <2>1, Extents
  <2> QED
    BY <2>1, <2>2, InRange
<1>2. /\ s \in Nat /\ s - b \in Nat \ {0} /\ s + (b + n - s) = b + n /\ b + n # s /\ s # b
      /\ b + (s - b) = s
  BY <1>1
<1>3. N(r, b) = s - b
  BY <1>2, Whole DEF N
<1> SUFFICES ASSUME ~r.USE_MUNMAP PROVE Lone(r, s) /\ Fenced(r, s, b + n - s)
  BY DEF Lone, Fenced
<1>4. /\ \A c \in DOMAIN g.hdr : IS_MAPPED(g.hdr[c])
      /\ \A c \in FreeBlocks(g) : c + N(g, c) \notin FreeBlocks(g)
  <2>1. NULL \notin FreeBlocks(g)
    BY InRange DEF Good, But, Typed, FreeBlocks
  <2> QED
    BY <2>1 DEF Lone, FreeBut
<1>5. ASSUME NEW c \in DOMAIN r.hdr PROVE IS_MAPPED(r.hdr[c])
  <2>1. IS_MAPPED(r.hdr[s]) /\ IS_MAPPED(r.hdr[b])
    BY <1>1, <1>4 DEF IS_MAPPED
  <2>2. c # s /\ c # b => IS_MAPPED(r.hdr[c])
    BY <1>4
  <2> QED
    BY <2>1, <2>2
<1>6. \A c \in FreeBut(r, s) : c \in FreeBlocks(g) /\ (c # b => N(r, c) = N(g, c))
  BY DEF FreeBut, FreeBlocks, IsFree, HasHdr, N
<1>7. ASSUME NEW c \in FreeBut(r, s), c + N(r, c) \in FreeBut(r, s) PROVE FALSE
  <2>1. CASE c = b
    BY <1>2, <1>3, <1>7, <2>1 DEF FreeBut
  <2>2. CASE c # b
    BY <1>4, <1>6, <1>7, <2>2
  <2> QED
    BY <2>1, <2>2
<1>8. b + n \notin FreeBlocks(r)
  <2>1. b + n \notin FreeBlocks(g)
    BY <1>4
  <2> QED
    BY <1>2, <1>6, <2>1 DEF FreeBut
<1> QED
  BY <1>2, <1>5, <1>7, <1>8 DEF Lone, Fenced

\* Blocks that are free no more.
LEMMA FewerLone ==
  ASSUME NEW g, NEW x, Lone(g, x), NEW r, r.USE_MUNMAP = g.USE_MUNMAP, NEW y,
         \A c \in DOMAIN r.hdr : ~g.USE_MUNMAP => IS_MAPPED(r.hdr[c]),
         \A c \in FreeBut(r, y) : c \in FreeBut(g, x) /\ N(r, c) = N(g, c)
  PROVE  Lone(r, y)
BY DEF Lone

-----------------------------------------------------------------------------
\* Blocks of the hole are given counts.
LEMMA CountsInstalled ==
  ASSUME NEW g, NEW heap, NEW b, NEW n, Held(g, heap, b, n),
         NEW r, r = GC_install_counts(g, b, n)
  PROVE  /\ Held(r, heap, b, n) /\ Kept(g, r) /\ DOMAIN r.hdr = DOMAIN g.hdr
         /\ \A c \in DOMAIN g.hdr : r.hdr[c] = g.hdr[c]
         /\ \A c \in (b + 1)..(b + n - 1) : r.fwd[c] = Jump(c - b)
         /\ r.hblkfreelist = g.hblkfreelist
         /\ \A c \in (0..NBLOCKS) \ ((b + 1)..(b + n - 1)) : r.fwd[c] = g.fwd[c]
<1> DEFINE hole == b..(b + n - 1)
           B == (b + 1)..(b + n - 1)
           count == [c \in B |-> IF c - b > MAX_JUMP THEN MAX_JUMP ELSE c - b]
           q == get_index(g, hole)
<1>1. But(g, heap, {b}, hole) /\ b \in DOMAIN g.hdr /\ n \in Nat \ {0}
  BY DEF Held
<1>2. Typed(g) /\ hole \subseteq Blocks /\ b \in Nat /\ b \in Blocks
  BY <1>1, Extents DEF But
<1>3. B \subseteq hole /\ B \subseteq Blocks /\ b \notin B
  BY <1>1, <1>2
<1>4. r = SetCounts(q, count)
  BY DEF GC_install_counts
<1>5. DOMAIN count = B /\ \A c \in B : count[c] = Jump(c - b)
  BY DEF Jump
<1>6. DOMAIN q = DOMAIN g /\ q.hdr = g.hdr /\ q.fwd = g.fwd /\ q.hblkfreelist = g.hblkfreelist
      /\ Kept(g, q)
  BY <1>2 DEF get_index, Typed, Fields, Kept
<1>7. Typed(q)
  <2>1. q.index = g.index \cup {Segment(c) : c \in hole}
    BY <1>2 DEF get_index, Typed, Fields
  <2>2. \A c \in hole : Segment(c) \in 0..Segment(NBLOCKS)
    BY <1>2, Segments
  <2> HIDE DEF q, hole
  <2>3. Indexed(q)
    BY <1>2, <1>6, <2>1, <2>2 DEF Typed, Indexed
  <2> QED
    BY <1>2, <1>6, <2>3 DEF Typed
<1> HIDE DEF count, q, B, hole
<1>8. /\ Typed(r) /\ Kept(q, r) /\ r.hblkfreelist = q.hblkfreelist
      /\ DOMAIN r.hdr = DOMAIN q.hdr \ DOMAIN count
      /\ \A c \in DOMAIN q.hdr \ DOMAIN count : r.hdr[c] = q.hdr[c]
      /\ \A c \in DOMAIN count : r.fwd[c] = count[c]
      /\ \A c \in (0..NBLOCKS) \ DOMAIN count : r.fwd[c] = q.fwd[c]
  BY <1>3, <1>4, <1>5, <1>7, SetCountsIs
<1>9. DOMAIN g.hdr \cap hole \subseteq {b}
  BY <1>1, HoleHeaders
<1>10. DOMAIN g.hdr \cap B = {}
  BY <1>3, <1>9
<1>11. /\ DOMAIN r.hdr = DOMAIN g.hdr /\ (\A c \in DOMAIN g.hdr : r.hdr[c] = g.hdr[c])
       /\ (\A c \in B : r.fwd[c] = Jump(c - b)) /\ r.hblkfreelist = g.hblkfreelist
       /\ (\A c \in (0..NBLOCKS) \ B : r.fwd[c] = g.fwd[c]) /\ Kept(g, r)
  BY <1>5, <1>6, <1>8, <1>10 DEF Kept
<1>12. {b} \subseteq hole /\ \A c \in (0..NBLOCKS) \ hole : c \notin B
  BY <1>1, <1>2, <1>3 DEF hole
<1>13. But(r, heap, {b}, hole)
  BY <1>1, <1>8, <1>11, <1>12, InHole
<1>14. Held(r, heap, b, n)
  BY <1>1, <1>11, <1>13 DEF Held, hole
<1> QED
  BY <1>11, <1>14 DEF B

\* What a caller may ask for.
Asked(flags) == flags \subseteq {"IGNORE_OFF_PAGE"}

\* The block found becomes one in use.
LEMMA EstablishedIs ==
  ASSUME NEW acc, DOMAIN acc = {"h", "result"}, NEW heap, NEW sz \in Nat \ {0}, NEW kind,
         NEW flags, Asked(flags), acc.result # NULL,
         Held(acc.h, heap, acc.result, OBJ_SZ_TO_BLOCKS(sz)),
         NEW r, r = Established(acc, sz, kind, flags).h
  PROVE  /\ Good(r, heap) /\ Kept(acc.h, r)
         /\ acc.result \in UsedBlocks(r) /\ r.hdr[acc.result].sz = sz
         /\ Established(acc, sz, kind, flags).result = acc.result
         /\ Lone(acc.h, acc.result) => Lone(r, NULL)
<1> DEFINE g == acc.h
           b == acc.result
           n == OBJ_SZ_TO_BLOCKS(sz)
           hole == b..(b + n - 1)
           counted == GC_install_counts(g, b, n)
           x == setup_header(counted, sz, kind, flags)
           header == [counted EXCEPT !.hdr[b] = x]
           open == GC_remove_protection(header, hole, PointerFree(kind))
<1>1. Held(counted, heap, b, n) /\ Kept(g, counted)
      /\ (\A c \in (b + 1)..(b + n - 1) : counted.fwd[c] = Jump(c - b))
      /\ DOMAIN counted.hdr = DOMAIN g.hdr /\ \A c \in DOMAIN g.hdr : counted.hdr[c] = g.hdr[c]
  <2>1. Held(g, heap, b, n) /\ counted = GC_install_counts(g, b, n)
    OBVIOUS
  <2> HIDE DEF g, b, n, counted
  <2> QED
    BY ONLY <2>1, CountsInstalled
<1>2. Typed(counted) /\ But(counted, heap, {b}, hole) /\ b \in DOMAIN counted.hdr
      /\ n \in Nat \ {0} /\ b \in Nat
  BY <1>1, Extents DEF Held, But
<1>3. DOMAIN header = DOMAIN counted /\ header.hdr = [counted.hdr EXCEPT ![b] = x]
      /\ header.fwd = counted.fwd /\ header.hblkfreelist = counted.hblkfreelist
      /\ header.index = counted.index
      /\ Kept(counted, header)
  <2> HIDE DEF counted, x
  <2> QED
    BY <1>2 DEF Typed, Fields, Kept
<1>4. IsHeader(x) /\ x.sz = sz /\ x.flags = flags
  BY DEF setup_header, IsHeader
<1>5. /\ r.hdr = header.hdr /\ r.fwd = header.fwd /\ r.hblkfreelist = header.hblkfreelist
      /\ r.index = header.index
      /\ Kept(header, r) /\ Established(acc, sz, kind, flags).result = acc.result
  <2>1. open.hdr = header.hdr /\ open.fwd = header.fwd /\ open.hblkfreelist = header.hblkfreelist
        /\ open.index = header.index
        /\ Kept(header, open)
    <3> HIDE DEF header
    <3> QED
      BY <1>2, <1>3 DEF GC_remove_protection, Kept, Typed, Fields
  <2>2. Established(acc, sz, kind, flags) =
          [acc EXCEPT !.h = [open EXCEPT !.fail_count = 0,
                                         !.large_free_bytes = open.large_free_bytes - n * HBLKSIZE]]
    BY DEF Established
  <2> DEFINE last == [open EXCEPT !.fail_count = 0,
                                  !.large_free_bytes = open.large_free_bytes - n * HBLKSIZE]
  <2> HIDE DEF open, header
  <2>3. Fields \subseteq DOMAIN open
    BY <1>2, <1>3, <2>1 DEF Kept, Typed
  <2>4. /\ last.hdr = open.hdr /\ last.fwd = open.fwd /\ last.hblkfreelist = open.hblkfreelist
        /\ last.index = open.index /\ Kept(open, last)
    BY ONLY <2>3 DEF Kept, Fields
  <2>5. r = last /\ Established(acc, sz, kind, flags).result = acc.result
    <3> HIDE DEF last
    <3> QED
      BY <2>2 DEF last
  <2> HIDE DEF last
  <2> QED
    BY ONLY <2>1, <2>4, <2>5 DEF Kept
<1> HIDE DEF counted, header, open, x, g, n
<1>6. /\ DOMAIN r = DOMAIN counted /\ r.hdr = [counted.hdr EXCEPT ![b] = x]
      /\ r.fwd = counted.fwd /\ r.hblkfreelist = counted.hblkfreelist
      /\ r.index = counted.index /\ Kept(g, r)
  BY <1>1, <1>3, <1>5 DEF Kept
<1>7. DOMAIN r.hdr = DOMAIN counted.hdr /\ r.hdr[b] = x
      /\ \A c \in DOMAIN counted.hdr \ {b} : r.hdr[c] = counted.hdr[c]
  BY <1>2, <1>6
<1>8. Typed(r)
  BY <1>2, <1>4, <1>6, <1>7 DEF Typed, Indexed
<1>9. Extent(r, b) = hole
  BY <1>4, <1>7 DEF Extent, n
<1>10. "FREE_BLK" \notin r.hdr[b].flags /\ IS_MAPPED(r.hdr[b])
  BY <1>4, <1>7 DEF Asked, IS_MAPPED
<1>11. b \in hole /\ \A c \in hole \ {b} : r.fwd[c] = Jump(c - b)
  <2>1. \A c \in hole \ {b} : c \in (b + 1)..(b + n - 1)
    BY <1>2
  <2> QED
    BY <1>1, <1>2, <1>6, <2>1
<1>12. DOMAIN r.hdr \ ({b} \ {b}) = (DOMAIN counted.hdr \ {b}) \cup {b}
  BY <1>2, <1>7
<1> HIDE DEF hole
<1>13. But(r, heap, {b} \ {b}, hole \ hole)
  <2> DEFINE B == {b}
             E == hole
  <2>1. /\ B \in SUBSET hole /\ E \in SUBSET hole /\ {b} \cap E \subseteq B
        /\ DOMAIN r.hdr \ ({b} \ B) = (DOMAIN counted.hdr \ {b}) \cup B
        /\ (\A d \in B : "FREE_BLK" \notin r.hdr[d].flags /\ Extent(r, d) \subseteq E)
        /\ (\A d, c \in B : d # c => Extent(r, d) \cap Extent(r, c) = {})
        /\ (\A c \in E : \E d \in B : c \in Extent(r, d))
        /\ (\A d \in B : \A c \in Extent(r, d) \ {d} : r.fwd[c] = Jump(c - d))
    BY <1>9, <1>10, <1>11, <1>12
  <2>2. /\ \A c \in DOMAIN counted.hdr \ {b} : r.hdr[c] = counted.hdr[c]
        /\ \A c \in (0..NBLOCKS) \ hole : r.fwd[c] = counted.fwd[c]
    BY <1>6, <1>7
  <2>3. But(r, heap, {b} \ B, hole \ E)
    <3> HIDE DEF B, E
    <3> QED
      BY ONLY <1>2, <1>6, <1>8, <2>1, <2>2, Filled
  <2> QED
    BY <2>3
<1>14. Good(r, heap)
  <2>1. {b} \ {b} = {} /\ hole \ hole = {}
    OBVIOUS
  <2> QED
    BY <1>13, <2>1 DEF Good
<1>15. b \in UsedBlocks(r)
  BY <1>2, <1>7, <1>10 DEF UsedBlocks, IsUsed, HasHdr, HBLK_IS_FREE
<1>16. Lone(g, b) => Lone(r, NULL)
  <2> SUFFICES ASSUME Lone(g, b) PROVE Lone(r, NULL)
    OBVIOUS
  <2>1. r.USE_MUNMAP = g.USE_MUNMAP
    BY <1>6 DEF Kept
  <2>2. \A c \in DOMAIN r.hdr : ~g.USE_MUNMAP => IS_MAPPED(r.hdr[c])
    <3>1. ~g.USE_MUNMAP => \A c \in DOMAIN g.hdr : IS_MAPPED(g.hdr[c])
      BY DEF Lone
    <3> QED
      BY <1>1, <1>7, <1>10, <3>1
  <2>3. \A c \in FreeBut(r, NULL) : c \in FreeBut(g, b) /\ N(r, c) = N(g, c)
    BY <1>1, <1>7, <1>10 DEF FreeBut, FreeBlocks, IsFree, HasHdr, HBLK_IS_FREE, N
  <2> QED
    BY ONLY <2>1, <2>2, <2>3, Lone(g, b), FewerLone
<1> QED
  BY <1>4, <1>5, <1>6, <1>7, <1>14, <1>15, <1>16 DEF g

-----------------------------------------------------------------------------
\* What is not wanted of a block goes back to the lists.
LEMMA RestCarved ==
  ASSUME NEW g, NEW heap, NEW b, NEW n, Clear(g, heap, b, n), NEW k \in 1..n,
         NEW x, IsHeader(x), x.sz = (n - k) * HBLKSIZE, x.flags = {},
         NEW r, r = GC_add_to_fl(GC_install_header(g, b + k, x), b + k), k # n
  PROVE  /\ Held(r, heap, b, k) /\ Kept(g, r) /\ \A c \in DOMAIN g.hdr : r.hdr[c] = g.hdr[c]
         /\ Lone(g, b) /\ Fenced(g, b, n) => Lone(r, b)
<1> DEFINE hole == b..(b + n - 1)
           s == b + k
           q == GC_install_header(g, s, x)
           E == s..(s + (n - k) - 1)
<1>1. But(g, heap, {b}, hole) /\ b \in DOMAIN g.hdr /\ n \in Nat \ {0} /\ Typed(g)
      /\ \A c \in hole : g.fwd[c] = 0
  BY DEF Clear, Held, But, Vacant
<1>2. b \in Nat /\ k \in Nat \ {0} /\ n - k \in Nat \ {0} /\ s \in hole /\ s # b /\ s \in Nat
  <2>1. b \in Nat
    BY <1>1, Extents
  <2>2. k \in Nat \ {0} /\ n \in Nat /\ k < n
    BY <1>1
  <2> QED
    BY ONLY <2>1, <2>2
<1>3. E \subseteq hole /\ b \notin E /\ s \in E /\ hole \ E = b..(b + k - 1) /\ b \in hole
  BY <1>1, <1>2
<1>4. But(q, heap, {b} \cup {s}, hole) /\ Added(g, q, s, x)
  <2> DEFINE X == {b}
  <2>1. q = GC_install_header(g, s, x) /\ But(g, heap, X, hole) /\ s \in hole
    BY <1>1, <1>2
  <2> HIDE DEF hole, s, q, X
  <2>2. But(q, heap, X \cup {s}, hole) /\ Added(g, q, s, x)
    BY ONLY <2>1, IsHeader(x), Installed
  <2> QED
    BY <2>2 DEF X
<1>5. DOMAIN g.hdr \cap hole \subseteq {b}
  BY <1>1, HoleHeaders
<1>6. hole \subseteq 0..NBLOCKS
  BY <1>1, InRange DEF But
<1>7. \A c \in E : q.fwd[c] = 0
  BY <1>1, <1>3, <1>4, <1>6 DEF Outside, Added, Removed
<1>8. /\ But(r, heap, ({b} \cup {s}) \ {s}, hole \ E)
      /\ Linked(q, r, s)
  <2> DEFINE X == {b} \cup {s}
             m == n - k
  <2>1. s \in X /\ Vacant(q, s, m, E) /\ E \subseteq hole /\ X \cap E = {s}
    BY <1>2, <1>3, <1>4, <1>7 DEF Vacant, Added
  <2>2. But(q, heap, X, hole) /\ r = GC_add_to_fl(q, s)
    BY <1>4
  <2> HIDE DEF X, m, s, q, hole, E
  <2>3. /\ But(r, heap, X \ {s}, hole \ E)
        /\ Linked(q, r, s)
    BY ONLY <2>1, <2>2, PutOn
  <2> QED
    BY <2>3 DEF X
<1>9. ({b} \cup {s}) \ {s} = {b}
  BY <1>2
<1>10. But(r, heap, {b}, b..(b + k - 1))
  BY <1>3, <1>8, <1>9
<1>11. s \notin DOMAIN g.hdr
  BY <1>2, <1>5
<1>12. (\A c \in DOMAIN g.hdr : r.hdr[c] = g.hdr[c]) /\ b \in DOMAIN r.hdr /\ Kept(g, r)
  BY <1>1, <1>4, <1>8, <1>11 DEF Kept, Outside, Linked, Added
<1>13. /\ DOMAIN r.hdr = DOMAIN g.hdr \cup {s} /\ r.USE_MUNMAP = g.USE_MUNMAP
       /\ r.hdr[s].flags = {"FREE_BLK"} /\ r.hdr[s].sz = (n - k) * HBLKSIZE
  <2>1. DOMAIN q.hdr = DOMAIN g.hdr \cup {s} /\ q.hdr[s] = x
    BY <1>4, <1>11 DEF Outside, Added
  <2> HIDE DEF q, s
  <2> QED
    BY <1>8, <1>12, <2>1 DEF Linked, Kept
<1>14. Lone(g, b) /\ Fenced(g, b, n) => Lone(r, b)
  <2> SUFFICES ASSUME Lone(g, b), Fenced(g, b, n) PROVE Lone(r, b)
    OBVIOUS
  <2>1. Clear(g, heap, b, n) /\ k \in 1..n /\ k # n /\ s = b + k
    OBVIOUS
  <2>2. \A c \in DOMAIN g.hdr \ {s} : r.hdr[c] = g.hdr[c]
    BY <1>12
  <2> HIDE DEF s
  <2> QED
    BY ONLY <1>13, <2>1, <2>2, Lone(g, b), Fenced(g, b, n), CarvedLone
<1> QED
  BY <1>2, <1>10, <1>12, <1>14 DEF Held

\* The first k blocks of one that was taken off its list.
LEMMA FirstPart ==
  ASSUME NEW g, NEW i, NEW b, NEW taken, taken = GC_remove_from_fl_at(g, b, i),
         taken.hdr = g.hdr, NEW heap, NEW n, Clear(taken, heap, b, n),
         NEW k \in 1..n, NEW r, r = GC_get_first_part(g, b, k * HBLKSIZE, i)
  PROVE  /\ Held(r, heap, b, k) /\ Kept(taken, r)
         /\ Lone(taken, b) /\ Fenced(taken, b, n) => Lone(r, b)
<1> DEFINE x == FreeHeader(g, n * HBLKSIZE - k * HBLKSIZE)
<1>1. n \in Nat \ {0} /\ Held(taken, heap, b, n) /\ g.hdr[b].sz = n * HBLKSIZE
  BY DEF Clear, Vacant
<1>2. k \in Nat /\ n \in Nat /\ HBLKSIZE \in Nat \ {0} /\ k \in 1..n
  BY <1>1, HeaderSizes
<1>3. /\ k * HBLKSIZE = n * HBLKSIZE <=> k = n
      /\ (n - k) * HBLKSIZE = n * HBLKSIZE - k * HBLKSIZE
  BY ONLY <1>2, Multiples
<1>4. (k * HBLKSIZE) \div HBLKSIZE = k
  BY <1>2, Whole
<1>5. r = IF k = n THEN taken
          ELSE GC_add_to_fl(GC_install_header(taken, b + k, x), b + k)
  BY <1>1, <1>3, <1>4 DEF GC_get_first_part
<1> HIDE DEF x
<1>6. CASE k = n
  BY <1>1, <1>5, <1>6 DEF Kept
<1>7. CASE k # n
  <2>1. n - k \in Nat \ {0} /\ x.sz = (n - k) * HBLKSIZE /\ x.flags = {}
    BY <1>2, <1>3, <1>7 DEF x, FreeHeader
  <2>2. IsHeader(x)
    <3>1. (n - k) * HBLKSIZE \in Nat \ {0}
      BY <2>1, Whole
    <3> QED
      BY <2>1, <3>1 DEF IsHeader, x, FreeHeader
  <2>3. r = GC_add_to_fl(GC_install_header(taken, b + k, x), b + k)
    BY <1>5, <1>7
  <2>4. Clear(taken, heap, b, n)
    OBVIOUS
  <2>5. /\ Held(r, heap, b, k) /\ Kept(taken, r)
        /\ Lone(taken, b) /\ Fenced(taken, b, n) => Lone(r, b)
    BY ONLY <1>2, <1>7, <2>1, <2>2, <2>3, <2>4, RestCarved
  <2> QED
    BY <2>5
<1> QED
  BY <1>6, <1>7

LEMMA Taken ==
  ASSUME NEW g, NEW heap, Good(g, heap), NEW b \in FreeBlocks(g), NEW i, i = FlIndex(g.hdr[b]),
         NEW r, r = GC_remove_from_fl_at(g, b, i)
  PROVE  /\ Clear(r, heap, b, N(g, b)) /\ SameBlocks(g, r)
         /\ Lone(g, NULL) => Lone(r, b) /\ Fenced(r, b, N(g, b))
<1> DEFINE n == N(g, b)
           hole == b..(b + n - 1)
<1>1. But(g, heap, {}, {}) /\ b \in FreeBlocks(g) \ {}
  BY DEF Good
<1>2. /\ b \in DOMAIN g.hdr /\ n \in Nat \ {0} /\ b \in Blocks /\ Extent(g, b) = hole
      /\ g.hdr[b].sz = n * HBLKSIZE
  BY <1>1, FreeFacts
<1>3. But(r, heap, {} \cup {b}, {} \cup Extent(g, b)) /\ SameBlocks(g, r)
      /\ \A c \in Extent(g, b) : g.fwd[c] = 0
  BY <1>1, TakeOff
<1>4. r.hdr = g.hdr /\ r.fwd = g.fwd /\ {} \cup {b} = {b} /\ {} \cup Extent(g, b) = hole
  BY <1>2, <1>3 DEF SameBlocks
<1>5. Held(r, heap, b, n)
  BY <1>2, <1>3, <1>4 DEF Held
<1>6. Vacant(r, b, n, hole)
  BY <1>2, <1>3, <1>4 DEF Vacant
<1>7. Lone(g, NULL) => Lone(r, b) /\ Fenced(r, b, n)
  <2>1. r.hdr = g.hdr /\ r.USE_MUNMAP = g.USE_MUNMAP /\ Typed(g)
    BY <1>1, <1>3 DEF SameBlocks, Kept, But
  <2>2. Lone(g, NULL) => Lone(g, b)
    BY <2>1, LoneLess
  <2>3. Lone(g, NULL) => Fenced(g, b, n)
    BY <2>1, InRange DEF Lone, Fenced, FreeBut, Typed, FreeBlocks
  <2> QED
    BY <2>1, <2>2, <2>3, LoneAlike
<1> QED
  BY <1>3, <1>5, <1>6, <1>7 DEF Clear

\* The first k blocks of a free block.
LEMMA Carved ==
  ASSUME NEW g, NEW heap, Good(g, heap), NEW b \in FreeBlocks(g), NEW i, i = FlIndex(g.hdr[b]),
         NEW k \in 1..N(g, b), NEW r, r = GC_get_first_part(g, b, k * HBLKSIZE, i)
  PROVE  /\ Held(r, heap, b, k) /\ Kept(g, r)
         /\ Lone(g, NULL) => Lone(r, b)
<1> DEFINE taken == GC_remove_from_fl_at(g, b, i)
           n == N(g, b)
<1>1. Clear(taken, heap, b, n) /\ SameBlocks(g, taken)
      /\ (Lone(g, NULL) => Lone(taken, b) /\ Fenced(taken, b, n))
  BY Taken
<1>2. taken.hdr = g.hdr /\ Kept(g, taken) /\ taken = GC_remove_from_fl_at(g, b, i) /\ k \in 1..n
  BY <1>1 DEF SameBlocks
<1> HIDE DEF taken, n
<1>3. Held(r, heap, b, k) /\ Kept(taken, r)
      /\ (Lone(taken, b) /\ Fenced(taken, b, n) => Lone(r, b))
  BY <1>1, <1>2, FirstPart
<1> QED
  BY <1>1, <1>2, <1>3 DEF Kept

-----------------------------------------------------------------------------
\* A free block cut in two, of which the second part leaves the list.
LEMMA CutOff ==
  ASSUME NEW g, NEW heap, Good(g, heap), NEW b \in FreeBlocks(g), NEW i, i = FlIndex(g.hdr[b]),
         NEW n, n = N(g, b), NEW s \in (b + 1)..(b + n - 1),
         NEW q, q = GC_split_block(g, b, s, i),
         NEW r, r = GC_remove_from_fl_at(q, s, i)
  PROVE  /\ Clear(r, heap, s, b + n - s) /\ Kept(g, q) /\ Kept(g, r)
         /\ q.hdr = r.hdr /\ q.hdr[s].flags = {"FREE_BLK"}
         /\ Lone(g, NULL) => Lone(r, s) /\ Fenced(r, s, b + n - s)
<1> DEFINE hole == b..(b + n - 1)
           m == s - b
           x == [FreeHeader(g, g.hdr[b].sz - (s - b) * HBLKSIZE) EXCEPT !.flags = {"FREE_BLK"}]
           cut == GC_install_header(g, s, x)
           y == [g.hdr[b] EXCEPT !.sz = (s - b) * HBLKSIZE,
                                 !.last_reclaimed = IF g.USE_MUNMAP THEN g.gc_no % USHORT ELSE @]
           z == [y EXCEPT !.flags = y.flags \cup {"FREE_BLK"}]
           list == [j \in DOMAIN g.hblkfreelist[i] |->
                      IF g.hblkfreelist[i][j] = b THEN s ELSE g.hblkfreelist[i][j]]
           k == FlIndex(y)
           lists == [g.hblkfreelist EXCEPT ![i] = list]
           E == b..(b + m - 1)
           rest == s..(b + n - 1)
<1>1. But(g, heap, {}, {}) /\ b \in FreeBlocks(g) \ {} /\ Typed(g)
  BY DEF Good, But
<1>2. /\ b \in DOMAIN g.hdr /\ n \in Nat \ {0} /\ b \in Blocks /\ Extent(g, b) = hole
      /\ g.hdr[b].sz = n * HBLKSIZE /\ i \in 0..N_HBLK_FLS /\ b \in Nat
      /\ hole \subseteq heap /\ heap \subseteq Blocks /\ IsHeader(g.hdr[b])
      /\ "FREE_BLK" \in g.hdr[b].flags
  <2>1. "FREE_BLK" \in g.hdr[b].flags
    BY DEF FreeBlocks, IsFree, HBLK_IS_FREE
  <2>2. b \in DOMAIN g.hdr
    BY DEF FreeBlocks
  <2>3. /\ n \in Nat \ {0} /\ b \in Blocks /\ Extent(g, b) = hole
        /\ g.hdr[b].sz = n * HBLKSIZE /\ i \in 0..N_HBLK_FLS /\ Extent(g, b) \subseteq heap \ {}
    BY <1>1, FreeFacts
  <2>4. IsHeader(g.hdr[b]) /\ b \in Nat
    BY <1>1, <2>2, Extents
  <2>5. heap \subseteq Blocks
    BY <1>1 DEF But
  <2> HIDE DEF hole
  <2> QED
    BY <2>1, <2>2, <2>3, <2>4, <2>5
<1>3. /\ s \in Nat /\ m \in Nat \ {0} /\ n - m \in Nat \ {0} /\ s # b /\ s \in hole
      /\ n - m = b + n - s /\ s = b + m
  <2>1. b \in Nat /\ n \in Nat \ {0} /\ s \in (b + 1)..(b + n - 1)
    BY <1>2
  <2> QED
    BY ONLY <2>1
<1>4. (n - m) * HBLKSIZE = n * HBLKSIZE - m * HBLKSIZE /\ HBLKSIZE \in Nat \ {0}
  <2> HIDE DEF m
  <2>1. n \in Nat /\ m \in Nat /\ m <= n
    BY <1>2, <1>3
  <2> QED
    BY <2>1, Multiples, HeaderSizes
<1>5. IsHeader(x) /\ x.sz = (n - m) * HBLKSIZE /\ x.flags = {"FREE_BLK"}
  <2>1. (n - m) * HBLKSIZE \in Nat \ {0}
    BY <1>3, Whole
  <2> HIDE DEF m
  <2> QED
    BY <1>2, <1>4, <2>1 DEF IsHeader, FreeHeader, m
<1>6. /\ IsHeader(y) /\ y.sz = m * HBLKSIZE /\ y.flags = g.hdr[b].flags
      /\ z.sz = m * HBLKSIZE /\ z.flags = g.hdr[b].flags \cup {"FREE_BLK"} /\ IsHeader(z)
      /\ y.sz \div HBLKSIZE = m
  <2>1. m * HBLKSIZE \in Nat \ {0} /\ (m * HBLKSIZE) \div HBLKSIZE = m
    BY <1>3, Whole
  <2> QED
    BY <1>2, <2>1 DEF IsHeader
<1>7. k \in 0..N_HBLK_FLS
  BY <1>3, <1>6, FlRange DEF FlIndex
<1>8. DOMAIN g.hdr \cap hole \subseteq {b}
  <2> SUFFICES ASSUME NEW c \in DOMAIN g.hdr \cap hole, c # b PROVE FALSE
    OBVIOUS
  <2>1. c \in Extent(g, c)
    BY <1>1, Extents
  <2> HIDE DEF hole
  <2>2. Cut(g, heap, {}, {})
    BY <1>1 DEF But
  <2>3. c \in hole /\ c \in DOMAIN g.hdr /\ b \in DOMAIN g.hdr /\ Extent(g, b) = hole
    BY <1>2
  <2> QED
    BY ONLY <2>1, <2>2, <2>3, c # b DEF Cut
<1>9. s \notin DOMAIN g.hdr
  BY <1>3, <1>8
\* The state r.
<1>10. /\ cut.hdr = [c \in DOMAIN g.hdr \cup {s} |-> IF c = s THEN x ELSE g.hdr[c]]
       /\ cut.fwd = [c \in 0..NBLOCKS |-> IF c = s THEN 0 ELSE g.fwd[c]]
       /\ cut.hblkfreelist = g.hblkfreelist /\ DOMAIN cut = DOMAIN g /\ Kept(g, cut)
       /\ cut.index = g.index \cup {Segment(c) : c \in {s}}
  <2> HIDE DEF x
  <2>1. Fields \subseteq DOMAIN g /\ DOMAIN g.fwd = 0..NBLOCKS
    BY <1>1 DEF Typed
  <2>2. /\ cut.hdr = [c \in DOMAIN g.hdr \cup {s} |-> IF c = s THEN x ELSE g.hdr[c]]
        /\ cut.fwd = [c \in 0..NBLOCKS |-> IF c = s THEN 0 ELSE g.fwd[c]]
    BY ONLY <2>1 DEF GC_install_header, SetHdrs, get_index, Fields
  <2>3. /\ cut.hblkfreelist = g.hblkfreelist /\ DOMAIN cut = DOMAIN g /\ Kept(g, cut)
        /\ cut.index = g.index \cup {Segment(c) : c \in {s}}
    BY ONLY <2>1 DEF GC_install_header, SetHdrs, get_index, Fields, Kept
  <2> QED
    BY <2>2, <2>3
<1> DEFINE moved == [cut EXCEPT
                      !.hblkfreelist[i] = [j \in DOMAIN @ |-> IF @[j] = b THEN s ELSE @[j]],
                      !.free_bytes[i] = @ - (s - b) * HBLKSIZE,
                      !.hdr[b].sz = (s - b) * HBLKSIZE,
                      !.hdr[b].last_reclaimed = IF g.USE_MUNMAP THEN g.gc_no % USHORT ELSE @]
<1>11. q = GC_add_to_fl(moved, b)
  BY ONLY q = GC_split_block(g, b, s, i), Zenon DEF GC_split_block
<1>12. /\ moved.hblkfreelist = lists /\ moved.fwd = cut.fwd /\ DOMAIN moved = DOMAIN g
       /\ moved.hdr = [cut.hdr EXCEPT ![b] = y] /\ Kept(g, moved) /\ moved.index = cut.index
  <2> HIDE DEF cut, x
  <2>1. Fields \subseteq DOMAIN cut /\ i \in DOMAIN cut.hblkfreelist
    BY <1>1, <1>2, <1>10 DEF Typed
  <2>2. moved.hblkfreelist = [cut.hblkfreelist EXCEPT ![i] = list]
    BY <2>1, <1>10 DEF Fields
  <2>3. moved.fwd = cut.fwd /\ DOMAIN moved = DOMAIN cut /\ Kept(cut, moved)
        /\ moved.index = cut.index
    BY <2>1 DEF Fields, Kept
  <2>4. b \in DOMAIN cut.hdr /\ cut.hdr[b] = g.hdr[b]
    BY <1>2, <1>3, <1>10
  <2>5. DOMAIN moved.hdr = DOMAIN cut.hdr /\ \A c \in DOMAIN cut.hdr \ {b} : moved.hdr[c] = cut.hdr[c]
    BY <2>1, <2>4 DEF Fields
  <2>6. moved.hdr[b] = y
    BY <2>1, <2>4 DEF Fields
  <2>7. moved.hdr = [cut.hdr EXCEPT ![b] = y]
    <3>1. moved.hdr = [c \in DOMAIN moved.hdr |-> moved.hdr[c]]
      BY <2>1 DEF Fields
    <3> HIDE DEF moved, y
    <3> QED
      BY <2>4, <2>5, <2>6, <3>1
  <2> HIDE DEF moved, y, list
  <2> QED
    BY <1>10, <2>2, <2>3, <2>7 DEF Kept
<1> HIDE DEF cut, moved, x, y, lists, list
<1>13. /\ q.fwd = cut.fwd /\ Kept(g, q) /\ q.index = cut.index
       /\ q.hdr = [moved.hdr EXCEPT ![b] = [moved.hdr[b] EXCEPT !.flags = moved.hdr[b].flags \cup {"FREE_BLK"}]]
       /\ q.hblkfreelist = [lists EXCEPT ![FlIndex(moved.hdr[b])] = <<b>> \o lists[FlIndex(moved.hdr[b])]]
  <2>1. Fields \subseteq DOMAIN moved /\ k \in DOMAIN moved.hblkfreelist
    BY <1>1, <1>7, <1>12 DEF Typed, lists
  <2>2. /\ q.fwd = moved.fwd /\ Kept(moved, q) /\ q.index = moved.index
        /\ q.hdr = [moved.hdr EXCEPT ![b] = [moved.hdr[b] EXCEPT !.flags = moved.hdr[b].flags \cup {"FREE_BLK"}]]
    BY ONLY <1>11, <2>1 DEF GC_add_to_fl, Fields, Kept
  <2>3. q.hblkfreelist = [moved.hblkfreelist EXCEPT ![FlIndex(moved.hdr[b])] =
                            <<b>> \o moved.hblkfreelist[FlIndex(moved.hdr[b])]]
    BY ONLY <1>11, <2>1 DEF GC_add_to_fl, Fields
  <2> QED
    BY <1>12, <2>2, <2>3 DEF Kept
<1>14. /\ DOMAIN q.hdr = DOMAIN g.hdr \cup {s} /\ q.hdr[s] = x /\ q.hdr[b] = z
       /\ (\A c \in DOMAIN g.hdr \ {b} : q.hdr[c] = g.hdr[c])
       /\ q.hblkfreelist = [lists EXCEPT ![k] = <<b>> \o lists[k]]
       /\ moved.hdr[b] = y
  <2>1. moved.hdr[b] = y /\ DOMAIN moved.hdr = DOMAIN g.hdr \cup {s}
    BY <1>2, <1>10, <1>12
  <2>2. moved.hdr[s] = x /\ \A c \in DOMAIN g.hdr \ {b} : moved.hdr[c] = g.hdr[c]
    BY ONLY <1>2, <1>3, <1>9, <1>10, <1>12
  <2>3. q.hdr = [moved.hdr EXCEPT ![b] = z]
    BY ONLY <1>13, <2>1 DEF z
  <2>4. q.hblkfreelist = [lists EXCEPT ![k] = <<b>> \o lists[k]]
    BY ONLY <1>13, <2>1 DEF k
  <2> QED
    BY ONLY <1>2, <1>3, <1>9, <2>1, <2>2, <2>3, <2>4
<1>15. /\ r.hdr = q.hdr /\ r.fwd = cut.fwd /\ Kept(g, r) /\ r.index = cut.index
       /\ r.hblkfreelist = [q.hblkfreelist EXCEPT ![i] = Unlinked(q.hblkfreelist[i], s)]
  BY <1>1, <1>13 DEF GC_remove_from_fl_at, Typed, Fields, Kept
<1> HIDE DEF z, k
\* The same in another order.
<1> DEFINE t1 == GC_remove_from_fl_at(g, b, i)
           t2 == GC_install_header(t1, s, x)
           t3 == [t2 EXCEPT !.hdr[b] = y]
           t4 == GC_add_to_fl(t3, b)
<1>16. But(t1, heap, {b}, hole) /\ SameBlocks(g, t1) /\ \A c \in hole : g.fwd[c] = 0
  <2>1. t1 = GC_remove_from_fl_at(g, b, i)
    OBVIOUS
  <2> HIDE DEF t1, hole
  <2>2. But(t1, heap, {} \cup {b}, {} \cup Extent(g, b)) /\ SameBlocks(g, t1)
        /\ \A c \in Extent(g, b) : g.fwd[c] = 0
    BY <1>1, <2>1, TakeOff
  <2>3. {} \cup {b} = {b} /\ {} \cup Extent(g, b) = hole
    BY <1>2
  <2> QED
    BY <1>2, <2>2, <2>3
<1>17. But(t2, heap, {b} \cup {s}, hole) /\ Added(t1, t2, s, x)
  <2> DEFINE X == {b}
  <2>1. t2 = GC_install_header(t1, s, x) /\ But(t1, heap, X, hole) /\ s \in hole /\ IsHeader(x)
    BY <1>3, <1>5, <1>16
  <2> HIDE DEF t1, t2, X, hole
  <2>2. But(t2, heap, X \cup {s}, hole) /\ Added(t1, t2, s, x)
    BY ONLY <2>1, Installed
  <2> QED
    BY <2>2 DEF X
<1>18. b \in DOMAIN t2.hdr /\ t2.hdr[b] = g.hdr[b] /\ Typed(t2)
       /\ DOMAIN t2.hdr = DOMAIN g.hdr \cup {s}
       /\ \A c \in DOMAIN g.hdr : t2.hdr[c] = g.hdr[c]
  <2> HIDE DEF t1, t2
  <2> QED
    BY <1>2, <1>3, <1>9, <1>16, <1>17 DEF Outside, Added, SameBlocks, But
<1>19. /\ DOMAIN t3 = DOMAIN t2 /\ t3.hdr = [t2.hdr EXCEPT ![b] = y]
       /\ t3.fwd = t2.fwd /\ t3.hblkfreelist = t2.hblkfreelist /\ t3.index = t2.index
  <2> HIDE DEF t2
  <2> QED
    BY <1>18 DEF Typed, Fields
<1>20. But(t3, heap, {b} \cup {s}, hole)
  <2> DEFINE X == {b} \cup {s}
  <2>1. b \in X /\ But(t2, heap, X, hole) /\ IsHeader(y)
    BY <1>6, <1>17
  <2> HIDE DEF X, t2, t3, hole
  <2>2. But(t3, heap, X, hole)
    BY ONLY <1>18, <1>19, <2>1, Rewritten
  <2> QED
    BY <2>2 DEF X
<1>21. /\ t3.hdr[b] = y /\ \A c \in DOMAIN t2.hdr \ {b} : t3.hdr[c] = t2.hdr[c]
       /\ DOMAIN t3.hdr = DOMAIN t2.hdr
  <2> HIDE DEF t2, t3
  <2> QED
    BY <1>18, <1>19
<1>22. \A c \in hole : t3.fwd[c] = 0
  <2> HIDE DEF t1, t2, t3
  <2>1. hole \subseteq 0..NBLOCKS
    BY <1>2, InRange
  <2> QED
    BY <1>3, <1>16, <1>17, <1>19, <2>1 DEF Outside, Added, SameBlocks
<1>23. E \subseteq hole /\ s \notin E /\ b \in E /\ hole \ E = rest
  <2>1. b \in Nat /\ n \in Nat /\ m \in Nat \ {0} /\ n - m \in Nat \ {0} /\ s = b + m
    BY <1>2, <1>3
  <2> HIDE DEF m
  <2> QED
    BY ONLY <2>1
<1>24. Vacant(t3, b, m, E)
  <2> HIDE DEF t1, t2, t3
  <2> QED
    BY <1>3, <1>6, <1>18, <1>21, <1>22, <1>23 DEF Vacant
<1>25. But(t4, heap, {s}, rest) /\ Linked(t3, t4, b)
  <2> DEFINE X == {b} \cup {s}
  <2>1. /\ t4 = GC_add_to_fl(t3, b) /\ But(t3, heap, X, hole) /\ b \in X
        /\ E \subseteq hole /\ X \cap E = {b}
    BY <1>20, <1>23
  <2> HIDE DEF t3, t4, X, E, hole, m
  <2>2. But(t4, heap, X \ {b}, hole \ E) /\ Linked(t3, t4, b)
    BY ONLY <1>24, <2>1, PutOn
  <2>3. X \ {b} = {s}
    BY <1>3 DEF X
  <2> QED
    BY <1>23, <2>2, <2>3
<1>26. t4.hdr = r.hdr /\ t4.fwd = r.fwd /\ t4.index = r.index
  <2>1. t2.hdr = cut.hdr /\ t2.fwd = cut.fwd /\ t2.index = cut.index
    <3> HIDE DEF t1
    <3>1. Fields \subseteq DOMAIN t1 /\ t1.hdr = g.hdr /\ t1.fwd = g.fwd /\ Fields \subseteq DOMAIN g
          /\ t1.index = g.index
      BY <1>1, <1>16 DEF SameBlocks, Kept, Typed
    <3> HIDE DEF x
    <3> QED
      BY <3>1 DEF cut, GC_install_header, SetHdrs, get_index, Fields
  <2>2. t3.hdr = moved.hdr /\ t3.fwd = moved.fwd /\ Fields \subseteq DOMAIN t3
        /\ t3.index = moved.index
    <3> HIDE DEF t2, t3
    <3> QED
      BY <1>12, <1>18, <1>19, <2>1 DEF Typed
  <2> HIDE DEF t3
  <2>3. t4 = GC_add_to_fl(t3, b) /\ Fields \subseteq DOMAIN t3
    BY <2>2
  <2> HIDE DEF t4
  <2>4. /\ t4.fwd = t3.fwd /\ t4.index = t3.index
        /\ t4.hdr = [t3.hdr EXCEPT ![b] = [t3.hdr[b] EXCEPT !.flags = t3.hdr[b].flags \cup {"FREE_BLK"}]]
    BY ONLY <2>3 DEF GC_add_to_fl, Fields
  <2>5. t4.hdr = q.hdr
    BY ONLY <1>13, <2>2, <2>4
  <2> QED
    BY ONLY <1>12, <1>15, <2>2, <2>4, <2>5
<1>27. But(t4, heap, {s}, rest)
  BY <1>25
<1> HIDE DEF t1, t2, t3, t4
<1>28. "FREE_BLK" \in r.hdr[b].flags /\ r.hdr[b].sz = m * HBLKSIZE /\ IsHeader(r.hdr[b])
       /\ r.hdr[s] = x /\ FlIndex(r.hdr[b]) = k /\ DOMAIN r.hdr = DOMAIN g.hdr \cup {s}
       /\ \A c \in DOMAIN g.hdr \ {b} : r.hdr[c] = g.hdr[c]
  <2>1. z.sz = y.sz
    BY ONLY <1>6
  <2>2. FlIndex(z) = k
    BY ONLY <2>1 DEF FlIndex, k
  <2> QED
    BY ONLY <1>6, <1>14, <1>15, <2>2
<1>29. FreeBlocks(r) \ {s} = FreeBlocks(g)
  BY <1>2, <1>3, <1>9, <1>28 DEF FreeBlocks, IsFree, HasHdr, HBLK_IS_FREE
<1>30. ASSUME NEW j \in 0..N_HBLK_FLS
       PROVE  FreeOf(r, {s}, j) = (FreeOf(g, {}, j) \ {b}) \cup (IF j = k THEN {b} ELSE {})
  <2>1. FreeBlocks(g) \subseteq DOMAIN g.hdr
    BY DEF FreeBlocks
  <2> QED
    BY <1>28, <1>29, <2>1 DEF FreeOf
<1>31. ASSUME NEW j \in 0..N_HBLK_FLS
       PROVE  r.hblkfreelist[j] \in Seq(Blocks) /\ Lists(r.hblkfreelist[j], FreeOf(r, {s}, j))
  <2> DEFINE old == g.hblkfreelist[j]
             S == FreeOf(g, {}, j)
             mid == lists[j]
             M == IF j = i THEN (S \ {b}) \cup {s} ELSE S
             new == q.hblkfreelist[j]
             W == IF j = k THEN M \cup {b} ELSE M
  <2>1. old \in Seq(Blocks) /\ Lists(old, S) /\ DOMAIN g.hblkfreelist = 0..N_HBLK_FLS
    BY <1>1 DEF But, Typed, Listed
  <2>2. s \in Blocks /\ s \notin S /\ (b \in S <=> j = i)
    BY <1>2, <1>3, <1>9 DEF FreeOf, FreeBlocks, IsFree
  <2>3. mid = IF j = i THEN [p \in DOMAIN old |-> IF old[p] = b THEN s ELSE old[p]] ELSE old
    BY <1>2, <2>1 DEF lists, list
  <2> HIDE DEF mid, old, S
  <2>4. mid \in Seq(Blocks) /\ Lists(mid, M)
    <3>1. CASE j = i
      <4>1. b \in S
        BY <2>2, <3>1
      <4> DEFINE v == [p \in DOMAIN old |-> IF old[p] = b THEN s ELSE old[p]]
                 V == (S \ {b}) \cup {s}
      <4>2. v \in Seq(Blocks) /\ Lists(v, V)
        BY <2>1, <2>2, <4>1, ReplacedLists
      <4>3. mid = v /\ M = V
        BY <2>3, <3>1
      <4> HIDE DEF v, V, M
      <4> QED
        BY <4>2, <4>3
    <3>2. CASE j # i
      BY <2>1, <2>3, <3>2
    <3> QED
      BY <3>1, <3>2
  <2>5. b \notin M /\ b \in Blocks
    BY <1>2, <1>3, <2>2
  <2>6. new = IF j = k THEN <<b>> \o mid ELSE mid
    <3>1. DOMAIN lists = 0..N_HBLK_FLS
      BY <2>1 DEF lists
    <3> QED
      BY <1>7, <1>14, <3>1 DEF mid
  <2> HIDE DEF new, M
  <2>7. new \in Seq(Blocks) /\ Lists(new, W)
    <3>1. <<b>> \o mid \in Seq(Blocks) /\ Lists(<<b>> \o mid, M \cup {b})
      BY ONLY <2>4, <2>5, LinkedLists
    <3> QED
      BY ONLY <2>4, <2>6, <3>1
  <2>8. r.hblkfreelist[j] = IF j = i THEN Unlinked(new, s) ELSE new
    BY <1>2, <1>14, <1>15, <2>1 DEF lists, new
  <2>9. Unlinked(new, s) \in Seq(Blocks) /\ Lists(Unlinked(new, s), W \ {s})
    <3> HIDE DEF W
    <3> QED
      BY ONLY <2>7, UnlinkedLists
  <2>10. FreeOf(r, {s}, j) = IF j = i THEN W \ {s} ELSE W
    <3>1. FreeOf(r, {s}, j) = (S \ {b}) \cup (IF j = k THEN {b} ELSE {})
      BY <1>30 DEF S
    <3> QED
      BY <1>3, <2>2, <3>1 DEF M
  <2> HIDE DEF W
  <2> QED
    BY <2>7, <2>8, <2>9, <2>10
<1>32. Typed(r)
  <2>1. DOMAIN r.hblkfreelist = 0..N_HBLK_FLS
        /\ r.hblkfreelist \in [0..N_HBLK_FLS -> Seq(Blocks)]
    <3>1. r.hblkfreelist = [j \in 0..N_HBLK_FLS |-> r.hblkfreelist[j]]
      BY <1>1, <1>14, <1>15 DEF lists, Typed
    <3> QED
      BY <1>31, <3>1
  <2>2. Typed(t4) /\ DOMAIN r = DOMAIN g
    BY <1>15, <1>27 DEF But, Kept
  <2> QED
    BY <1>1, <1>26, <2>1, <2>2 DEF Typed, Indexed
<1>33. Listed(r, {s})
  BY <1>31 DEF Listed
<1>34. But(r, heap, {s}, rest)
  <2> DEFINE X == {s}
  <2>1. But(t4, heap, X, rest) /\ Listed(r, X)
    BY <1>27, <1>33
  <2> HIDE DEF X, rest
  <2>2. But(r, heap, X, rest)
    BY ONLY <1>26, <1>32, <2>1, Reordered
  <2> QED
    BY <2>2 DEF X
<1>35. rest = s..(s + (n - m) - 1) /\ s \in DOMAIN r.hdr /\ r.hdr[s].sz = (n - m) * HBLKSIZE
  <2>1. s + (n - m) - 1 = b + n - 1
    <3>1. s \in Nat /\ b \in Nat /\ n \in Nat
      BY <1>2, <1>3
    <3> QED
      BY ONLY <3>1
  <2>2. r.hdr[s] = x /\ s \in DOMAIN r.hdr
    BY <1>28
  <2> QED
    BY ONLY <1>5, <2>1, <2>2
<1>36. \A c \in rest : r.fwd[c] = 0
  <2>1. rest \subseteq hole /\ hole \subseteq 0..NBLOCKS
    BY <1>2, <1>3, InRange
  <2> QED
    BY <1>10, <1>15, <1>16, <2>1
<1>37. Clear(r, heap, s, n - m)
  <2> HIDE DEF rest, m
  <2> QED
    BY <1>3, <1>34, <1>35, <1>36 DEF Clear, Held, Vacant
<1>38. Lone(g, NULL) => Lone(r, s) /\ Fenced(r, s, b + n - s)
  <2>1. /\ r.hdr[b].flags = g.hdr[b].flags \cup {"FREE_BLK"} /\ r.hdr[b].sz = (s - b) * HBLKSIZE
        /\ r.hdr[s].flags = {"FREE_BLK"} /\ r.USE_MUNMAP = g.USE_MUNMAP
    BY ONLY <1>5, <1>6, <1>14, <1>15 DEF Kept
  <2>2. Good(g, heap) /\ b \in FreeBlocks(g) /\ n = N(g, b) /\ s \in (b + 1)..(b + n - 1)
    OBVIOUS
  <2> QED
    BY ONLY <1>9, <1>28, <2>1, <2>2, CutLone
<1> QED
  BY <1>3, <1>5, <1>13, <1>14, <1>15, <1>37, <1>38

\* The first k of the blocks of a free block from s on.
LEMMA CarvedBehind ==
  ASSUME NEW g, NEW heap, Good(g, heap), NEW b \in FreeBlocks(g), NEW i, i = FlIndex(g.hdr[b]),
         NEW n, n = N(g, b), NEW s \in (b + 1)..(b + n - 1), NEW k \in 1..(b + n - s),
         NEW q, q = GC_split_block(g, b, s, i),
         NEW r, r = GC_get_first_part(Remap(q, s), s, k * HBLKSIZE, i)
  PROVE  /\ Held(r, heap, s, k) /\ Kept(g, r)
         /\ Lone(g, NULL) => Lone(r, s)
<1> DEFINE taken == GC_remove_from_fl_at(q, s, i)
           m == b + n - s
<1>1. /\ Clear(taken, heap, s, m) /\ Kept(g, taken)
      /\ taken.hdr = q.hdr /\ q.hdr[s].flags = {"FREE_BLK"}
      /\ Lone(g, NULL) => Lone(taken, s) /\ Fenced(taken, s, m)
  <2>1. taken = GC_remove_from_fl_at(q, s, i)
    OBVIOUS
  <2> HIDE DEF taken
  <2> QED
    BY <2>1, CutOff
<1>2. Remap(q, s) = q
  BY <1>1 DEF Remap, IS_MAPPED
<1>3. r = GC_get_first_part(q, s, k * HBLKSIZE, i) /\ k \in 1..m
      /\ taken = GC_remove_from_fl_at(q, s, i)
  BY <1>2
<1> HIDE DEF taken, m
<1>4. Held(r, heap, s, k) /\ Kept(taken, r)
      /\ (Lone(taken, s) /\ Fenced(taken, s, m) => Lone(r, s))
  BY ONLY <1>1, <1>3, FirstPart
<1> QED
  BY <1>1, <1>4 DEF Kept

-----------------------------------------------------------------------------
\* A black-listed free block given up.
LEMMA Dropped ==
  ASSUME NEW g, NEW heap, Good(g, heap), NEW b \in FreeBlocks(g), NEW i, i = FlIndex(g.hdr[b]),
         NEW r, r = DropBlock(g, b, i)
  PROVE  /\ Good(r, heap) /\ Kept(g, r) /\ Stays(g, r)
         /\ \A c \in DOMAIN g.hdr \ {b} : c \in DOMAIN r.hdr /\ r.hdr[c] = g.hdr[c]
<1> DEFINE n == N(g, b)
           B == b..(b + n - 1)
           taken == GC_remove_from_fl_at(g, b, i)
           off == [taken EXCEPT !.large_free_bytes = @ - g.hdr[b].sz, !.bytes_dropped = @ + g.hdr[b].sz]
           x == setup_header(g, HBLKSIZE, PTRFREE, {})
           header == [c \in B |-> x]
<1>1. Clear(taken, heap, b, n) /\ SameBlocks(g, taken)
  BY Taken
<1>2. /\ But(taken, heap, {b}, B) /\ n \in Nat \ {0} /\ Typed(taken) /\ B \subseteq Blocks
      /\ b \in DOMAIN taken.hdr
  BY <1>1 DEF Clear, Held, But, Vacant
<1>3. b \in Nat /\ b \in B /\ n \in Nat \ {0}
  BY <1>2, Extents
<1>4. g.hdr[b].sz \div HBLKSIZE = n
  <2>1. g.hdr[b].sz = n * HBLKSIZE
    BY <1>1 DEF Clear, Vacant, SameBlocks
  <2> HIDE DEF n
  <2> QED
    BY <1>3, <2>1, Whole
<1>5. r = SetHdrs(get_index(off, B), header)
  BY <1>4 DEF DropBlock
<1>6. /\ DOMAIN off = DOMAIN taken /\ off.hdr = taken.hdr /\ off.fwd = taken.fwd
      /\ off.hblkfreelist = taken.hblkfreelist /\ off.index = taken.index /\ Kept(taken, off)
  <2> HIDE DEF taken
  <2> QED
    BY <1>2 DEF Typed, Fields, Kept
<1>7. But(off, heap, {b}, B) /\ Typed(off)
  <2> DEFINE X == {b}
  <2>1. But(taken, heap, X, B)
    BY <1>2
  <2> HIDE DEF taken, off, X, B
  <2>2. But(off, heap, X, B)
    BY <1>6, <2>1, Unrelated
  <2> QED
    BY <2>2 DEF X, But
<1>8. IsHeader(x) /\ x.sz = HBLKSIZE /\ x.flags = {}
  BY HeaderSizes DEF IsHeader, setup_header
<1>9. DOMAIN header = B /\ (\A c \in B : header[c] = x) /\ \A c \in DOMAIN header : IsHeader(header[c])
  BY <1>8
<1> HIDE DEF taken, off, header, x, B, n
<1>10. /\ Typed(r) /\ Kept(off, r) /\ r.hblkfreelist = off.hblkfreelist
       /\ DOMAIN r.hdr = DOMAIN off.hdr \cup B
       /\ \A c \in B : r.hdr[c] = x /\ r.fwd[c] = 0
       /\ \A c \in DOMAIN off.hdr \ B : r.hdr[c] = off.hdr[c]
       /\ \A c \in (0..NBLOCKS) \ B : r.fwd[c] = off.fwd[c]
  <2>1. DOMAIN header \subseteq Blocks
    BY <1>2, <1>9
  <2>2. /\ Typed(r) /\ Kept(off, r) /\ r.hblkfreelist = off.hblkfreelist
        /\ DOMAIN r.hdr = DOMAIN off.hdr \cup DOMAIN header
        /\ \A c \in DOMAIN header : r.hdr[c] = header[c] /\ r.fwd[c] = 0
        /\ \A c \in DOMAIN off.hdr \ DOMAIN header : r.hdr[c] = off.hdr[c]
        /\ \A c \in (0..NBLOCKS) \ DOMAIN header : r.fwd[c] = off.fwd[c]
    BY ONLY <1>5, <1>7, <1>9, <2>1, SetHdrsIs
  <2> QED
    BY <1>9, <2>2
<1>11. DOMAIN off.hdr \cap B = {b}
  <2>1. DOMAIN off.hdr \cap B \subseteq {b}
    BY <1>7, HoleHeaders
  <2> QED
    BY <1>2, <1>3, <1>6, <2>1
<1>12. \A c \in B : Extent(r, c) = {c} /\ "FREE_BLK" \notin r.hdr[c].flags
  <2> SUFFICES ASSUME NEW c \in B PROVE Extent(r, c) = {c} /\ "FREE_BLK" \notin r.hdr[c].flags
    OBVIOUS
  <2>1. r.hdr[c].sz = 1 * HBLKSIZE /\ "FREE_BLK" \notin r.hdr[c].flags
    BY <1>8, <1>10, HeaderSizes
  <2>2. OBJ_SZ_TO_BLOCKS(r.hdr[c].sz) = 1
    BY <2>1, Whole
  <2>3. c \in Nat
    BY <1>2, InRange
  <2> QED
    BY <2>1, <2>2, <2>3 DEF Extent
<1>13. But(r, heap, {}, {})
  <2> DEFINE X == {b}
  <2>1. /\ But(off, heap, X, B) /\ B \in SUBSET B /\ X \cap B \subseteq B
        /\ DOMAIN r.hdr \ (X \ B) = (DOMAIN off.hdr \ X) \cup B
        /\ (\A d \in B : "FREE_BLK" \notin r.hdr[d].flags /\ Extent(r, d) \subseteq B)
        /\ (\A d, c \in B : d # c => Extent(r, d) \cap Extent(r, c) = {})
        /\ (\A c \in B : \E d \in B : c \in Extent(r, d))
        /\ (\A d \in B : \A c \in Extent(r, d) \ {d} : r.fwd[c] = Jump(c - d))
    BY <1>3, <1>7, <1>10, <1>11, <1>12
  <2>2. /\ \A c \in DOMAIN off.hdr \ X : r.hdr[c] = off.hdr[c]
        /\ \A c \in (0..NBLOCKS) \ B : r.fwd[c] = off.fwd[c]
    BY <1>10, <1>11
  <2>3. X \ B = {} /\ B \ B = {}
    BY <1>3
  <2>4. But(r, heap, X \ B, B \ B)
    <3> HIDE DEF X
    <3> QED
      BY ONLY <1>10, <2>1, <2>2, Filled
  <2> QED
    BY <2>3, <2>4
<1>14. \A c \in DOMAIN g.hdr \ {b} : c \in DOMAIN r.hdr /\ r.hdr[c] = g.hdr[c]
  BY <1>1, <1>6, <1>10, <1>11 DEF SameBlocks
<1>15. Stays(g, r)
  <2> SUFFICES ASSUME Lone(g, NULL) PROVE Lone(r, NULL)
    BY DEF Stays
  <2>1. r.USE_MUNMAP = g.USE_MUNMAP /\ off.hdr = g.hdr
    BY <1>1, <1>6, <1>10 DEF Kept, SameBlocks
  <2>2. \A c \in DOMAIN r.hdr : ~g.USE_MUNMAP => IS_MAPPED(r.hdr[c])
    <3>1. ~g.USE_MUNMAP => \A c \in DOMAIN g.hdr : IS_MAPPED(g.hdr[c])
      BY DEF Lone
    <3> QED
      BY <1>8, <1>10, <2>1, <3>1 DEF IS_MAPPED
  <2>3. \A c \in FreeBut(r, NULL) : c \in FreeBut(g, NULL) /\ N(r, c) = N(g, c)
    BY <1>8, <1>10, <2>1 DEF FreeBut, FreeBlocks, IsFree, HasHdr, HBLK_IS_FREE, N
  <2> QED
    BY ONLY <2>1, <2>2, <2>3, Lone(g, NULL), FewerLone
<1> QED
  BY <1>1, <1>6, <1>10, <1>13, <1>14, <1>15 DEF Good, Kept, SameBlocks

-----------------------------------------------------------------------------
\* The search of one list.
LEMMA KeptOn ==
  ASSUME NEW g, NEW r, Kept(g, r), NEW q, Kept(r, q)
  PROVE  Kept(g, q)
BY DEF Kept

LEMMA Remaining ==
  ASSUME NEW g, NEW heap, Good(g, heap), NEW b \in FreeBlocks(g), NEW r, r = Remap(g, b)
  PROVE  /\ Good(r, heap) /\ Kept(g, r) /\ b \in FreeBlocks(r) /\ Stays(g, r)
         /\ N(r, b) = N(g, b) /\ FlIndex(r.hdr[b]) = FlIndex(g.hdr[b])
<1>1. /\ Good(r, heap) /\ Kept(g, r)
      /\ FreeBlocks(r) = FreeBlocks(g)
      /\ \A c \in DOMAIN g.hdr : r.hdr[c].sz = g.hdr[c].sz
  BY Remapped
<1>2. r.hdr[b].sz = g.hdr[b].sz
  BY <1>1 DEF FreeBlocks
<1>3. Lone(g, NULL) => Lone(r, NULL)
  <2>1. CASE g.USE_MUNMAP
    BY <1>1, <2>1 DEF Kept, Lone
  <2>2. CASE ~g.USE_MUNMAP
    <3>1. Lone(g, NULL) => r = g
      BY <2>2 DEF Lone, Remap, FreeBlocks
    <3> QED
      BY <3>1
  <2> QED
    BY <2>1, <2>2
<1> QED
  BY <1>1, <1>2, <1>3 DEF N, FlIndex, Stays

LEMMA TakenWhole ==
  ASSUME NEW g, NEW heap, Good(g, heap), NEW b \in FreeBlocks(g), NEW i, i = FlIndex(g.hdr[b]),
         NEW k \in 1..N(g, b), NEW r, r = GC_get_first_part(Remap(g, b), b, k * HBLKSIZE, i)
  PROVE  /\ Held(r, heap, b, k) /\ Kept(g, r)
         /\ Lone(g, NULL) => Lone(r, b)
<1> DEFINE q == Remap(g, b)
<1>1. /\ Good(q, heap) /\ Kept(g, q) /\ b \in FreeBlocks(q) /\ Stays(g, q)
      /\ N(q, b) = N(g, b) /\ FlIndex(q.hdr[b]) = FlIndex(g.hdr[b])
  BY Remaining
<1>2. r = GC_get_first_part(q, b, k * HBLKSIZE, i) /\ i = FlIndex(q.hdr[b]) /\ k \in 1..N(q, b)
  BY <1>1
<1> HIDE DEF q
<1>3. Held(r, heap, b, k) /\ Kept(q, r) /\ (Lone(q, NULL) => Lone(r, b))
  BY ONLY <1>1, <1>2, Carved
<1> QED
  BY ONLY <1>1, <1>3, KeptOn DEF Stays

LEMMA TakenBehind ==
  ASSUME NEW g, NEW heap, Good(g, heap), NEW b \in FreeBlocks(g), NEW i, i = FlIndex(g.hdr[b]),
         NEW n, n = N(g, b), NEW s \in (b + 1)..(b + n - 1), NEW k \in 1..(b + n - s),
         NEW r,
         r = GC_get_first_part(Remap(GC_split_block(Remap(g, b), b, s, i), s), s, k * HBLKSIZE, i)
  PROVE  /\ Held(r, heap, s, k) /\ Kept(g, r)
         /\ Lone(g, NULL) => Lone(r, s)
<1> DEFINE p == Remap(g, b)
           q == GC_split_block(p, b, s, i)
<1>1. /\ Good(p, heap) /\ Kept(g, p) /\ b \in FreeBlocks(p) /\ Stays(g, p)
      /\ N(p, b) = N(g, b) /\ FlIndex(p.hdr[b]) = FlIndex(g.hdr[b])
  BY Remaining
<1>2. /\ i = FlIndex(p.hdr[b]) /\ n = N(p, b)
      /\ s \in (b + 1)..(b + n - 1) /\ k \in 1..(b + n - s)
      /\ q = GC_split_block(p, b, s, i) /\ r = GC_get_first_part(Remap(q, s), s, k * HBLKSIZE, i)
  BY <1>1
<1> HIDE DEF p, q
<1>3. Held(r, heap, s, k) /\ Kept(p, r) /\ (Lone(p, NULL) => Lone(r, s))
  BY ONLY <1>1, <1>2, CarvedBehind
<1> QED
  BY ONLY <1>1, <1>3, KeptOn DEF Stays

Searching(acc, heap) ==
  DOMAIN acc = {"h", "result"} /\ acc.result = NULL /\ Good(acc.h, heap)
Found(acc, heap, k) ==
  DOMAIN acc = {"h", "result"} /\ acc.result # NULL /\ Held(acc.h, heap, acc.result, k)

\* The other blocks of the list are left alone.
Passed(g, r, b) == \A c \in DOMAIN g.hdr \ {b} : c \in DOMAIN r.hdr /\ r.hdr[c] = g.hdr[c]

\* None but the block found has come to lie beside another.
Still(g, acc) == Lone(g, NULL) => Lone(acc.h, acc.result)

LEMMA FoundIs ==
  ASSUME NEW g, NEW heap, NEW b \in Blocks, NEW k, NEW r, Held(r, heap, b, k), Kept(g, r),
         Lone(g, NULL) => Lone(r, b), NEW acc, acc = [h |-> r, result |-> b]
  PROVE  Found(acc, heap, k) /\ Kept(g, acc.h) /\ Still(g, acc)
BY InRange DEF Found, Still

LEMMA Tried ==
  ASSUME NEW acc, NEW heap, Searching(acc, heap),
         NEW b \in FreeBlocks(acc.h), NEW n, n = FlIndex(acc.h.hdr[b]),
         NEW sz \in Nat \ {0}, NEW kind, NEW flags, NEW may_split,
         NEW r, r = TryBlock(acc, b, sz, kind, flags, n, may_split)
  PROVE  /\ Kept(acc.h, r.h) /\ Still(acc.h, r)
         /\ \/ Found(r, heap, OBJ_SZ_TO_BLOCKS(sz))
            \/ Searching(r, heap) /\ Passed(acc.h, r.h, b)
<1> DEFINE g       == acc.h
           m       == OBJ_SZ_TO_BLOCKS(sz)
           k       == N(g, b)
           size    == g.hdr[b].sz
           needed  == HBLKSIZE * m
           avoids  == /\ ~IS_UNCOLLECTABLE(kind)
                      /\ kind # PTRFREE \/ needed > MAX_BLACK_LIST_ALLOC
           eff     == IF "IGNORE_OFF_PAGE" \in flags THEN 1 ELSE needed \div HBLKSIZE
           tries   == (size - needed) \div HBLKSIZE + 1
           start   == IF avoids THEN BehindBlackListed(g, b, tries, eff) ELSE b
           avail   == size - (start - b) * HBLKSIZE
           first   == GC_get_first_part(Remap(g, b), b, needed, n)
           split   == GC_split_block(Remap(g, b), b, start, n)
           part    == GC_get_first_part(Remap(split, start), start, needed, n)
           counted == [g EXCEPT !.drop_count = (@ + 1) % 4]
           dropped == [acc EXCEPT !.h = IF counted.drop_count = 0
                                        THEN DropBlock(counted, b, n) ELSE counted]
<1>1. \/ r = acc
      \/ r = [h |-> first, result |-> b] /\ ~(size < needed)
      \/ /\ r = [h |-> part, result |-> start] /\ ~(size < needed)
         /\ avail >= needed /\ start # b
      \/ r = dropped
  <2> DEFINE list    == g.hblkfreelist[n]
             at      == CHOOSE j \in DOMAIN list : list[j] = b
             better  == /\ at < Len(list)
                        /\ g.hdr[list[at + 1]].sz < size
                        /\ g.hdr[list[at + 1]].sz >= needed
                        /\ GC_is_black_listed(g, list[at + 1], needed \div HBLKSIZE) = NULL
             short   == size < needed
             skipped == \/ short
                        \/ size # needed /\ (may_split = NoSplit \/ better)
             remote  == may_split = AVOID_SPLIT_REMAPPED /\ ~IS_MAPPED(g.hdr[b])
             hard    == needed > g.black_list_spacing /\ size - needed > g.black_list_spacing
             wasted  == avail = 0 /\ needed = HBLKSIZE /\ IS_MAPPED(g.hdr[b]) /\ ~g.find_leak
  <2>1. r = IF acc.result # NULL \/ skipped THEN acc
            ELSE IF avail >= needed
                 THEN IF start = b THEN [h |-> first, result |-> b]
                      ELSE IF remote THEN acc ELSE [h |-> part, result |-> start]
            ELSE IF hard THEN [h |-> first, result |-> b]
            ELSE IF wasted THEN dropped
            ELSE acc
    BY ONLY r = TryBlock(acc, b, sz, kind, flags, n, may_split), Zenon DEF TryBlock
  <2> HIDE DEF better, short
  <2>2. short => skipped
    OBVIOUS
  <2> HIDE DEF skipped, remote, hard, wasted, first, part, dropped, avail, start, size, needed
  <2> QED
    BY ONLY <2>1, <2>2 DEF short
<1>2. /\ DOMAIN acc = {"h", "result"} /\ acc.result = NULL /\ Good(g, heap)
      /\ b \in FreeBlocks(g) /\ n = FlIndex(g.hdr[b])
  BY DEF Searching
<1>3. k \in Nat \ {0} /\ size = k * HBLKSIZE /\ b \in Blocks /\ b \in Nat
  <2> DEFINE X == {}
  <2>1. But(g, heap, X, {}) /\ b \in FreeBlocks(g) \ X
    BY <1>2 DEF Good
  <2> HIDE DEF X, g
  <2>2. k \in Nat \ {0} /\ size = k * HBLKSIZE /\ b \in Blocks
    BY ONLY <2>1, FreeFacts
  <2> QED
    BY ONLY <2>2, InRange
<1>4. HBLKSIZE \in Nat \ {0} /\ m \in Nat \ {0} /\ needed = m * HBLKSIZE
      /\ needed \div HBLKSIZE = m
  <2>1. HBLKSIZE \in Nat \ {0} /\ m \in Nat \ {0}
    BY HeaderSizes, Rounded
  <2>2. needed = m * HBLKSIZE
    BY <2>1
  <2> QED
    BY <2>1, <2>2, Whole
<1>5. Kept(g, g) /\ Passed(g, g, b)
  BY DEF Kept, Passed
<1>6. CASE r = acc
  BY <1>2, <1>5, <1>6 DEF Searching, Still
<1> HIDE DEF size, needed, m
<1>7. ASSUME ~(size < needed) PROVE m \in 1..k
  <2> HIDE DEF k
  <2>1. k * HBLKSIZE >= m * HBLKSIZE
    <3>1. k * HBLKSIZE \in Nat /\ m * HBLKSIZE \in Nat
      BY ONLY <1>3, <1>4
    <3> QED
      BY ONLY <1>3, <1>4, <1>7, <3>1
  <2>2. m <= k
    BY ONLY <1>3, <1>4, <2>1, Multiples
  <2> QED
    BY ONLY <1>3, <1>4, <2>2
<1>8. ASSUME r = [h |-> first, result |-> b], ~(size < needed)
      PROVE  Found(r, heap, m) /\ Kept(g, r.h) /\ Still(g, r)
  <2>1. m \in 1..k
    BY <1>7, <1>8
  <2>2. first = GC_get_first_part(Remap(g, b), b, m * HBLKSIZE, n)
    BY <1>4
  <2>3. k = N(g, b) /\ r = [h |-> first, result |-> b]
    BY <1>8
  <2> HIDE DEF first, g, k
  <2>4. Held(first, heap, b, m) /\ Kept(g, first) /\ (Lone(g, NULL) => Lone(first, b))
    BY ONLY <1>2, <2>1, <2>2, <2>3, TakenWhole
  <2> QED
    BY ONLY <1>3, <2>3, <2>4, FoundIs
<1>9. ASSUME r = [h |-> part, result |-> start], ~(size < needed), avail >= needed, start # b
      PROVE  Found(r, heap, m) /\ Kept(g, r.h) /\ Still(g, r)
  <2>1. m \in 1..k
    BY <1>7, <1>9
  <2>2. start \in Nat /\ start > b
    <3>1. eff \in Nat \ {0}
      BY <1>4
    <3>2. tries \in Nat
      <4> HIDE DEF k
      <4>1. k * HBLKSIZE - m * HBLKSIZE = (k - m) * HBLKSIZE /\ k - m \in Nat
        BY ONLY <1>3, <1>4, <2>1
      <4>2. (size - needed) \div HBLKSIZE = k - m
        BY ONLY <1>3, <1>4, <4>1, Whole
      <4> QED
        BY ONLY <4>1, <4>2
    <3> HIDE DEF eff, tries, g
    <3>3. CASE avoids
      <4> DEFINE behind == BehindBlackListed(g, b, tries, eff)
      <4>1. start = behind
        BY <3>3
      <4> HIDE DEF behind
      <4>2. behind \in b..(b + tries + eff)
        BY ONLY <1>3, <3>1, <3>2, Behind DEF behind
      <4>3. start # b
        BY <1>9
      <4> HIDE DEF start
      <4> QED
        BY ONLY <4>1, <4>2, <4>3, <3>1, <3>2, <1>3
    <3>4. ~avoids => start = b
      OBVIOUS
    <3> HIDE DEF avoids, start
    <3> QED
      BY ONLY <1>9, <3>3, <3>4
  <2> DEFINE s == start
  <2>3. s \in Nat /\ s > b /\ size - (s - b) * HBLKSIZE >= needed
    BY <1>9, <2>2
  <2>4. /\ part = GC_get_first_part(Remap(GC_split_block(Remap(g, b), b, s, n), s), s,
                                    m * HBLKSIZE, n)
        /\ r = [h |-> part, result |-> s] /\ k = N(g, b)
    BY <1>4, <1>9
  <2> HIDE DEF s, g, k, part
  <2>5. s \in (b + 1)..(b + k - 1) /\ m \in 1..(b + k - s)
    <3>1. s - b \in Nat /\ s - b + m \in Nat
      BY ONLY <1>3, <1>4, <2>3
    <3>2. (s - b + m) * HBLKSIZE = (s - b) * HBLKSIZE + m * HBLKSIZE
      BY ONLY <1>4, <3>1
    <3>3. (s - b + m) * HBLKSIZE <= k * HBLKSIZE
      <4>1. (s - b) * HBLKSIZE \in Nat /\ m * HBLKSIZE \in Nat /\ k * HBLKSIZE \in Nat
        BY ONLY <1>3, <1>4, <3>1
      <4> QED
        BY ONLY <4>1, <1>3, <1>4, <2>3, <3>2
    <3>4. s - b + m <= k
      BY ONLY <1>3, <1>4, <3>1, <3>3, Multiples
    <3> QED
      BY ONLY <1>3, <1>4, <2>3, <3>4
  <2>6. Held(part, heap, s, m) /\ Kept(g, part) /\ (Lone(g, NULL) => Lone(part, s))
    BY ONLY <1>2, <2>4, <2>5, TakenBehind
  <2>7. s \in Blocks
    <3>1. s \in DOMAIN part.hdr /\ Typed(part)
      BY ONLY <2>6 DEF Held, But
    <3> QED
      BY ONLY <3>1 DEF Typed
  <2> QED
    BY ONLY <2>4, <2>6, <2>7, FoundIs
<1>10. ASSUME r = dropped
      PROVE  Searching(r, heap) /\ Kept(g, r.h) /\ Passed(g, r.h, b) /\ Still(g, r)
  <2> DEFINE c == counted
  <2>1. /\ c.hdr = g.hdr /\ c.fwd = g.fwd /\ c.hblkfreelist = g.hblkfreelist /\ c.index = g.index
        /\ DOMAIN c = DOMAIN g /\ Kept(g, c)
    BY DEF Kept
  <2>2. Good(c, heap)
    BY <1>2, <2>1, Unrelated DEF Good
  <2>3. b \in FreeBlocks(c) /\ n = FlIndex(c.hdr[b]) /\ Passed(g, c, b)
    BY <1>2, <2>1 DEF FreeBlocks, IsFree, HasHdr, Passed
  <2>4. DOMAIN r = {"h", "result"} /\ r.result = NULL
    BY <1>2, <1>10
  <2>5. r.h = IF c.drop_count = 0 THEN DropBlock(c, b, n) ELSE c
    BY <1>2, <1>10
  <2> HIDE DEF c, g
  <2>6. CASE r.h = c
    <3>1. Stays(g, c)
      BY <2>1, StaysAlike DEF Kept
    <3> QED
      BY <2>1, <2>2, <2>3, <2>4, <2>6, <3>1 DEF Searching, Still, Stays
  <2>7. CASE r.h = DropBlock(c, b, n)
    <3> DEFINE q == r.h
    <3>1. q = DropBlock(c, b, n)
      BY <2>7
    <3> HIDE DEF q
    <3>2. /\ Good(q, heap) /\ Kept(c, q) /\ Stays(c, q)
          /\ \A d \in DOMAIN c.hdr \ {b} : d \in DOMAIN q.hdr /\ q.hdr[d] = c.hdr[d]
      BY ONLY <2>2, <2>3, <3>1, Dropped
    <3>3. Passed(g, q, b)
      BY ONLY <2>1, <3>2 DEF Passed
    <3>4. Kept(g, q)
      BY ONLY <2>1, <3>2, KeptOn
    <3>5. Stays(g, c)
      BY ONLY <2>1, StaysAlike DEF Kept
    <3> QED
      BY <2>4, <3>2, <3>3, <3>4, <3>5 DEF Searching, Still, Stays, q
  <2> QED
    BY <2>5, <2>6, <2>7
<1> HIDE DEF first, part, dropped, start, avail, g
<1> QED
  BY ONLY <1>1, <1>6, <1>8, <1>9, <1>10 DEF g, m

\* The first k blocks of the list have been tried.
Tries(g, heap, n, m, k, acc) ==
  /\ Kept(g, acc.h) /\ Still(g, acc)
  /\ \/ Found(acc, heap, m)
     \/ /\ Searching(acc, heap)
        /\ \A j \in (k + 1)..Len(g.hblkfreelist[n]) :
             /\ g.hblkfreelist[n][j] \in FreeBlocks(acc.h)
             /\ n = FlIndex(acc.h.hdr[g.hblkfreelist[n][j]])

LEMMA TriesNext ==
  ASSUME NEW g, NEW heap, Good(g, heap), NEW n \in 0..N_HBLK_FLS,
         NEW sz \in Nat \ {0}, NEW kind, NEW flags, NEW may_split,
         NEW k \in 1..Len(g.hblkfreelist[n]), NEW acc,
         Tries(g, heap, n, OBJ_SZ_TO_BLOCKS(sz), k - 1, acc),
         NEW r, r = TryBlock(acc, g.hblkfreelist[n][k], sz, kind, flags, n, may_split)
  PROVE  Tries(g, heap, n, OBJ_SZ_TO_BLOCKS(sz), k, r)
<1> DEFINE list == g.hblkfreelist[n]
           m    == OBJ_SZ_TO_BLOCKS(sz)
           b    == list[k]
<1>1. /\ list \in Seq(Blocks) /\ DOMAIN list = 1..Len(list) /\ Len(list) \in Nat
      /\ \A i, j \in DOMAIN list : list[i] = list[j] => i = j
  <2>1. Lists(list, FreeOf(g, {}, n)) /\ list \in Seq(Blocks)
    BY DEF Good, But, Listed, Typed
  <2> HIDE DEF list
  <2> QED
    BY <2>1 DEF Lists
<1>2. CASE Found(acc, heap, m)
  <2>1. r = acc
    <3>1. acc.result # NULL
      BY <1>2 DEF Found
    <3> QED
      BY ONLY <3>1, r = TryBlock(acc, b, sz, kind, flags, n, may_split) DEF TryBlock
  <2> QED
    BY <1>2, <2>1 DEF Tries
<1>3. CASE ~Found(acc, heap, m)
  <2>1. /\ Searching(acc, heap) /\ Kept(g, acc.h) /\ Still(g, acc)
        /\ \A j \in k..Len(list) : list[j] \in FreeBlocks(acc.h) /\ n = FlIndex(acc.h.hdr[list[j]])
    BY <1>3 DEF Tries
  <2> HIDE DEF list, m
  <2>2. b \in FreeBlocks(acc.h) /\ n = FlIndex(acc.h.hdr[b])
    BY <1>1, <2>1 DEF list
  <2>3. r = TryBlock(acc, b, sz, kind, flags, n, may_split)
    BY DEF list
  <2> HIDE DEF b
  <2>4. /\ Kept(acc.h, r.h) /\ Still(acc.h, r)
        /\ \/ Found(r, heap, m)
           \/ Searching(r, heap) /\ Passed(acc.h, r.h, b)
    BY ONLY <2>1, <2>2, <2>3, sz \in Nat \ {0}, Tried DEF m
  <2>5. Kept(g, r.h) /\ Still(g, r)
    BY ONLY <2>1, <2>4, KeptOn DEF Still, Searching
  <2>6. ASSUME Passed(acc.h, r.h, b), NEW j \in (k + 1)..Len(list)
        PROVE  list[j] \in FreeBlocks(r.h) /\ n = FlIndex(r.h.hdr[list[j]])
    <3>1. j \in k..Len(list) /\ j \in DOMAIN list /\ k \in DOMAIN list /\ j # k
      BY <1>1 DEF list
    <3> DEFINE c == list[j]
    <3>2. c # b /\ c \in FreeBlocks(acc.h) /\ n = FlIndex(acc.h.hdr[c])
      BY <1>1, <2>1, <3>1 DEF b
    <3> HIDE DEF c
    <3>3. c \in DOMAIN acc.h.hdr \ {b}
      BY <3>2 DEF FreeBlocks
    <3>4. c \in DOMAIN r.h.hdr /\ r.h.hdr[c] = acc.h.hdr[c]
      BY <2>6, <3>3 DEF Passed
    <3>5. c \in FreeBlocks(r.h) /\ n = FlIndex(r.h.hdr[c])
      BY ONLY <3>2, <3>4 DEF FreeBlocks, IsFree, HasHdr
    <3> QED
      BY ONLY <3>5 DEF c
  <2> QED
    BY ONLY <2>4, <2>5, <2>6 DEF Tries, list, m
<1> QED
  BY <1>2, <1>3

\* What a search of the free blocks gives.
Answer(r, heap, sz) ==
  /\ DOMAIN r = {"h", "result"} /\ Good(r.h, heap)
  /\ r.result # NULL => r.result \in UsedBlocks(r.h) /\ r.h.hdr[r.result].sz = sz

LEMMA Nth ==
  ASSUME NEW g, NEW heap, Good(g, heap), NEW n \in 0..N_HBLK_FLS,
         NEW sz \in Nat \ {0}, NEW kind, NEW flags, Asked(flags),
         NEW may_split, NEW r, r = GC_allochblk_nth(g, sz, kind, flags, n, may_split)
  PROVE  Kept(g, r.h) /\ Stays(g, r.h) /\ Answer(r, heap, sz)
<1> DEFINE list == g.hblkfreelist[n]
           len  == Len(list)
           m    == OBJ_SZ_TO_BLOCKS(sz)
           none == [h |-> g, result |-> NULL]
           Step(acc, k) == TryBlock(acc, list[k], sz, kind, flags, n, may_split)
           P(f, j) == f = [k \in 0..j |-> IF k = 0 THEN none ELSE Step(f[k - 1], k)]
           tried == CHOOSE f : P(f, len)
<1>1. r = Established(tried[len], sz, kind, flags)
  BY ONLY r = GC_allochblk_nth(g, sz, kind, flags, n, may_split), Zenon DEF GC_allochblk_nth
<1>2. Lists(list, FreeOf(g, {}, n)) /\ list \in Seq(Blocks) /\ len \in Nat
  <2>1. Lists(list, FreeOf(g, {}, n)) /\ list \in Seq(Blocks)
    BY DEF Good, But, Listed, Typed
  <2> QED
    BY <2>1
<1> DEFINE T(k, acc) == Tries(g, heap, n, m, k, acc)
<1>3. T(0, none)
  <2>1. ASSUME NEW j \in 1..len
        PROVE  list[j] \in FreeBlocks(g) /\ n = FlIndex(g.hdr[list[j]])
    <3>1. list[j] \in ToSet(list)
      BY <1>2 DEF ToSet
    <3> QED
      BY <1>2, <3>1 DEF Lists, FreeOf
  <2>2. Searching(none, heap) /\ none.h = g /\ Kept(g, g) /\ Still(g, none)
    BY DEF Searching, Kept, Still
  <2> HIDE DEF none
  <2> QED
    BY <2>1, <2>2 DEF Tries
<1>4. \A k \in 1..len : \A acc : T(k - 1, acc) => T(k, Step(acc, k))
  <2> SUFFICES ASSUME NEW k \in 1..len, NEW acc, T(k - 1, acc) PROVE T(k, Step(acc, k))
    OBVIOUS
  <2> DEFINE q == Step(acc, k)
  <2>1. /\ k \in 1..Len(g.hblkfreelist[n]) /\ Tries(g, heap, n, OBJ_SZ_TO_BLOCKS(sz), k - 1, acc)
        /\ q = TryBlock(acc, g.hblkfreelist[n][k], sz, kind, flags, n, may_split)
    OBVIOUS
  <2> HIDE DEF q
  <2>2. Tries(g, heap, n, OBJ_SZ_TO_BLOCKS(sz), k, q)
    BY ONLY <2>1, Good(g, heap), n \in 0..N_HBLK_FLS, sz \in Nat \ {0}, TriesNext
  <2> QED
    BY <2>2 DEF q
<1> HIDE DEF Step, T, none, len
<1>5. \E f : P(f, len)
  <2> DEFINE S == {j \in Nat : \E f : P(f, j)}
  <2>1. 0 \in S
    <3> DEFINE f == [k \in 0..0 |-> none]
    <3>1. P(f, 0)
      OBVIOUS
    <3> QED
      BY <3>1
  <2>2. ASSUME NEW j \in S PROVE j + 1 \in S
    <3>1. PICK f : P(f, j)
      OBVIOUS
    <3>2. j \in Nat /\ \A k \in 0..j : f[k] = IF k = 0 THEN none ELSE Step(f[k - 1], k)
      BY <3>1
    <3> DEFINE q == [k \in 0..(j + 1) |-> IF k = 0 THEN none ELSE Step(f[k - 1], k)]
    <3>3. \A k \in 0..j : q[k] = f[k]
      BY <3>2
    <3>4. \A k \in 0..(j + 1) : k # 0 => k - 1 \in 0..j
      BY <3>2
    <3>5. q = [k \in 0..(j + 1) |-> IF k = 0 THEN none ELSE Step(f[k - 1], k)]
      OBVIOUS
    <3> HIDE DEF q
    <3>6. \A k \in 0..(j + 1) :
            (IF k = 0 THEN none ELSE Step(f[k - 1], k)) = (IF k = 0 THEN none ELSE Step(q[k - 1], k))
      BY ONLY <3>3, <3>4
    <3>7. P(q, j + 1)
      BY ONLY <3>5, <3>6
    <3> HIDE DEF P
    <3>8. \E p : P(p, j + 1)
      BY <3>7
    <3> QED
      BY <3>2, <3>8
  <2> HIDE DEF P
  <2>3. S = Nat
    BY <2>1, <2>2, SetInduction
  <2> QED
    BY <1>2, <2>3
<1>6. T(len, tried[len])
  <2>1. P(tried, len)
    <3> HIDE DEF P
    <3> QED
      BY <1>5
  <2> HIDE DEF tried
  <2>2. /\ tried[0] = none
        /\ \A k \in 1..len : tried[k] = Step(tried[k - 1], k)
    BY ONLY <1>2, <2>1
  <2> DEFINE S == {k \in Nat : k <= len => T(k, tried[k])}
  <2>3. 0 \in S
    BY <1>3, <2>2
  <2>4. ASSUME NEW k \in S PROVE k + 1 \in S
    <3> SUFFICES ASSUME k + 1 <= len PROVE T(k + 1, tried[k + 1])
      OBVIOUS
    <3>1. k + 1 \in 1..len /\ (k + 1) - 1 = k /\ T(k, tried[k])
      BY <1>2
    <3>2. T(k + 1, Step(tried[k], k + 1))
      BY <1>4, <3>1
    <3> QED
      BY <2>2, <3>1, <3>2
  <2>5. S = Nat
    BY <2>3, <2>4, SetInduction
  <2> QED
    BY <1>2, <2>5
<1> DEFINE acc == tried[len]
<1>7. /\ Kept(g, acc.h) /\ Still(g, acc)
      /\ Found(acc, heap, m) \/ Searching(acc, heap)
  <2> HIDE DEF tried
  <2> QED
    BY ONLY <1>6 DEF T, Tries
<1>8. r = Established(acc, sz, kind, flags)
  BY <1>1
<1> HIDE DEF acc, m
<1>9. CASE Searching(acc, heap)
  <2>1. r = acc
    BY <1>8, <1>9 DEF Established, Searching
  <2> QED
    BY <1>7, <1>9, <2>1 DEF Searching, Answer, Still, Stays
<1>10. CASE Found(acc, heap, m)
  <2>1. /\ DOMAIN acc = {"h", "result"} /\ acc.result # NULL
        /\ Held(acc.h, heap, acc.result, OBJ_SZ_TO_BLOCKS(sz))
    BY <1>10 DEF Found, m
  <2> DEFINE q == r.h
  <2>2. q = Established(acc, sz, kind, flags).h
    BY <1>8
  <2> HIDE DEF q
  <2>3. /\ Good(q, heap) /\ Kept(acc.h, q)
        /\ acc.result \in UsedBlocks(q) /\ q.hdr[acc.result].sz = sz
        /\ Established(acc, sz, kind, flags).result = acc.result
        /\ Lone(acc.h, acc.result) => Lone(q, NULL)
    BY ONLY <2>1, <2>2, sz \in Nat \ {0}, Asked(flags), EstablishedIs
  <2>4. DOMAIN r = {"h", "result"}
    <3>1. r = [acc EXCEPT !.h = r.h]
      BY <1>8, <2>1 DEF Established
    <3> QED
      BY <2>1, <3>1
  <2>5. Kept(g, q) /\ Stays(g, q)
    BY <1>7, <2>3, KeptOn DEF Still, Stays
  <2> QED
    BY <1>8, <2>3, <2>4, <2>5 DEF Answer, q
<1> QED
  BY <1>7, <1>9, <1>10

-----------------------------------------------------------------------------
\* The search of the lists.
LEMMA Greatest ==
  ASSUME NEW n \in Nat, NEW S \in SUBSET (0..n), S # {}
  PROVE  \E x \in S : \A z \in S : x >= z
<1> DEFINE R == {n - x : x \in S}
<1>1. R \subseteq Nat /\ R # {}
  <2>1. \A x \in S : n - x \in Nat /\ n - x \in R
    OBVIOUS
  <2> QED
    BY <2>1
<1>2. PICK y \in R : \A z \in R : y <= z
  BY <1>1, HasLeast
<1>3. PICK x \in S : y = n - x
  OBVIOUS
<1>4. ASSUME NEW z \in S PROVE x >= z
  <2>1. n - z \in R
    OBVIOUS
  <2>2. n - x <= n - z
    BY <1>2, <1>3, <2>1
  <2> QED
    BY <2>2
<1> QED
  BY <1>4

LEMMA HasGreatest ==
  ASSUME NEW n \in Nat, NEW S \in SUBSET (0..n), S # {}
  PROVE  Max(S) \in S
BY Greatest DEF Max

LEMMA LargeBytesLeft ==
  ASSUME NEW g, N_HBLK_FLS \in Nat
  PROVE  GC_enough_large_bytes_left(g) \in 0..N_HBLK_FLS
<1> DEFINE B == CHOOSE beyond : beyond = [n \in 0..(N_HBLK_FLS + 1) |->
                  IF n > N_HBLK_FLS THEN g.large_allocd_bytes
                  ELSE beyond[n + 1] + g.free_bytes[n]]
           S == {n \in 0..N_HBLK_FLS : B[n] >= g.max_large_allocd_bytes}
<1>1. GC_enough_large_bytes_left(g) = IF S = {} THEN 0 ELSE Max(S)
  BY ONLY Zenon DEF GC_enough_large_bytes_left
<1>2. S \in SUBSET (0..N_HBLK_FLS)
  OBVIOUS
<1> HIDE DEF S, B
<1>3. S # {} => Max(S) \in S
  BY <1>2, HasGreatest
<1> DEFINE left == GC_enough_large_bytes_left(g)
<1>4. left = IF S = {} THEN 0 ELSE Max(S)
  BY <1>1
<1> HIDE DEF left
<1>5. left \in 0..N_HBLK_FLS
  BY ONLY <1>2, <1>3, <1>4, N_HBLK_FLS \in Nat
<1> QED
  BY <1>5 DEF left

LEMMA ThresholdedIs ==
  ASSUME NEW g, NEW heap, Good(g, heap), NEW r, r = Thresholded(g)
  PROVE  Good(r, heap) /\ Kept(g, r) /\ Stays(g, r)
<1>1. /\ DOMAIN r = DOMAIN g /\ r.fwd = g.fwd /\ r.hblkfreelist = g.hblkfreelist
      /\ r.index = g.index /\ r.hdr = g.hdr
      /\ Kept(g, r)
  BY DEF Thresholded, Kept
<1>2. Stays(g, r)
  BY <1>1, StaysAlike DEF Kept
<1> QED
  BY <1>1, <1>2, Unrelated DEF Good

LEMMA Searched ==
  ASSUME NEW exact, NEW heap, NEW sz \in Nat \ {0}, Answer(exact, heap, sz),
         NEW start \in 1..N_HBLK_FLS,
         NEW kind, NEW flags, Asked(flags),
         NEW r, r = Fitted(exact, start, sz, kind, flags)
  PROVE  Kept(exact.h, r.h) /\ Stays(exact.h, r.h) /\ Answer(r, heap, sz)
<1>1. CASE exact.result # NULL
  <2>1. r = exact
    BY ONLY <1>1, r = Fitted(exact, start, sz, kind, flags) DEF Fitted
  <2> QED
    BY <2>1 DEF Kept, Stays
<1>2. CASE exact.result = NULL
  <2> DEFINE g      == exact.h
             spare  == \/ g.use_entire_heap \/ g.dont_gc \/ g.incremental
                       \/ USED_HEAP_SIZE(g) < g.requested_heapsize
             asked  == IF spare THEN g ELSE Thresholded(g)
             freely == spare \/ ~GC_should_collect(g)
             limit  == IF freely THEN N_HBLK_FLS
                       ELSE IF g.finalizer_bytes_freed > g.heapsize \div 16 THEN 0
                       ELSE GC_enough_large_bytes_left(g)
             split  == IF ~freely /\ g.USE_MUNMAP /\ limit > 0 THEN AVOID_SPLIT_REMAPPED
                       ELSE AnySplit
             from   == IF start < UNIQUE_THRESHOLD THEN start + 1 ELSE start
             top    == Larger(limit, from - 1)
             base   == [exact EXCEPT !.h = asked]
             Step(acc, i) == IF acc.result # NULL THEN acc
                             ELSE GC_allochblk_nth(acc.h, sz, kind, flags, i, split)
             P(f, t) == f = [i \in (from - 1)..t |->
                               IF i = from - 1 THEN base ELSE Step(f[i - 1], i)]
             searched == CHOOSE f : P(f, top)
  <2>1. r = IF exact.result # NULL THEN exact ELSE searched[top]
    BY ONLY r = Fitted(exact, start, sz, kind, flags), Zenon DEF Fitted
  <2>2. N_HBLK_FLS \in Nat /\ UNIQUE_THRESHOLD \in Nat
    BY FlRange, ListSizes
  <2>3. limit \in 0..N_HBLK_FLS
    <3> HIDE DEF freely
    <3> QED
      BY <2>2, LargeBytesLeft
  <2> DEFINE a == from - 1
  <2>4. a \in Nat /\ top \in Nat /\ a <= top /\ \A i \in a..top : i # a => i \in 0..N_HBLK_FLS
    <3> HIDE DEF limit
    <3> QED
      BY <2>2, <2>3 DEF Larger
  <2> DEFINE T(acc) == Kept(g, acc.h) /\ Stays(g, acc.h) /\ Answer(acc, heap, sz)
  <2>5. T(base)
    <3>1. Good(g, heap)
      BY DEF Answer
    <3>2. asked = g \/ asked = Thresholded(g)
      OBVIOUS
    <3> HIDE DEF asked
    <3>3. Good(asked, heap) /\ Kept(g, asked) /\ Stays(g, asked)
      BY <3>1, <3>2, ThresholdedIs DEF Kept, Stays
    <3>4. DOMAIN base = {"h", "result"} /\ base.h = asked /\ base.result = NULL
      BY <1>2 DEF Answer
    <3> HIDE DEF base
    <3> QED
      BY <3>3, <3>4 DEF Answer
  <2>6. \A i \in 0..N_HBLK_FLS : \A acc : T(acc) => T(Step(acc, i))
    <3> HIDE DEF split
    <3> SUFFICES ASSUME NEW i \in 0..N_HBLK_FLS, NEW acc, T(acc) PROVE T(Step(acc, i))
      OBVIOUS
    <3>1. CASE acc.result # NULL
      BY <3>1
    <3>2. CASE acc.result = NULL
      <4> DEFINE q == GC_allochblk_nth(acc.h, sz, kind, flags, i, split)
      <4>1. Step(acc, i) = q
        BY <3>2
      <4>2. Good(acc.h, heap) /\ Kept(g, acc.h) /\ Stays(g, acc.h)
            /\ q = GC_allochblk_nth(acc.h, sz, kind, flags, i, split)
        BY DEF Answer
      <4> HIDE DEF q, g
      <4>3. Kept(acc.h, q.h) /\ Stays(acc.h, q.h) /\ Answer(q, heap, sz)
        BY ONLY <4>2, i \in 0..N_HBLK_FLS, sz \in Nat \ {0}, Asked(flags), Nth
      <4>4. Kept(g, q.h) /\ Stays(g, q.h)
        BY ONLY <4>2, <4>3, KeptOn, StaysOn
      <4> QED
        BY <4>1, <4>3, <4>4
    <3> QED
      BY <3>1, <3>2
  <2>7. searched = CHOOSE f : P(f, top)
    OBVIOUS
  <2> HIDE DEF Step, T, base, top, a, searched, g
  <2>8. \E f : P(f, top)
    <3> DEFINE Q(f, j) == f = [i \in a..(a + j) |-> IF i = a THEN base ELSE Step(f[i - 1], i)]
               S == {j \in Nat : \E f : Q(f, j)}
    <3>1. 0 \in S
      <4> DEFINE f == [i \in a..(a + 0) |-> base]
      <4>1. Q(f, 0)
        BY <2>4
      <4> QED
        BY <4>1
    <3>2. ASSUME NEW j \in S PROVE j + 1 \in S
      <4>1. PICK f : Q(f, j)
        OBVIOUS
      <4>2. j \in Nat /\ \A i \in a..(a + j) : f[i] = IF i = a THEN base ELSE Step(f[i - 1], i)
        BY <4>1
      <4> DEFINE q == [i \in a..(a + (j + 1)) |-> IF i = a THEN base ELSE Step(f[i - 1], i)]
      <4>3. \A i \in a..(a + j) : q[i] = f[i]
        BY <2>4, <4>2
      <4>4. \A i \in a..(a + (j + 1)) : i # a => i - 1 \in a..(a + j)
        BY <2>4, <4>2
      <4>5. q = [i \in a..(a + (j + 1)) |-> IF i = a THEN base ELSE Step(f[i - 1], i)]
        OBVIOUS
      <4> HIDE DEF q
      <4>6. \A i \in a..(a + (j + 1)) :
              (IF i = a THEN base ELSE Step(f[i - 1], i)) = (IF i = a THEN base ELSE Step(q[i - 1], i))
        BY ONLY <4>3, <4>4
      <4>7. Q(q, j + 1)
        BY ONLY <4>5, <4>6
      <4> HIDE DEF Q
      <4>8. \E p : Q(p, j + 1)
        BY <4>7
      <4> QED
        BY <4>2, <4>8
    <3>3. S = Nat
      <4> HIDE DEF Q
      <4> QED
        BY <3>1, <3>2, SetInduction
    <3>4. top - a \in Nat /\ a + (top - a) = top
      BY <2>4
    <3>5. \E f : Q(f, top - a)
      <4> HIDE DEF Q
      <4> QED
        BY <3>3, <3>4
    <3> QED
      BY <3>4, <3>5 DEF a
  <2>9. T(searched[top])
    <3>1. P(searched, top)
      <4> HIDE DEF P
      <4> QED
        BY <2>7, <2>8
    <3>2. /\ searched[a] = base
          /\ \A i \in a..top : i # a => searched[i] = Step(searched[i - 1], i)
      BY ONLY <2>4, <3>1 DEF a
    <3> DEFINE S == {j \in Nat : a + j <= top => T(searched[a + j])}
    <3>3. 0 \in S
      BY <2>4, <2>5, <3>2
    <3>4. ASSUME NEW j \in S PROVE j + 1 \in S
      <4> SUFFICES ASSUME a + (j + 1) <= top PROVE T(searched[a + (j + 1)])
        OBVIOUS
      <4> DEFINE i == a + (j + 1)
      <4>1. i \in a..top /\ i # a /\ i - 1 = a + j /\ T(searched[a + j])
        BY <2>4
      <4> HIDE DEF i
      <4>2. i \in 0..N_HBLK_FLS
        BY <2>4, <4>1
      <4>3. T(Step(searched[i - 1], i))
        BY <2>6, <4>1, <4>2
      <4>4. T(searched[i])
        BY <3>2, <4>1, <4>3
      <4> QED
        BY <4>4 DEF i
    <3>5. S = Nat
      BY <3>3, <3>4, SetInduction
    <3> DEFINE d == top - a
    <3>6. d \in Nat /\ a + d = top /\ a + d <= top
      BY <2>4
    <3> HIDE DEF d
    <3>7. T(searched[a + d])
      BY <3>5, <3>6
    <3> QED
      BY <3>6, <3>7
  <2> QED
    BY <1>2, <2>1, <2>9 DEF T, g
<1> QED
  BY <1>1, <1>2

LEMMA Allocated ==
  ASSUME NEW g, NEW heap, Good(g, heap), NEW sz \in Nat \ {0}, NEW kind,
         NEW flags, Asked(flags), NEW r, r = GC_allochblk(g, sz, kind, flags)
  PROVE  Kept(g, r.h) /\ Stays(g, r.h) /\ Answer(r, heap, sz)
<1> DEFINE start == GC_hblk_fl_from_blocks(OBJ_SZ_TO_BLOCKS(sz))
           exact == GC_allochblk_nth(g, sz, kind, flags, start, NoSplit)
<1>1. start \in 0..N_HBLK_FLS /\ start \in 1..N_HBLK_FLS
  BY Rounded, FlRange
<1>2. r = Fitted(exact, start, sz, kind, flags)
  BY DEF GC_allochblk
<1>3. exact = GC_allochblk_nth(g, sz, kind, flags, start, NoSplit)
  OBVIOUS
<1> HIDE DEF exact, start
<1>4. Kept(g, exact.h) /\ Stays(g, exact.h) /\ Answer(exact, heap, sz)
  BY ONLY <1>1, <1>3, Good(g, heap), sz \in Nat \ {0}, Asked(flags), Nth
<1>5. Kept(exact.h, r.h) /\ Stays(exact.h, r.h) /\ Answer(r, heap, sz)
  BY ONLY <1>1, <1>2, <1>4, sz \in Nat \ {0}, Asked(flags), Searched
<1> QED
  BY <1>4, <1>5, KeptOn, StaysOn

-----------------------------------------------------------------------------
\* Looking up blocks.  A place that has no header is passed by its count: no
\* header lies between it and the place its count leads to.
Skip(g, p) == IF g.fwd[p] = 0 THEN 1 ELSE g.fwd[p]

LEMMA Skipped ==
  ASSUME NEW g, NEW heap, NEW X, NEW hole, But(g, heap, X, hole), \A c \in hole : g.fwd[c] = 0,
         NEW p \in 0..NBLOCKS, p \notin DOMAIN g.hdr, NEW k, k = Skip(g, p)
  PROVE  /\ k \in Nat \ {0} /\ k <= MAX_JUMP /\ (p # 0 => k <= p)
         /\ \A c \in DOMAIN g.hdr : c < p => c <= p - k
<1>1. Typed(g) /\ Cut(g, heap, X, hole) /\ CountsOf(g, X, hole)
      /\ heap \subseteq Blocks /\ hole \subseteq heap /\ X \subseteq hole
  BY DEF But
<1>2. p \in Nat /\ MAX_JUMP \in Nat \ {0} /\ DOMAIN g.hdr \subseteq Nat
  <2>1. p \in Nat /\ MAX_JUMP \in Nat \ {0}
    BY HeaderSizes
  <2>2. DOMAIN g.hdr \subseteq Nat
    BY <1>1, InRange DEF Typed
  <2> QED
    BY <2>1, <2>2
<1>3. CASE g.fwd[p] = 0
  BY <1>2, <1>3 DEF Skip
<1>4. CASE g.fwd[p] # 0
  <2>1. p \notin hole
    BY <1>4
  <2>2. PICK u \in UsedBlocks(g) \ X : p \in Extent(g, u)
    BY <1>1, <1>4, <2>1 DEF CountsOf
  <2>3. /\ u \in DOMAIN g.hdr \ X /\ u # p /\ u \in Nat /\ u # 0 /\ N(g, u) \in Nat \ {0}
        /\ Extent(g, u) = u..(u + N(g, u) - 1) /\ Extent(g, u) \subseteq heap \ hole
    <3>1. u \in DOMAIN g.hdr \ X
      BY DEF UsedBlocks
    <3>2. u \in Blocks /\ N(g, u) \in Nat \ {0} /\ Extent(g, u) = u..(u + N(g, u) - 1)
      BY <1>1, <3>1, Extents
    <3>3. u \in Nat /\ u # 0
      BY <3>2, InRange DEF NULL
    <3>4. Extent(g, u) \subseteq heap \ hole
      BY <1>1, <3>1 DEF Cut
    <3> QED
      BY <3>1, <3>2, <3>3, <3>4
  <2>4. g.fwd[p] = Jump(p - u)
    BY <1>1, <2>2, <2>3 DEF CountsOf
  <2>5. u < p
    BY <1>2, <2>2, <2>3
  <2>6. k \in Nat \ {0} /\ k <= MAX_JUMP /\ k <= p - u
    BY <1>2, <1>4, <2>3, <2>4, <2>5 DEF Skip, Jump
  <2>7. ASSUME NEW c \in DOMAIN g.hdr, c < p PROVE c <= u
    <3> SUFFICES ASSUME u < c PROVE FALSE
      BY <1>2, <2>3
    <3>1. c \in Extent(g, u)
      <4>1. p <= u + N(g, u) - 1
        BY <2>2, <2>3
      <4> QED
        BY <1>2, <2>3, <2>7, <4>1
    <3>2. c \notin X /\ c \in Extent(g, c)
      BY <1>1, <2>3, <3>1, Extents
    <3>3. u # c /\ u \in DOMAIN g.hdr \ X /\ c \in DOMAIN g.hdr \ X
      BY <1>2, <2>3, <3>2
    <3>4. Extent(g, u) \cap Extent(g, c) = {}
      BY ONLY <1>1, <3>3 DEF Cut
    <3> QED
      BY <3>1, <3>2, <3>4
  <2>8. \A c \in DOMAIN g.hdr : c < p => c <= p - k
    <3> SUFFICES ASSUME NEW c \in DOMAIN g.hdr, c < p PROVE c <= p - k
      OBVIOUS
    <3>1. c <= u /\ c \in Nat
      BY <1>2, <2>7
    <3> QED
      BY <1>2, <2>3, <2>6, <3>1
  <2> QED
    BY <1>2, <2>3, <2>6, <2>8
<1> QED
  BY <1>3, <1>4

\* Segments and places.
LEMMA InSegment ==
  ASSUME NEW p \in Nat
  PROVE  /\ Segment(p) \in Nat /\ Segment(p) * BOTTOM_SZ <= p /\ p < (Segment(p) + 1) * BOTTOM_SZ
         /\ (Segment(p) + 1) * BOTTOM_SZ = Segment(p) * BOTTOM_SZ + BOTTOM_SZ
<1>1. BOTTOM_SZ \in Nat \ {0}
  BY HeaderSizes
<1> DEFINE s == p \div BOTTOM_SZ
<1>2. s \in Nat /\ BOTTOM_SZ * s <= p /\ p < BOTTOM_SZ * s + BOTTOM_SZ
  BY <1>1, DivBounds
<1> HIDE DEF s
<1>3. s * BOTTOM_SZ = BOTTOM_SZ * s /\ (s + 1) * BOTTOM_SZ = BOTTOM_SZ * s + BOTTOM_SZ
  BY <1>1, <1>2
<1> QED
  BY ONLY <1>2, <1>3 DEF Segment, s

LEMMA Ordered ==
  ASSUME NEW p \in Nat, NEW c \in Nat, c <= p
  PROVE  Segment(c) <= Segment(p)
<1>1. /\ Segment(p) \in Nat /\ Segment(c) \in Nat /\ BOTTOM_SZ \in Nat \ {0}
      /\ Segment(c) * BOTTOM_SZ <= c /\ p < (Segment(p) + 1) * BOTTOM_SZ
  BY HeaderSizes, InSegment
<1> DEFINE s == Segment(c)
           t == Segment(p) + 1
<1>2. s * BOTTOM_SZ < t * BOTTOM_SZ /\ s \in Nat /\ t \in Nat
  BY <1>1
<1> HIDE DEF s, t
<1>3. s < t
  BY <1>1, <1>2, Multiples
<1> QED
  BY <1>1, <1>3 DEF s, t

\* Whole segments lie before one another.
LEMMA Apart ==
  ASSUME NEW s \in Nat, NEW t \in Nat, s < t
  PROVE  s * BOTTOM_SZ + BOTTOM_SZ <= t * BOTTOM_SZ /\ s * BOTTOM_SZ \in Nat /\ t * BOTTOM_SZ \in Nat
<1>1. BOTTOM_SZ \in Nat \ {0}
  BY HeaderSizes
<1> QED
  BY <1>1, Multiples

LEMMA Downward ==
  ASSUME NEW g, NEW heap, NEW X, NEW hole, But(g, heap, X, hole), \A c \in hole : g.fwd[c] = 0,
         NEW p \in 1..NBLOCKS, p \notin DOMAIN g.hdr, NEW q, q = Down(g, p, Skip(g, p))
  PROVE  q \in 0..(p - 1) /\ \A c \in DOMAIN g.hdr : c < p => c <= q
<1> DEFINE k == Skip(g, p)
           s == Segment(p)
           below == {t \in g.index : t < s}
<1>1. /\ k \in Nat \ {0} /\ k <= p /\ \A c \in DOMAIN g.hdr : c < p => c <= p - k
  <2>1. p \in 0..NBLOCKS /\ p # 0 /\ k = Skip(g, p)
    OBVIOUS
  <2> HIDE DEF k
  <2> QED
    BY <2>1, Skipped
<1>2. /\ g.index \subseteq 0..Segment(NBLOCKS) /\ DOMAIN g.hdr \subseteq Nat
      /\ \A c \in DOMAIN g.hdr : Segment(c) \in g.index
  BY InRange DEF But, Typed, Indexed
<1>3. /\ p \in Nat /\ s \in Nat /\ s * BOTTOM_SZ <= p /\ BOTTOM_SZ \in Nat \ {0} /\ s * BOTTOM_SZ \in Nat
  BY HeaderSizes, InSegment
<1>4. q = IF s \in g.index /\ p - k >= s * BOTTOM_SZ THEN p - k
          ELSE IF below = {} THEN NULL ELSE Max(below) * BOTTOM_SZ + BOTTOM_SZ - 1
  BY DEF Down
<1> HIDE DEF k
<1>5. CASE s \in g.index /\ p - k >= s * BOTTOM_SZ
  BY <1>1, <1>3, <1>4, <1>5
<1>6. CASE ~(s \in g.index /\ p - k >= s * BOTTOM_SZ)
  <2>1. ASSUME NEW c \in DOMAIN g.hdr, c < p PROVE Segment(c) \in below
    <3>1. c \in Nat /\ c <= p - k /\ Segment(c) \in g.index
      BY <1>1, <1>2, <2>1
    <3>2. Segment(c) <= s /\ Segment(c) \in Nat /\ Segment(c) * BOTTOM_SZ <= c
      BY <1>3, <2>1, <3>1, InSegment, Ordered
    <3>3. Segment(c) # s
      <4> SUFFICES ASSUME Segment(c) = s PROVE FALSE
        OBVIOUS
      <4> HIDE DEF s
      <4> QED
        BY <1>1, <1>3, <1>6, <3>1, <3>2
    <3> HIDE DEF s
    <3> QED
      BY <1>3, <3>1, <3>2, <3>3
  <2>2. CASE below = {}
    <3> HIDE DEF below, s
    <3> QED
      BY <1>3, <1>4, <1>6, <2>1, <2>2 DEF NULL
  <2>3. CASE below # {}
    <3> DEFINE m == Max(below)
    <3>1. m \in below /\ \A t \in below : t <= m
      <4>1. below \in SUBSET (0..s)
        BY <1>2, <1>3
      <4> HIDE DEF below, s
      <4>2. Max(below) \in below
        BY <1>3, <2>3, <4>1, HasGreatest
      <4>3. \E x \in below : \A t \in below : x >= t
        BY <1>3, <2>3, <4>1, Greatest
      <4>4. \A t \in below : Max(below) >= t
        BY <4>3 DEF Max
      <4>5. below \subseteq Nat
        BY <4>1
      <4> QED
        BY <4>2, <4>4, <4>5
    <3>2. m \in Nat /\ m < s
      BY <1>2, <3>1
    <3>3. q = m * BOTTOM_SZ + BOTTOM_SZ - 1
      BY <1>4, <1>6, <2>3
    <3> HIDE DEF m, s, below
    <3>4. m * BOTTOM_SZ + BOTTOM_SZ <= s * BOTTOM_SZ /\ m * BOTTOM_SZ \in Nat
      BY <1>3, <3>2, Apart
    <3>5. q \in 0..(p - 1)
      BY <1>3, <3>3, <3>4
    <3>6. ASSUME NEW c \in DOMAIN g.hdr, c < p PROVE c <= q
      <4> DEFINE t == Segment(c)
      <4>1. t <= m /\ c \in Nat /\ t \in Nat
        BY <1>2, <2>1, <3>1, <3>6, InSegment
      <4>2. c < t * BOTTOM_SZ + BOTTOM_SZ
        BY <4>1, InSegment
      <4> HIDE DEF t
      <4>3. t * BOTTOM_SZ <= m * BOTTOM_SZ /\ t * BOTTOM_SZ \in Nat
        BY <1>3, <3>2, <4>1, Multiples
      <4> QED
        BY <1>3, <3>3, <3>4, <4>1, <4>2, <4>3
    <3> QED
      BY <3>5, <3>6
  <2> QED
    BY <2>2, <2>3
<1> QED
  BY <1>5, <1>6

\* The walk downwards ends at the last header.
LEMMA PrevIs ==
  ASSUME NEW g, NEW heap, NEW X, NEW hole, But(g, heap, X, hole), \A c \in hole : g.fwd[c] = 0,
         NEW b \in 0..NBLOCKS, NEW q, q = GC_prev_block(g, b)
  PROVE  /\ q = NULL \/ (q \in DOMAIN g.hdr /\ q <= b)
         /\ \A c \in DOMAIN g.hdr : c <= b => c <= q
<1> DEFINE D == 0..NBLOCKS
           step(prev) == [p \in 0..NBLOCKS |->
                            IF p = 0 \/ HasHdr(g, p) THEN p
                            ELSE prev[Down(g, p, IF g.fwd[p] = 0 THEN 1 ELSE g.fwd[p])]]
           stop == {p \in D : p = 0 \/ HasHdr(g, p)}
           out == [p \in D |-> p]
           jump == [p \in D |-> Down(g, p, Skip(g, p))]
           far == [p \in D |-> p]
           f == CHOOSE prev : prev = step(prev)
           G == [p \in D |-> {x \in D : /\ x = NULL \/ (x \in DOMAIN g.hdr /\ x <= p)
                                        /\ \A c \in DOMAIN g.hdr : c <= p => c <= x}]
<1>0. \A p \in D : jump[p] = Down(g, p, Skip(g, p)) /\ far[p] = p /\ out[p] = p
  OBVIOUS
<1>1. DOMAIN g.hdr \subseteq Blocks /\ DOMAIN g.hdr \subseteq Nat /\ NBLOCKS \in Nat
  BY InRange, HeaderSizes DEF But, Typed
<1>2. ASSUME NEW p \in D \ stop
      PROVE  jump[p] \in 0..(p - 1) /\ \A c \in DOMAIN g.hdr : c < p => c <= jump[p]
  <2>1. p \in 1..NBLOCKS /\ p \notin DOMAIN g.hdr
    BY DEF HasHdr
  <2> HIDE DEF jump
  <2> QED
    BY <1>0, <2>1, Downward
<1>3. ASSUME NEW p \in D \ stop PROVE jump[p] \in D /\ far[jump[p]] < far[p]
  <2>1. p \in D /\ jump[p] \in 0..(p - 1)
    BY <1>2
  <2> HIDE DEF jump, far
  <2> QED
    BY <1>0, <1>1, <2>1
<1>4. \A p \in D : far[p] \in Nat
  OBVIOUS
<1>5. \A p \in D \cap stop : out[p] \in G[p]
  <2> SUFFICES ASSUME NEW p \in D, p = 0 \/ HasHdr(g, p) PROVE p \in G[p]
    OBVIOUS
  <2>1. p = 0 => \A c \in DOMAIN g.hdr : ~(c <= p)
    BY <1>1 DEF Blocks
  <2> QED
    BY <2>1 DEF HasHdr, NULL
<1>6. ASSUME NEW p \in D \ stop PROVE G[jump[p]] \subseteq G[p]
  <2> SUFFICES ASSUME NEW x \in G[jump[p]] PROVE x \in G[p]
    OBVIOUS
  <2> DEFINE d == jump[p]
  <2>1. d \in D /\ d < p /\ \A c \in DOMAIN g.hdr : c < p => c <= d
    <3> HIDE DEF jump
    <3>1. p \in D /\ d \in 0..(p - 1) /\ \A c \in DOMAIN g.hdr : c < p => c <= d
      BY <1>2
    <3> QED
      BY <1>1, <3>1
  <2>2. /\ x \in D /\ (x = NULL \/ (x \in DOMAIN g.hdr /\ x <= d))
        /\ \A c \in DOMAIN g.hdr : c <= d => c <= x
    BY <2>1
  <2>3. p \notin DOMAIN g.hdr
    BY DEF HasHdr
  <2> HIDE DEF d, jump, stop, out, far
  <2>4. x = NULL \/ (x \in DOMAIN g.hdr /\ x <= p)
    BY <1>1, <2>1, <2>2
  <2>5. \A c \in DOMAIN g.hdr : c <= p => c <= x
    BY <1>1, <2>1, <2>2, <2>3
  <2>6. p \in D
    OBVIOUS
  <2> QED
    BY ONLY <2>2, <2>4, <2>5, <2>6 DEF G
<1>7. \E prev : Walk(D, stop, out, jump, prev)
  <2> HIDE DEF stop, out, jump, far, D
  <2> QED
    BY <1>3, <1>4, JumpsExist
<1>8. \A prev : prev = step(prev) <=> Walk(D, stop, out, jump, prev)
  <2> SUFFICES ASSUME NEW prev
               PROVE  step(prev) = [p \in D |-> IF p \in stop THEN out[p] ELSE prev[jump[p]]]
    BY DEF Walk
  <2> QED
    BY DEF Skip
<1>9. Walk(D, stop, out, jump, f)
  <2> HIDE DEF step, stop, out, jump, D
  <2>1. f = step(f)
    BY <1>7, <1>8
  <2> QED
    BY <1>8, <2>1
<1>10. \A p \in D : f[p] \in G[p]
  <2> HIDE DEF stop, out, jump, far, D, f, G
  <2> QED
    BY ONLY <1>3, <1>4, <1>5, <1>6, <1>9, JumpsFind
<1>11. q = f[b]
  BY DEF GC_prev_block
<1> HIDE DEF f
<1>12. q \in G[b]
  BY <1>10, <1>11
<1> QED
  BY <1>12

-----------------------------------------------------------------------------
\* Freeing.  The size of the header of b becomes that of n blocks; the headers
\* apart from those of S are left alone.
Resized(g, r, b, n) ==
  /\ Kept(g, r) /\ r.fwd = g.fwd /\ r.hblkfreelist = g.hblkfreelist /\ r.index = g.index
  /\ r.hdr = [g.hdr EXCEPT ![b] = r.hdr[b]]
  /\ IsHeader(r.hdr[b]) /\ r.hdr[b].sz = n * HBLKSIZE

Spared(g, r, S) == \A c \in DOMAIN g.hdr \ S : c \in DOMAIN r.hdr /\ r.hdr[c] = g.hdr[c]

\* The k blocks from b on and the m blocks from c on are in the hands of the
\* allocator, and neighbours.
Adjacent(g, heap, b, k, c, m) ==
  /\ b \in Nat /\ k \in Nat \ {0} /\ m \in Nat \ {0} /\ c = b + k
  /\ b \in DOMAIN g.hdr /\ g.hdr[b].sz = k * HBLKSIZE
  /\ c \in DOMAIN g.hdr /\ g.hdr[c].sz = m * HBLKSIZE
  /\ \A e \in b..(b + (k + m) - 1) : g.fwd[e] = 0
  /\ But(g, heap, {b, c}, b..(b + (k + m) - 1))

\* The header of c is gone, that of b the one it has in q.
Absorbed(g, q, r, b, c) == DOMAIN r.hdr = DOMAIN g.hdr \ {c} /\ r.hdr[b] = q.hdr[b]

LEMMA ResizedIs ==
  ASSUME NEW g, NEW b \in DOMAIN g.hdr, IsHeader(g.hdr[b]), NEW n \in Nat \ {0},
         NEW x, IsHeader(x), x.sz = n * HBLKSIZE,
         NEW r, Kept(g, r), r.fwd = g.fwd, r.hblkfreelist = g.hblkfreelist, r.index = g.index,
         r.hdr = [g.hdr EXCEPT ![b] = x]
  PROVE  Resized(g, r, b, n)
<1>1. r.hdr[b] = x
  OBVIOUS
<1> QED
  BY <1>1 DEF Resized

LEMMA RewrittenResized ==
  ASSUME NEW g, NEW heap, NEW X, NEW hole, But(g, heap, X, hole),
         NEW b \in X, b \in DOMAIN g.hdr, NEW n, NEW r, Resized(g, r, b, n)
  PROVE  But(r, heap, X, hole)
<1> DEFINE x == r.hdr[b]
<1>1. /\ IsHeader(x) /\ DOMAIN r = DOMAIN g /\ r.hdr = [g.hdr EXCEPT ![b] = x]
      /\ r.fwd = g.fwd /\ r.hblkfreelist = g.hblkfreelist /\ r.index = g.index
  BY DEF Resized, Kept
<1> HIDE DEF x
<1> QED
  BY ONLY <1>1, But(g, heap, X, hole), b \in X, b \in DOMAIN g.hdr, Rewritten

\* Two neighbours become one.
LEMMA Joined ==
  ASSUME NEW g, NEW heap, NEW b, NEW k, NEW c, NEW m, Adjacent(g, heap, b, k, c, m),
         NEW n, n = k + m, NEW q, Resized(g, q, b, n), NEW r, r = GC_remove_header(q, c)
  PROVE  /\ Clear(r, heap, b, n) /\ Kept(g, r) /\ Spared(g, r, {b, c})
         /\ Absorbed(g, q, r, b, c)
<1> DEFINE X == {b, c}
           E == b..(b + n - 1)
<1>1. /\ b \in Nat /\ k \in Nat \ {0} /\ m \in Nat \ {0} /\ c = b + k
      /\ b \in DOMAIN g.hdr /\ c \in DOMAIN g.hdr
      /\ \A e \in E : g.fwd[e] = 0
      /\ But(g, heap, X, E) /\ b \in X /\ c \in X
  BY DEF Adjacent
<1>2. n \in Nat \ {0} /\ c # b /\ X \ {c} = {b}
  BY <1>1
<1> HIDE DEF X, E
<1>3. But(q, heap, X, E)
  BY ONLY <1>1, Resized(g, q, b, n), RewrittenResized
<1>4. But(r, heap, X \ {c}, E) /\ Removed(q, r, c)
  BY ONLY <1>1, <1>3, r = GC_remove_header(q, c), HeaderRemoved
<1>5. /\ DOMAIN q.hdr = DOMAIN g.hdr /\ q.fwd = g.fwd /\ Kept(g, q)
      /\ \A d \in DOMAIN g.hdr \ {b} : q.hdr[d] = g.hdr[d]
      /\ q.hdr[b].sz = n * HBLKSIZE
  BY <1>1 DEF Resized
<1>6. /\ Kept(q, r) /\ DOMAIN r.hdr \ {c} = DOMAIN q.hdr \ {c}
      /\ \A d \in DOMAIN q.hdr \ {c} : r.hdr[d] = q.hdr[d]
      /\ \A d \in (0..NBLOCKS) \ {c} : r.fwd[d] = q.fwd[d]
      /\ r.fwd[c] = 0
  BY ONLY <1>4 DEF Removed, Outside
<1>7. Kept(g, r)
  BY <1>5, <1>6, KeptOn
<1>8. Spared(g, r, {b, c})
  BY ONLY <1>5, <1>6 DEF Spared
<1>9. b \in DOMAIN r.hdr /\ r.hdr[b].sz = n * HBLKSIZE
  <2>1. b \in DOMAIN q.hdr \ {c}
    BY ONLY <1>1, <1>2, <1>5
  <2>2. b \in DOMAIN r.hdr /\ r.hdr[b] = q.hdr[b]
    BY ONLY <1>6, <2>1
  <2> QED
    BY ONLY <2>2, <1>5
<1>10. \A e \in E : r.fwd[e] = 0
  <2>1. E \subseteq 0..NBLOCKS
    BY <1>3, InRange DEF But
  <2> QED
    BY <1>1, <1>5, <1>6, <2>1
<1>11. Held(r, heap, b, n)
  BY <1>2, <1>4, <1>9 DEF Held, E
<1>12. Vacant(r, b, n, E)
  BY <1>2, <1>9, <1>10 DEF Vacant, E
<1>13. Absorbed(g, q, r, b, c)
  <2>1. c \notin DOMAIN r.hdr
    BY ONLY <1>4 DEF Removed
  <2> QED
    BY ONLY <1>1, <1>2, <1>5, <1>6, <2>1 DEF Absorbed
<1> QED
  BY <1>7, <1>8, <1>11, <1>12, <1>13 DEF Clear, E

LEMMA CannotShare ==
  ASSUME NEW g, NEW heap, NEW X, NEW hole, But(g, heap, X, hole), NEW b \in hole,
         NEW c \in DOMAIN g.hdr \ X
  PROVE  b \notin Extent(g, c)
BY DEF But, Cut

\* The free block behind b, or before it, is taken off its list.
LEMMA NextOff ==
  ASSUME NEW g, NEW heap, NEW b, NEW n, Clear(g, heap, b, n), NEW c, c = b + n, c \in FreeBlocks(g),
         NEW r, r = GC_remove_from_fl(g, c)
  PROVE  Adjacent(r, heap, b, n, c, N(g, c)) /\ SameBlocks(g, r)
<1> DEFINE X == {b}
           E == b..(b + n - 1)
           i == FlIndex(g.hdr[c])
           m == N(g, c)
<1>1. /\ b \in DOMAIN g.hdr /\ n \in Nat \ {0} /\ But(g, heap, X, E)
      /\ g.hdr[b].sz = n * HBLKSIZE /\ \A e \in E : g.fwd[e] = 0
  BY DEF Clear, Held, Vacant
<1>2. b \in Nat
  BY <1>1, InRange DEF But, Typed
<1>3. c \in FreeBlocks(g) \ X /\ i = FlIndex(g.hdr[c]) /\ r = GC_remove_from_fl_at(g, c, i)
  BY <1>1, <1>2 DEF GC_remove_from_fl
<1> HIDE DEF X, E, i, m
<1>4. /\ c \in DOMAIN g.hdr /\ m \in Nat \ {0} /\ g.hdr[c].sz = m * HBLKSIZE
      /\ Extent(g, c) = c..(c + m - 1)
  BY ONLY <1>1, <1>3, FreeFacts DEF m
<1>5. /\ But(r, heap, X \cup {c}, E \cup Extent(g, c)) /\ SameBlocks(g, r)
      /\ \A e \in Extent(g, c) : g.fwd[e] = 0
  BY ONLY <1>1, <1>3, TakeOff
<1>6. E \cup Extent(g, c) = b..(b + (n + m) - 1) /\ X \cup {c} = {b, c}
  BY <1>1, <1>2, <1>4 DEF E, X
<1>7. r.hdr = g.hdr /\ r.fwd = g.fwd
  BY <1>5 DEF SameBlocks
<1>8. \A e \in b..(b + (n + m) - 1) : r.fwd[e] = 0
  BY ONLY <1>1, <1>5, <1>6, <1>7
<1>9. But(r, heap, {b, c}, b..(b + (n + m) - 1))
  BY ONLY <1>5, <1>6
<1> QED
  BY ONLY <1>1, <1>2, <1>4, <1>5, <1>7, <1>8, <1>9, c = b + n DEF Adjacent, m

LEMMA PrevOff ==
  ASSUME NEW g, NEW heap, NEW b, NEW n, Clear(g, heap, b, n), NEW c \in FreeBlocks(g),
         NEW m, m = N(g, c), c + m = b,
         NEW r, r = GC_remove_from_fl(g, c)
  PROVE  Adjacent(r, heap, c, m, b, n) /\ SameBlocks(g, r)
<1> DEFINE X == {b}
           E == b..(b + n - 1)
           i == FlIndex(g.hdr[c])
<1>1. /\ b \in DOMAIN g.hdr /\ n \in Nat \ {0} /\ But(g, heap, X, E) /\ Typed(g)
      /\ g.hdr[b].sz = n * HBLKSIZE /\ \A e \in E : g.fwd[e] = 0
  BY DEF Clear, Held, Vacant, But
<1>2. c \in Nat /\ m \in Nat \ {0}
  <2>1. c \in DOMAIN g.hdr
    BY DEF FreeBlocks
  <2> QED
    BY <1>1, <2>1, Extents
<1>3. c \in FreeBlocks(g) \ X /\ i = FlIndex(g.hdr[c]) /\ r = GC_remove_from_fl_at(g, c, i)
  BY <1>1, <1>2 DEF GC_remove_from_fl
<1> HIDE DEF X, E, i
<1>4. /\ c \in DOMAIN g.hdr /\ g.hdr[c].sz = m * HBLKSIZE
      /\ Extent(g, c) = c..(c + m - 1)
  BY ONLY <1>1, <1>3, FreeFacts, m = N(g, c)
<1>5. /\ But(r, heap, X \cup {c}, E \cup Extent(g, c)) /\ SameBlocks(g, r)
      /\ \A e \in Extent(g, c) : g.fwd[e] = 0
  BY ONLY <1>1, <1>3, TakeOff
<1>6. E \cup Extent(g, c) = c..(c + (m + n) - 1) /\ X \cup {c} = {c, b}
  BY <1>1, <1>2, <1>4, c + m = b DEF E, X
<1>7. r.hdr = g.hdr /\ r.fwd = g.fwd
  BY <1>5 DEF SameBlocks
<1>8. \A e \in c..(c + (m + n) - 1) : r.fwd[e] = 0
  BY ONLY <1>1, <1>5, <1>6, <1>7
<1>9. But(r, heap, {c, b}, c..(c + (m + n) - 1))
  BY ONLY <1>5, <1>6
<1> QED
  BY ONLY <1>1, <1>2, <1>4, <1>5, <1>7, <1>8, <1>9, c + m = b DEF Adjacent

LEMMA FreedIs ==
  ASSUME NEW g, NEW heap, NEW b, NEW n, Held(g, heap, b, n), n = N(g, b),
         NEW r, r = Freed(g, b)
  PROVE  /\ Clear(r, heap, b, n) /\ Kept(g, r) /\ Spared(g, r, {b})
         /\ Lone(g, b) => Lone(r, b)
<1> DEFINE X == {b}
           E == b..(b + n - 1)
           B == (b + 1)..(b + n - 1)
           size == HBLKSIZE * OBJ_SZ_TO_BLOCKS(g.hdr[b].sz)
           q == GC_remove_counts(g, b, n)
<1>1. /\ b \in DOMAIN g.hdr /\ n \in Nat \ {0} /\ But(g, heap, X, E) /\ Typed(g)
      /\ IsHeader(g.hdr[b]) /\ g.fwd[b] = 0 /\ b \in Nat
  <2>1. b \in DOMAIN g.hdr /\ n \in Nat \ {0} /\ But(g, heap, X, E)
    BY DEF Held
  <2>2. Typed(g)
    BY <2>1 DEF But
  <2> QED
    BY <2>1, <2>2, Extents
<1>2. size = n * HBLKSIZE /\ size \div HBLKSIZE = n /\ n * HBLKSIZE \in Nat \ {0}
  <2>1. size = n * HBLKSIZE
    BY <1>1, HeaderSizes DEF N
  <2> HIDE DEF size
  <2> QED
    BY <1>1, <2>1, Whole
<1>3. But(q, heap, X, E) /\ Emptied(g, q, B)
  <2>1. B \subseteq E /\ X \cap B = {} /\ B = (b + 1)..(b + n - 1) /\ n \in Nat
        /\ q = GC_remove_counts(g, b, n)
    BY <1>1
  <2> HIDE DEF X, E, B, q
  <2> QED
    BY ONLY <1>1, <2>1, CountsRemoved
<1>4. /\ DOMAIN q.hdr = DOMAIN g.hdr /\ Kept(g, q)
      /\ \A c \in DOMAIN g.hdr : q.hdr[c] = g.hdr[c]
      /\ \A c \in B : q.fwd[c] = 0
      /\ \A c \in (0..NBLOCKS) \ B : q.fwd[c] = g.fwd[c]
  <2> HIDE DEF q, B
  <2> QED
    BY ONLY <1>3 DEF Emptied, Outside
<1> DEFINE w == GC_remove_counts(g, b, size \div HBLKSIZE)
<1>5. r = [w
             EXCEPT !.hdr[b].sz = size,
                    !.hdr[b].last_reclaimed = IF g.USE_MUNMAP THEN g.gc_no % USHORT ELSE @,
                    !.hdr[b].flags = @ \cup {"FREE_BLK"},
                    !.large_free_bytes = @ + size,
                    !.aborted = @ \/ IsFree(g, b)]
  BY ONLY r = Freed(g, b), Zenon DEF Freed
<1>6. r = [q EXCEPT !.hdr[b].sz = size,
                    !.hdr[b].last_reclaimed = IF g.USE_MUNMAP THEN g.gc_no % USHORT ELSE @,
                    !.hdr[b].flags = @ \cup {"FREE_BLK"},
                    !.large_free_bytes = @ + size,
                    !.aborted = @ \/ IsFree(g, b)]
  <2> HIDE DEF size
  <2>1. w = q
    BY <1>2
  <2> HIDE DEF w, q
  <2> QED
    BY ONLY <1>5, <2>1
<1> DEFINE x == [[[q.hdr[b] EXCEPT !.sz = size]
                    EXCEPT !.last_reclaimed = IF g.USE_MUNMAP THEN g.gc_no % USHORT ELSE @]
                    EXCEPT !.flags = @ \cup {"FREE_BLK"}]
<1> HIDE DEF size, q, E, B, X
<1>7. /\ DOMAIN r = DOMAIN q /\ Kept(q, r) /\ r.fwd = q.fwd /\ r.hblkfreelist = q.hblkfreelist
      /\ r.index = q.index
      /\ r.hdr = [q.hdr EXCEPT ![b] = x]
  <2>1. /\ DOMAIN r = DOMAIN q /\ r.fwd = q.fwd /\ r.hblkfreelist = q.hblkfreelist /\ r.index = q.index
        /\ Kept(q, r)
    BY ONLY <1>6 DEF Kept
  <2>2. "hdr" \in DOMAIN q
    BY <1>3 DEF But, Typed, Fields
  <2> DEFINE H1 == [q.hdr EXCEPT ![b].sz = size]
             H2 == [H1 EXCEPT ![b].last_reclaimed = IF g.USE_MUNMAP THEN g.gc_no % USHORT ELSE @]
             H3 == [H2 EXCEPT ![b].flags = @ \cup {"FREE_BLK"}]
  <2>3. r.hdr = H3
    BY ONLY <1>6, <2>2
  <2>4. b \in DOMAIN q.hdr
    BY <1>1, <1>4
  <2>5. /\ DOMAIN H3 = DOMAIN q.hdr /\ H3[b] = x
        /\ \A c \in DOMAIN q.hdr \ {b} : H3[c] = q.hdr[c]
    BY <2>4
  <2> HIDE DEF x
  <2>6. H3 = [q.hdr EXCEPT ![b] = x]
    BY <2>4, <2>5
  <2> HIDE DEF H3
  <2> QED
    BY ONLY <2>1, <2>3, <2>6
<1>8. IsHeader(x) /\ x.sz = n * HBLKSIZE /\ x.flags = g.hdr[b].flags \cup {"FREE_BLK"}
  <2>1. q.hdr[b] = g.hdr[b]
    BY <1>1, <1>4
  <2> QED
    BY <1>1, <1>2, <2>1 DEF IsHeader
<1> HIDE DEF x
<1>9. Resized(q, r, b, n)
  BY ONLY <1>1, <1>4, <1>7, <1>8 DEF Resized, IsHeader
<1>10. But(r, heap, X, E)
  <2>1. b \in X /\ b \in DOMAIN q.hdr
    BY <1>1, <1>4 DEF X
  <2> QED
    BY ONLY <1>3, <1>9, <2>1, RewrittenResized
<1>11. b \in DOMAIN r.hdr /\ r.hdr[b].sz = n * HBLKSIZE
  BY <1>1, <1>4, <1>7, <1>8
<1>12. \A c \in E : r.fwd[c] = 0
  <2>1. \A c \in E : c = b \/ c \in B
    BY <1>1 DEF E, B
  <2>2. b \in (0..NBLOCKS) \ B
    BY <1>1, InRange DEF B, Typed
  <2> QED
    BY <1>1, <1>4, <1>7, <2>1, <2>2
<1>13. Held(r, heap, b, n) /\ Vacant(r, b, n, E)
  BY <1>1, <1>10, <1>11, <1>12 DEF Held, Vacant, E, X
<1>14. Spared(g, r, {b})
  BY <1>4, <1>7 DEF Spared
<1>15. /\ DOMAIN r.hdr = DOMAIN g.hdr /\ r.hdr[b] = x
       /\ \A c \in DOMAIN g.hdr \ {b} : r.hdr[c] = g.hdr[c]
  BY <1>1, <1>4, <1>7
<1>16. ASSUME Lone(g, b) PROVE Lone(r, b)
  <2>1. r.USE_MUNMAP = g.USE_MUNMAP
    BY <1>4, <1>7 DEF Kept
  <2>2. \A c \in DOMAIN r.hdr : ~g.USE_MUNMAP => IS_MAPPED(r.hdr[c])
    <3>1. ~g.USE_MUNMAP => \A c \in DOMAIN g.hdr : IS_MAPPED(g.hdr[c])
      BY <1>16 DEF Lone
    <3> QED
      BY <1>1, <1>8, <1>15, <3>1 DEF IS_MAPPED
  <2>3. \A c \in FreeBut(r, b) : c \in FreeBut(g, b) /\ N(r, c) = N(g, c)
    BY <1>15 DEF FreeBut, FreeBlocks, IsFree, HasHdr, N
  <2> QED
    BY ONLY <2>1, <2>2, <2>3, <1>16, FewerLone
<1> QED
  BY <1>4, <1>7, <1>13, <1>14, <1>16, KeptOn DEF Clear, E

LEMMA WithNextIs ==
  ASSUME NEW g, NEW heap, NEW b, NEW n, Clear(g, heap, b, n), NEW r, r = WithNext(g, b)
  PROVE  /\ \E k \in Nat \ {0} :
              Clear(r, heap, b, k) /\ (Lone(g, b) => Lone(r, b) /\ Fenced(r, b, k))
         /\ Kept(g, r) /\ Spared(g, r, {b, b + n}) /\ DOMAIN r.hdr \subseteq DOMAIN g.hdr
<1> DEFINE c == b + n
           m == N(g, c)
           s == n + m
           q == GC_remove_from_fl(g, c)
           p == [q EXCEPT !.hdr[b].sz = @ + g.hdr[c].sz]
<1>1. /\ b \in DOMAIN g.hdr /\ n \in Nat \ {0} /\ But(g, heap, {b}, b..(b + n - 1))
      /\ g.hdr[b].sz = n * HBLKSIZE /\ IsHeader(g.hdr[b])
  BY DEF Clear, Held, Vacant, But, Typed
<1>2. Successor(g, b) = c
  BY <1>1, Whole DEF Successor
<1>3. r = IF IsFree(g, c) /\ IS_MAPPED(g.hdr[c]) THEN GC_remove_header(p, c) ELSE g
  <2> DEFINE next == Successor(g, b)
  <2>1. r = IF IsFree(g, next) /\ IS_MAPPED(g.hdr[next])
            THEN GC_remove_header([GC_remove_from_fl(g, next)
                                     EXCEPT !.hdr[b].sz = @ + g.hdr[next].sz], next)
            ELSE g
    BY ONLY r = WithNext(g, b), Zenon DEF WithNext
  <2> QED
    BY ONLY <1>2, <2>1
<1>4. CASE ~(IsFree(g, c) /\ IS_MAPPED(g.hdr[c])) /\ r = g
  <2>1. Lone(g, b) => Fenced(g, b, n)
    BY <1>4 DEF Lone, Fenced, FreeBlocks
  <2> QED
    BY <1>1, <1>4, <2>1 DEF Kept, Spared
<1>5. CASE IsFree(g, c) /\ r = GC_remove_header(p, c)
  <2>1. c = b + n /\ c \in FreeBlocks(g) /\ q = GC_remove_from_fl(g, c) /\ s = n + m
    BY <1>5 DEF FreeBlocks, IsFree, HasHdr
  <2>2. Adjacent(q, heap, b, n, c, m) /\ SameBlocks(g, q) /\ m = N(g, c)
    <3> HIDE DEF c, q
    <3> QED
      BY ONLY <2>1, Clear(g, heap, b, n), NextOff
  <2> HIDE DEF c, m, s, q
  <2>3. q.hdr = g.hdr /\ Kept(g, q)
    BY ONLY <2>2 DEF SameBlocks
  <2>4. Adjacent(q, heap, b, n, c, m) /\ r = GC_remove_header(p, c) /\ s = n + m
    BY <1>5, <2>1, <2>2
  <2>5. Resized(q, p, b, s) /\ p.hdr[b].flags = g.hdr[b].flags
    <3> DEFINE x == [q.hdr[b] EXCEPT !.sz = @ + g.hdr[c].sz]
    <3>1. /\ Kept(q, p) /\ p.fwd = q.fwd /\ p.hblkfreelist = q.hblkfreelist /\ p.index = q.index
          /\ p.hdr = [q.hdr EXCEPT ![b] = x]
      <4>1. "hdr" \in DOMAIN q
        BY ONLY <2>2 DEF Adjacent, But, Typed, Fields
      <4> QED
        BY ONLY <4>1 DEF Kept
    <3>2. m \in Nat \ {0} /\ g.hdr[c].sz = m * HBLKSIZE
      BY ONLY <2>2, <2>3 DEF Adjacent
    <3>3. s \in Nat \ {0} /\ n * HBLKSIZE + m * HBLKSIZE = s * HBLKSIZE /\ s * HBLKSIZE \in Nat \ {0}
      <4>1. HBLKSIZE \in Nat \ {0} /\ n \in Nat /\ m \in Nat /\ s \in Nat \ {0} /\ s = n + m
        BY <1>1, <2>1, <3>2, HeaderSizes
      <4>2. s * HBLKSIZE \in Nat \ {0}
        BY <4>1, Whole
      <4> QED
        BY ONLY <4>1, <4>2
    <3>4. IsHeader(x) /\ x.sz = s * HBLKSIZE
      BY ONLY <1>1, <2>3, <3>2, <3>3 DEF IsHeader
    <3>5. b \in DOMAIN q.hdr /\ IsHeader(q.hdr[b])
      BY <1>1, <2>3
    <3>6. p.hdr[b].flags = g.hdr[b].flags
      BY ONLY <2>3, <3>1, <3>5
    <3> HIDE DEF x, p
    <3> QED
      BY ONLY <3>1, <3>3, <3>4, <3>5, <3>6, ResizedIs
  <2> HIDE DEF p
  <2>6. /\ Clear(r, heap, b, s) /\ Kept(q, r) /\ Spared(q, r, {b, c})
        /\ Absorbed(q, p, r, b, c)
    <3>1. Resized(q, p, b, s)
      BY <2>5
    <3> QED
      BY ONLY <2>4, <3>1, Joined
  <2>7. s \in Nat \ {0}
    BY ONLY <2>6 DEF Clear, Held
  <2>8. Spared(g, r, {b, b + n}) /\ DOMAIN r.hdr \subseteq DOMAIN g.hdr
    BY ONLY <2>1, <2>3, <2>6 DEF Spared, Absorbed
  <2>9. ASSUME Lone(g, b) PROVE Lone(r, b) /\ Fenced(r, b, s)
    <3>1. r.USE_MUNMAP = g.USE_MUNMAP
      BY ONLY <2>3, <2>6 DEF Kept
    <3>2. \A d \in DOMAIN r.hdr : d \in DOMAIN g.hdr /\ (d # b => r.hdr[d] = g.hdr[d])
      BY ONLY <2>3, <2>6 DEF Spared, Absorbed
    <3>3. \A d \in DOMAIN r.hdr : ~g.USE_MUNMAP => IS_MAPPED(r.hdr[d])
      <4>1. ~g.USE_MUNMAP => \A d \in DOMAIN g.hdr : IS_MAPPED(g.hdr[d])
        BY <2>9 DEF Lone
      <4>2. r.hdr[b].flags = g.hdr[b].flags
        BY <2>5, <2>6 DEF Absorbed
      <4> QED
        BY <1>1, <3>2, <4>1, <4>2 DEF IS_MAPPED
    <3>4. \A d \in FreeBut(r, b) : d \in FreeBut(g, b) /\ N(r, d) = N(g, d)
      BY ONLY <3>2 DEF FreeBut, FreeBlocks, IsFree, HasHdr, N
    <3>5. Lone(r, b)
      BY ONLY <2>9, <3>1, <3>3, <3>4, FewerLone
    <3>6. /\ b \in Nat /\ c # b /\ b + s # b /\ b + s = c + m /\ m = N(g, c)
      <4>1. b \in Nat /\ n \in Nat \ {0} /\ m \in Nat \ {0}
        BY ONLY <2>2 DEF Adjacent
      <4> QED
        BY ONLY <2>1, <2>2, <4>1
    <3>7. ~g.USE_MUNMAP => b + s \notin FreeBlocks(r)
      BY ONLY <2>1, <2>9, <3>4, <3>6 DEF Lone, FreeBut
    <3> QED
      BY ONLY <3>1, <3>5, <3>7 DEF Fenced
  <2> QED
    BY ONLY <2>3, <2>6, <2>7, <2>8, <2>9, KeptOn
<1> QED
  BY ONLY <1>3, <1>4, <1>5

LEMMA Ending ==
  ASSUME NEW g, NEW heap, NEW b, NEW n, Clear(g, heap, b, n),
         NEW p, p = GC_free_block_ending_at(g, b)
  PROVE  /\ p = NULL \/ (p \in FreeBlocks(g) /\ p + N(g, p) = b)
         /\ p = NULL => Unled(g, b)
<1> DEFINE X == {b}
           E == b..(b + n - 1)
           a == b - 1
           near == Forwarded(g, a)
           prev == GC_prev_block(g, a)
<1>1. /\ b \in DOMAIN g.hdr /\ n \in Nat \ {0} /\ But(g, heap, X, E) /\ Typed(g)
      /\ g.hdr[b].sz = n * HBLKSIZE /\ \A c \in E : g.fwd[c] = 0
  BY DEF Clear, Held, Vacant, But
<1>2. b \in Nat /\ b \in Blocks /\ a \in 0..NBLOCKS /\ a + 1 = b /\ a \notin E /\ a # b
  BY <1>1, InRange, HeaderSizes DEF Typed, Blocks
<1>3. p = IF near # NULL THEN (IF IsFree(g, near) THEN near ELSE NULL)
          ELSE IF prev # NULL /\ IsFree(g, prev) /\ prev + g.hdr[prev].sz \div HBLKSIZE = b
               THEN prev
          ELSE NULL
  BY ONLY p = GC_free_block_ending_at(g, b), Zenon DEF GC_free_block_ending_at
<1>4. b \in X /\ b \in E /\ b \in Nat
  BY <1>1, <1>2
<1> HIDE DEF X, E, a, near, prev
<1>5. /\ \A u \in UsedBlocks(g) \ X : \A c \in Extent(g, u) : Forwarded(g, c) = u
      /\ \A c \in DOMAIN g.hdr : Forwarded(g, c) = c
      /\ \A c \in (0..NBLOCKS) \ DOMAIN g.hdr : g.fwd[c] = 0 => Forwarded(g, c) = NULL
  BY ONLY <1>1, Leads
<1>6. \A c : IsFree(g, c) => c \in FreeBlocks(g) /\ c \in DOMAIN g.hdr
  BY DEF FreeBlocks, IsFree, HasHdr
<1>7. CASE near # NULL /\ IsFree(g, near) /\ p = near
  <2>1. near \in FreeBlocks(g) /\ near \in DOMAIN g.hdr
    BY <1>6, <1>7
  <2>2. near = a
    <3>1. CASE a \in DOMAIN g.hdr
      BY <1>5, <3>1 DEF near
    <3>2. CASE a \notin DOMAIN g.hdr
      <4>1. g.fwd[a] # 0
        BY <1>2, <1>5, <1>7, <3>2 DEF near
      <4>2. a \in (0..NBLOCKS) \ E
        BY <1>2
      <4>3. PICK u \in UsedBlocks(g) \ X : a \in Extent(g, u)
        BY ONLY <1>1, <4>1, <4>2 DEF But, CountsOf
      <4>4. near = u
        BY <1>5, <4>3 DEF near
      <4> QED
        BY <1>7, <4>3, <4>4 DEF UsedBlocks, IsUsed, IsFree
    <3> QED
      BY <3>1, <3>2
  <2>3. near \in DOMAIN g.hdr \ X
    BY <1>2, <2>1, <2>2 DEF X
  <2>4. b \notin Extent(g, near)
    BY ONLY <1>1, <1>4, <2>3, CannotShare
  <2>5. N(g, near) \in Nat \ {0} /\ Extent(g, near) = near..(near + N(g, near) - 1)
    BY <1>1, <2>1, Extents
  <2>6. near + N(g, near) = b
    <3> DEFINE k == N(g, near)
    <3> HIDE DEF k
    <3>1. k \in Nat \ {0} /\ b \notin near..(near + k - 1) /\ near \in Nat /\ near + 1 = b
      BY <1>2, <2>2, <2>4, <2>5 DEF k
    <3>2. near + k = b
      BY ONLY <3>1, <1>4
    <3> QED
      BY <3>2 DEF k
  <2> QED
    BY <1>7, <2>1, <2>6
<1>8. CASE IsFree(g, prev) /\ prev + g.hdr[prev].sz \div HBLKSIZE = b /\ p = prev
  <2>1. prev \in FreeBlocks(g) /\ prev \in DOMAIN g.hdr
    BY <1>6, <1>8
  <2>2. prev # b
    <3>1. g.hdr[b].sz \div HBLKSIZE = n
      BY <1>1, Whole
    <3> QED
      BY <1>1, <1>4, <1>8, <3>1
  <2>3. prev \in FreeBlocks(g) \ X
    BY <2>1, <2>2 DEF X
  <2>4. g.hdr[prev].sz \div HBLKSIZE = N(g, prev)
    BY ONLY <1>1, <2>3, FreeFacts
  <2>5. p # NULL
    BY <1>1, <1>8, <2>1, InRange DEF Typed
  <2> QED
    BY <1>8, <2>1, <2>4, <2>5
<1>9. p = NULL \/ (near # NULL /\ IsFree(g, near) /\ p = near)
      \/ (IsFree(g, prev) /\ prev + g.hdr[prev].sz \div HBLKSIZE = b /\ p = prev)
  BY ONLY <1>3
<1>10. ASSUME NEW c \in FreeBut(g, b), c + N(g, c) = b PROVE p # NULL
  <2>1. c \in FreeBlocks(g) \ X /\ c \in DOMAIN g.hdr \ X /\ c # b /\ IsFree(g, c)
    BY DEF FreeBut, FreeBlocks, X
  <2>2. /\ N(g, c) \in Nat \ {0} /\ c \in Blocks /\ c \in Nat /\ c # NULL
        /\ Extent(g, c) = c..(c + N(g, c) - 1)
    BY <1>1, <2>1, Extents, InRange
  <2>3. Extent(g, c) = c..a /\ c <= a /\ a \in Extent(g, c)
    <3> DEFINE k == N(g, c)
    <3> HIDE DEF k
    <3>1. k \in Nat \ {0} /\ c \in Nat /\ c + k = b /\ a + 1 = b /\ Extent(g, c) = c..(c + k - 1)
          /\ a \in Nat
      BY <1>2, <1>10, <2>2 DEF k
    <3> QED
      BY ONLY <3>1
  <2>4. \A d \in DOMAIN g.hdr \ X : d # c => Extent(g, d) \cap Extent(g, c) = {}
    BY ONLY <1>1, <2>1 DEF But, Cut
  <2>5. \A d \in DOMAIN g.hdr : d \in Extent(g, d)
    BY ONLY <1>1, Extents
  <2>6. CASE a \in DOMAIN g.hdr
    <3>1. a = c
      BY <1>2, <2>3, <2>4, <2>5, <2>6 DEF X
    <3>2. near = c
      BY <1>5, <2>6, <3>1 DEF near
    <3> QED
      BY <1>3, <2>1, <2>2, <3>2
  <2>7. CASE a \notin DOMAIN g.hdr
    <3>1. g.fwd[a] = 0
      <4> SUFFICES ASSUME g.fwd[a] # 0 PROVE FALSE
        OBVIOUS
      <4>1. a \in (0..NBLOCKS) \ E
        BY <1>2
      <4>2. PICK u \in UsedBlocks(g) \ X : a \in Extent(g, u)
        BY ONLY <1>1, <4>1, g.fwd[a] # 0 DEF But, CountsOf
      <4>3. u \in DOMAIN g.hdr \ X /\ u # c
        BY <2>1, <4>2 DEF UsedBlocks, IsUsed, IsFree
      <4> QED
        BY <2>3, <2>4, <4>2, <4>3
    <3>2. near = NULL
      BY <1>2, <1>5, <2>7, <3>1 DEF near
    <3>3. /\ prev = NULL \/ (prev \in DOMAIN g.hdr /\ prev <= a)
          /\ \A d \in DOMAIN g.hdr : d <= a => d <= prev
      BY ONLY <1>1, <1>2, PrevIs DEF prev
    <3>4. c <= prev
      BY <2>1, <2>3, <3>3
    <3>5. prev \in DOMAIN g.hdr /\ prev <= a /\ prev # NULL
      <4>1. prev # NULL
        BY <2>2, <3>4 DEF NULL, Blocks
      <4> QED
        BY <3>3, <4>1
    <3>6. prev \in Nat /\ prev # b
      BY <1>1, <1>2, <3>5, Extents
    <3>7. prev \in Extent(g, c)
      BY <2>2, <2>3, <3>4, <3>5, <3>6
    <3>8. prev = c
      BY <2>4, <2>5, <3>5, <3>6, <3>7 DEF X
    <3>9. g.hdr[c].sz \div HBLKSIZE = N(g, c)
      BY ONLY <1>1, <2>1, FreeFacts
    <3> QED
      BY <1>3, <1>10, <2>1, <2>2, <3>2, <3>8, <3>9
  <2> QED
    BY <2>6, <2>7
<1>11. p = NULL => Unled(g, b)
  BY ONLY <1>10 DEF Unled
<1> QED
  BY ONLY <1>7, <1>8, <1>9, <1>11

\* b goes on its list.
LEMMA PutBack ==
  ASSUME NEW g, NEW heap, NEW b, NEW n, Clear(g, heap, b, n), NEW r, r = GC_add_to_fl(g, b)
  PROVE  /\ Good(r, heap) /\ Kept(g, r) /\ Linked(g, r, b)
         /\ Lone(g, b) /\ Fenced(g, b, n) /\ Unled(g, b) => Lone(r, NULL)
<1> DEFINE X == {b}
           E == b..(b + n - 1)
<1>1. Vacant(g, b, n, E) /\ But(g, heap, X, E) /\ b \in X /\ E \subseteq E
  BY DEF Clear, Held
<1>2. X \cap E = {b}
  BY <1>1, InRange DEF Vacant, But, Typed
<1>3. X \ {b} = {} /\ E \ E = {}
  OBVIOUS
<1> HIDE DEF X, E
<1>4. But(r, heap, X \ {b}, E \ E) /\ Linked(g, r, b)
  BY ONLY <1>1, <1>2, r = GC_add_to_fl(g, b), PutOn
<1>5. ASSUME Lone(g, b), Fenced(g, b, n), Unled(g, b), ~r.USE_MUNMAP
      PROVE  /\ \A d \in DOMAIN r.hdr : IS_MAPPED(r.hdr[d])
             /\ \A d \in FreeBlocks(r) : d + N(r, d) \notin FreeBlocks(r)
  <2>1. /\ DOMAIN r.hdr = DOMAIN g.hdr /\ r.USE_MUNMAP = g.USE_MUNMAP
        /\ \A d \in DOMAIN g.hdr \ {b} : r.hdr[d] = g.hdr[d]
        /\ r.hdr[b].flags = g.hdr[b].flags \cup {"FREE_BLK"} /\ r.hdr[b].sz = g.hdr[b].sz
    BY ONLY <1>4 DEF Linked, Outside, Kept
  <2>2. /\ \A d \in DOMAIN g.hdr : IS_MAPPED(g.hdr[d])
        /\ \A d \in FreeBut(g, b) : d + N(g, d) \notin FreeBut(g, b) /\ d + N(g, d) # b
        /\ b + n \notin FreeBlocks(g)
    BY ONLY <1>5, <2>1 DEF Lone, Fenced, Unled
  <2>3. b \in DOMAIN g.hdr /\ b \in Nat /\ n \in Nat \ {0} /\ g.hdr[b].sz = n * HBLKSIZE
    BY <1>1, InRange DEF Vacant, But, Typed
  <2>4. N(r, b) = n /\ b + n # b
    BY <2>1, <2>3, Whole DEF N
  <2>5. \A d \in FreeBlocks(r) : d # b => d \in FreeBut(g, b) /\ N(r, d) = N(g, d)
    BY ONLY <2>1 DEF FreeBut, FreeBlocks, IsFree, HasHdr, N
  <2>6. \A d \in DOMAIN r.hdr : IS_MAPPED(r.hdr[d])
    BY ONLY <2>1, <2>2, <2>3 DEF IS_MAPPED
  <2>7. \A d \in FreeBlocks(r) : d + N(r, d) \notin FreeBlocks(r)
    BY ONLY <2>2, <2>4, <2>5 DEF FreeBut
  <2> QED
    BY ONLY <2>6, <2>7
<1>6. Lone(g, b) /\ Fenced(g, b, n) /\ Unled(g, b) => Lone(r, NULL)
  BY ONLY <1>5 DEF Lone, FreeBut
<1> QED
  BY <1>3, <1>4, <1>6 DEF Good, Linked, Outside

LEMMA WithPrevIs ==
  ASSUME NEW g, NEW heap, NEW b, NEW n, Clear(g, heap, b, n),
         NEW c, c = NULL \/ (c \in FreeBlocks(g) /\ c + N(g, c) = b),
         NEW r, r = WithPrev(g, b, c)
  PROVE  /\ Good(r, heap) /\ Kept(g, r)
         /\ Lone(g, b) /\ Fenced(g, b, n) /\ (c = NULL => Unled(g, b)) => Lone(r, NULL)
<1> DEFINE m == N(g, c)
           s == m + n
           q == GC_remove_from_fl(g, c)
           p == [q EXCEPT !.hdr[c].sz = @ + g.hdr[b].sz,
                          !.hdr[c].last_reclaimed = IF g.USE_MUNMAP THEN g.gc_no % USHORT ELSE @]
           t == GC_remove_header(p, b)
<1>1. /\ b \in DOMAIN g.hdr /\ n \in Nat \ {0} /\ Typed(g) /\ g.hdr[b].sz = n * HBLKSIZE
  BY DEF Clear, Held, Vacant, But
<1>2. r = IF c # NULL /\ IS_MAPPED(g.hdr[c]) THEN GC_add_to_fl(t, c) ELSE GC_add_to_fl(g, b)
  BY ONLY r = WithPrev(g, b, c), Zenon DEF WithPrev
<1>3. CASE ~(c # NULL /\ IS_MAPPED(g.hdr[c])) /\ r = GC_add_to_fl(g, b)
  <2>1. /\ Good(r, heap) /\ Kept(g, r)
        /\ Lone(g, b) /\ Fenced(g, b, n) /\ Unled(g, b) => Lone(r, NULL)
    BY ONLY <1>3, Clear(g, heap, b, n), PutBack
  <2>2. Lone(g, b) /\ ~g.USE_MUNMAP => c = NULL
    BY <1>3 DEF Lone, FreeBlocks
  <2>3. g.USE_MUNMAP => Unled(g, b)
    BY DEF Unled
  <2> QED
    BY ONLY <2>1, <2>2, <2>3 DEF Lone, Unled, Fenced
<1>4. CASE c # NULL /\ r = GC_add_to_fl(t, c)
  <2>1. c \in FreeBlocks(g) /\ m = N(g, c) /\ c + m = b /\ q = GC_remove_from_fl(g, c)
    BY <1>4
  <2>2. Adjacent(q, heap, c, m, b, n) /\ SameBlocks(g, q)
    <3> HIDE DEF m, q
    <3> QED
      BY ONLY <2>1, Clear(g, heap, b, n), PrevOff
  <2>3. t = GC_remove_header(p, b) /\ s = m + n
    OBVIOUS
  <2>4. c \in DOMAIN g.hdr /\ IsHeader(g.hdr[c])
    <3>1. c \in DOMAIN g.hdr
      BY <2>1 DEF FreeBlocks
    <3> QED
      BY <1>1, <3>1, Extents
  <2> HIDE DEF m, s, q, t
  <2>5. q.hdr = g.hdr /\ Kept(g, q)
    BY ONLY <2>2 DEF SameBlocks
  <2>6. Resized(q, p, c, s) /\ p.hdr[c].flags = g.hdr[c].flags
    <3> DEFINE y == [q.hdr[c] EXCEPT !.sz = @ + g.hdr[b].sz]
               x == [y EXCEPT !.last_reclaimed = IF g.USE_MUNMAP THEN g.gc_no % USHORT ELSE @]
    <3>1. /\ Kept(q, p) /\ p.fwd = q.fwd /\ p.hblkfreelist = q.hblkfreelist /\ p.index = q.index
          /\ p.hdr = [q.hdr EXCEPT ![c] = x]
      <4>1. "hdr" \in DOMAIN q
        BY ONLY <2>2 DEF Adjacent, But, Typed, Fields
      <4> DEFINE H1 == [q.hdr EXCEPT ![c].sz = @ + g.hdr[b].sz]
                 H2 == [H1 EXCEPT ![c].last_reclaimed = IF g.USE_MUNMAP THEN g.gc_no % USHORT ELSE @]
      <4>2. p.hdr = H2
        BY ONLY <4>1
      <4>3. c \in DOMAIN q.hdr
        BY <2>4, <2>5
      <4>4. /\ DOMAIN H2 = DOMAIN q.hdr /\ H2[c] = x
            /\ \A d \in DOMAIN q.hdr \ {c} : H2[d] = q.hdr[d]
        BY ONLY <4>3
      <4> HIDE DEF x
      <4>5. H2 = [q.hdr EXCEPT ![c] = x]
        BY ONLY <4>3, <4>4
      <4> HIDE DEF H2
      <4>6. Kept(q, p) /\ p.fwd = q.fwd /\ p.hblkfreelist = q.hblkfreelist /\ p.index = q.index
        BY ONLY <4>1 DEF Kept
      <4> QED
        BY ONLY <4>2, <4>5, <4>6
    <3>2. m \in Nat \ {0} /\ g.hdr[c].sz = m * HBLKSIZE
      BY ONLY <2>2, <2>5 DEF Adjacent
    <3>3. s \in Nat \ {0} /\ m * HBLKSIZE + n * HBLKSIZE = s * HBLKSIZE /\ s * HBLKSIZE \in Nat \ {0}
      <4>1. HBLKSIZE \in Nat \ {0} /\ n \in Nat /\ m \in Nat /\ s \in Nat \ {0} /\ s = m + n
        BY <1>1, <2>3, <3>2, HeaderSizes
      <4>2. s * HBLKSIZE \in Nat \ {0}
        BY <4>1, Whole
      <4> QED
        BY ONLY <4>1, <4>2
    <3>4. IsHeader(x) /\ x.sz = s * HBLKSIZE
      BY ONLY <1>1, <2>4, <2>5, <3>2, <3>3 DEF IsHeader
    <3>5. c \in DOMAIN q.hdr /\ IsHeader(q.hdr[c])
      BY <2>4, <2>5
    <3>6. p.hdr[c].flags = g.hdr[c].flags
      BY ONLY <2>5, <3>1, <3>5
    <3> HIDE DEF x, p
    <3> QED
      BY ONLY <3>1, <3>3, <3>4, <3>5, <3>6, ResizedIs
  <2> HIDE DEF p
  <2>7. /\ Clear(t, heap, c, s) /\ Kept(q, t) /\ Spared(q, t, {c, b})
        /\ Absorbed(q, p, t, c, b)
    <3>1. Resized(q, p, c, s)
      BY <2>6
    <3> QED
      BY ONLY <2>2, <2>3, <3>1, Joined
  <2>8. /\ Good(r, heap) /\ Kept(t, r)
        /\ Lone(t, c) /\ Fenced(t, c, s) /\ Unled(t, c) => Lone(r, NULL)
    BY ONLY <1>4, <2>7, PutBack
  <2>9. Kept(g, t)
    BY ONLY <2>5, <2>7, KeptOn
  <2>10. ASSUME Lone(g, b), Fenced(g, b, n)
         PROVE  Lone(t, c) /\ Fenced(t, c, s) /\ Unled(t, c)
    <3>1. t.USE_MUNMAP = g.USE_MUNMAP
      BY ONLY <2>9 DEF Kept
    <3>2. \A d \in DOMAIN t.hdr : d \in DOMAIN g.hdr \ {b} /\ (d # c => t.hdr[d] = g.hdr[d])
      BY ONLY <2>5, <2>7 DEF Spared, Absorbed
    <3>3. \A d \in DOMAIN t.hdr : ~g.USE_MUNMAP => IS_MAPPED(t.hdr[d])
      <4>1. ~g.USE_MUNMAP => \A d \in DOMAIN g.hdr : IS_MAPPED(g.hdr[d])
        BY <2>10 DEF Lone
      <4>2. t.hdr[c].flags = g.hdr[c].flags
        BY <2>6, <2>7 DEF Absorbed
      <4> QED
        BY <2>4, <3>2, <4>1, <4>2 DEF IS_MAPPED
    <3>4. \A d \in FreeBut(t, c) : d \in FreeBut(g, b) /\ N(t, d) = N(g, d)
      BY ONLY <3>2 DEF FreeBut, FreeBlocks, IsFree, HasHdr, N
    <3>5. Lone(t, c)
      BY ONLY <2>10, <3>1, <3>3, <3>4, FewerLone
    <3>6. c \in Nat /\ m \in Nat \ {0} /\ n \in Nat \ {0} /\ c # b /\ c + s # c /\ c + s = b + n
      <4>1. c \in Nat /\ m \in Nat \ {0} /\ n \in Nat \ {0}
        BY ONLY <2>2 DEF Adjacent
      <4> QED
        BY ONLY <2>1, <2>3, <4>1
    <3>7. ~g.USE_MUNMAP => c + s \notin FreeBlocks(t)
      BY ONLY <2>10, <3>4, <3>6 DEF Fenced, FreeBut
    <3>8. c \in FreeBut(g, b)
      BY ONLY <2>1, <3>6 DEF FreeBut
    <3>9. ~g.USE_MUNMAP => \A d \in FreeBut(t, c) : d + N(t, d) # c
      BY ONLY <2>10, <3>4, <3>8 DEF Lone
    <3> QED
      BY ONLY <3>1, <3>5, <3>7, <3>9 DEF Fenced, Unled
  <2> QED
    BY ONLY <2>8, <2>9, <2>10, KeptOn
<1> QED
  BY ONLY <1>2, <1>3, <1>4

\* A block in the hands of the allocator given back.
LEMMA GivenBack ==
  ASSUME NEW g, NEW heap, NEW b, NEW n, Held(g, heap, b, n), n = N(g, b),
         NEW r, r = GC_freehblk(g, b)
  PROVE  Good(r, heap) /\ Kept(g, r) /\ (Lone(g, b) => Lone(r, NULL))
<1> DEFINE f == Freed(g, b)
           q == WithNext(f, b)
           p == GC_free_block_ending_at(f, b)
<1>1. f = Freed(g, b) /\ q = WithNext(f, b) /\ p = GC_free_block_ending_at(f, b)
      /\ r = WithPrev(q, b, p)
  BY DEF GC_freehblk
<1> HIDE DEF f, q, p
<1>2. Clear(f, heap, b, n) /\ Kept(g, f) /\ (Lone(g, b) => Lone(f, b))
  BY ONLY <1>1, Held(g, heap, b, n), n = N(g, b), FreedIs
<1>3. /\ \E k \in Nat \ {0} :
           Clear(q, heap, b, k) /\ (Lone(f, b) => Lone(q, b) /\ Fenced(q, b, k))
      /\ Kept(f, q) /\ Spared(f, q, {b, b + n}) /\ DOMAIN q.hdr \subseteq DOMAIN f.hdr
  BY ONLY <1>1, <1>2, WithNextIs
<1>4. PICK k \in Nat \ {0} :
        Clear(q, heap, b, k) /\ (Lone(f, b) => Lone(q, b) /\ Fenced(q, b, k))
  BY <1>3
<1>5. /\ p = NULL \/ (p \in FreeBlocks(f) /\ p + N(f, p) = b)
      /\ p = NULL => Unled(f, b)
  BY ONLY <1>1, <1>2, Ending
<1>6. ASSUME p # NULL PROVE p \in FreeBlocks(q) /\ p + N(q, p) = b
  <2>1. p \in FreeBlocks(f) /\ p \in DOMAIN f.hdr /\ p + N(f, p) = b
    BY <1>5, <1>6 DEF FreeBlocks
  <2>2. Typed(f) /\ b \in Nat /\ n \in Nat \ {0}
    BY ONLY <1>2, InRange DEF Clear, Held, But, Typed
  <2>3. N(f, p) \in Nat \ {0} /\ p \in Nat
    BY ONLY <2>1, <2>2, Extents
  <2>4. p # b /\ p # b + n
    BY ONLY <2>1, <2>2, <2>3
  <2>5. p \in DOMAIN q.hdr /\ q.hdr[p] = f.hdr[p]
    BY <1>3, <2>1, <2>4 DEF Spared
  <2> QED
    BY <2>1, <2>5 DEF FreeBlocks, IsFree, HasHdr, N
<1>7. p = NULL \/ (p \in FreeBlocks(q) /\ p + N(q, p) = b)
  BY <1>6
<1>8. /\ Good(r, heap) /\ Kept(q, r)
      /\ Lone(q, b) /\ Fenced(q, b, k) /\ (p = NULL => Unled(q, b)) => Lone(r, NULL)
  BY ONLY <1>1, <1>4, <1>7, WithPrevIs
<1>9. Kept(g, q)
  BY ONLY <1>2, <1>3, KeptOn
<1>10. ASSUME Unled(f, b) PROVE Unled(q, b)
  <2> SUFFICES ASSUME ~q.USE_MUNMAP, NEW c \in FreeBut(q, b) PROVE c + N(q, c) # b
    BY DEF Unled
  <2>1. ~f.USE_MUNMAP
    BY <1>3 DEF Kept
  <2>2. c \in DOMAIN q.hdr /\ c \in DOMAIN f.hdr /\ c # b /\ IsFree(q, c)
    BY <1>3 DEF FreeBut, FreeBlocks
  <2>3. CASE c = b + n
    <3>1. b \in Nat /\ n \in Nat \ {0}
      BY ONLY <1>2, InRange DEF Clear, Held, But, Typed
    <3>2. Typed(q)
      BY ONLY <1>4 DEF Clear, Held, But
    <3>3. N(q, c) \in Nat \ {0}
      BY ONLY <2>2, <3>2, Extents
    <3> DEFINE m == N(q, c)
    <3> HIDE DEF m
    <3>4. m \in Nat \ {0}
      BY <3>3 DEF m
    <3>5. c + m # b
      BY ONLY <2>3, <3>1, <3>4
    <3> QED
      BY <3>5 DEF m
  <2>4. CASE c # b + n
    <3>1. q.hdr[c] = f.hdr[c]
      BY <1>3, <2>2, <2>4 DEF Spared
    <3>2. c \in FreeBut(f, b) /\ N(q, c) = N(f, c)
      BY <2>2, <3>1 DEF FreeBut, FreeBlocks, IsFree, HasHdr, N
    <3> QED
      BY <1>10, <2>1, <3>2 DEF Unled
  <2> QED
    BY <2>3, <2>4
<1> QED
  BY ONLY <1>2, <1>4, <1>5, <1>8, <1>9, <1>10, KeptOn

LEMMA UsedHeld ==
  ASSUME NEW g, NEW heap, Good(g, heap), NEW b \in UsedBlocks(g)
  PROVE  Held(g, heap, b, N(g, b))
<1> DEFINE X == {}
<1>1. But(g, heap, X, X) /\ b \in UsedBlocks(g) \ X /\ Typed(g) /\ b \in DOMAIN g.hdr
  BY DEF Good, But, UsedBlocks
<1>2. N(g, b) \in Nat \ {0} /\ Extent(g, b) = b..(b + N(g, b) - 1)
  BY ONLY <1>1, Extents
<1>3. X \cup {b} = {b} /\ X \cup Extent(g, b) = Extent(g, b)
  OBVIOUS
<1> HIDE DEF X
<1>4. But(g, heap, X \cup {b}, X \cup Extent(g, b))
  BY ONLY <1>1, UsedHole
<1> QED
  BY ONLY <1>1, <1>2, <1>3, <1>4 DEF Held

-----------------------------------------------------------------------------
\* Merging and unmapping.  The headers may differ in all but their sizes and
\* in which are free.
Looks(g, r) ==
  /\ Kept(g, r) /\ r.fwd = g.fwd /\ r.hblkfreelist = g.hblkfreelist /\ r.index = g.index
  /\ DOMAIN r.hdr = DOMAIN g.hdr
  /\ \A b \in DOMAIN g.hdr :
       /\ {"sz", "flags"} \subseteq DOMAIN r.hdr[b] /\ r.hdr[b].sz = g.hdr[b].sz
       /\ "FREE_BLK" \in r.hdr[b].flags <=> "FREE_BLK" \in g.hdr[b].flags

LEMMA LooksOn ==
  ASSUME NEW g, NEW r, Looks(g, r), NEW q, Looks(r, q)
  PROVE  Looks(g, q)
BY DEF Looks, Kept

LEMMA LooksGood ==
  ASSUME NEW g, NEW heap, Good(g, heap), NEW r, Looks(g, r)
  PROVE  /\ Good(r, heap) /\ Kept(g, r) /\ FreeBlocks(r) = FreeBlocks(g)
         /\ \A b \in DOMAIN g.hdr : N(r, b) = N(g, b) /\ FlIndex(r.hdr[b]) = FlIndex(g.hdr[b])
<1> DEFINE X == {}
<1>1. But(g, heap, X, X)
  BY DEF Good
<1>2. /\ DOMAIN r = DOMAIN g /\ r.fwd = g.fwd /\ r.hblkfreelist = g.hblkfreelist /\ r.index = g.index
      /\ DOMAIN r.hdr = DOMAIN g.hdr /\ Kept(g, r)
      /\ \A b \in DOMAIN g.hdr :
           /\ {"sz", "flags"} \subseteq DOMAIN r.hdr[b] /\ r.hdr[b].sz = g.hdr[b].sz
           /\ "FREE_BLK" \in r.hdr[b].flags <=> "FREE_BLK" \in g.hdr[b].flags
  BY DEF Looks, Kept
<1> HIDE DEF X
<1>3. But(r, heap, X, X) /\ FreeBlocks(r) = FreeBlocks(g)
  BY ONLY <1>1, <1>2, Restyled
<1> QED
  BY <1>2, <1>3 DEF Good, X, N, FlIndex

\* Of one header.
LEMMA LooksOne ==
  ASSUME NEW g, Typed(g), NEW b \in DOMAIN g.hdr, NEW x, {"sz", "flags"} \subseteq DOMAIN x,
         x.sz = g.hdr[b].sz, "FREE_BLK" \in x.flags <=> "FREE_BLK" \in g.hdr[b].flags,
         NEW r, Kept(g, r), r.fwd = g.fwd, r.hblkfreelist = g.hblkfreelist, r.index = g.index,
         r.hdr = [g.hdr EXCEPT ![b] = x]
  PROVE  Looks(g, r)
<1>1. DOMAIN r.hdr = DOMAIN g.hdr /\ r.hdr[b] = x /\ \A c \in DOMAIN g.hdr \ {b} : r.hdr[c] = g.hdr[c]
  OBVIOUS
<1>2. \A c \in DOMAIN g.hdr : {"sz", "flags"} \subseteq DOMAIN g.hdr[c]
  BY DEF Typed, IsHeader
<1> QED
  BY <1>1, <1>2 DEF Looks

LEMMA UnmapLooks ==
  ASSUME NEW g, Typed(g), NEW b \in DOMAIN g.hdr, NEW r, r = Unmap(g, b)
  PROVE  Looks(g, r)
<1> DEFINE x == [g.hdr[b] EXCEPT !.flags = @ \cup {"WAS_UNMAPPED"}]
<1>1. Kept(g, r) /\ r.fwd = g.fwd /\ r.hblkfreelist = g.hblkfreelist /\ r.index = g.index
  BY DEF Unmap, Kept
<1>2. r.hdr = [g.hdr EXCEPT ![b] = x]
  BY DEF Unmap, Typed, Fields
<1>3. {"sz", "flags"} \subseteq DOMAIN g.hdr[b]
  BY DEF Typed, IsHeader
<1>4. /\ {"sz", "flags"} \subseteq DOMAIN x
      /\ x.sz = g.hdr[b].sz /\ ("FREE_BLK" \in x.flags <=> "FREE_BLK" \in g.hdr[b].flags)
  BY <1>3
<1> HIDE DEF x
<1> QED
  BY <1>1, <1>2, <1>4, LooksOne

LEMMA RemapLooks ==
  ASSUME NEW g, Typed(g), NEW b \in DOMAIN g.hdr, NEW r, r = Remap(g, b)
  PROVE  Looks(g, r)
<1> DEFINE x == [g.hdr[b] EXCEPT !.flags = @ \ {"WAS_UNMAPPED"}]
<1>1. Kept(g, r) /\ r.fwd = g.fwd /\ r.hblkfreelist = g.hblkfreelist /\ r.index = g.index
  BY DEF Remap, Kept
<1>2. r.hdr = [g.hdr EXCEPT ![b] = x] \/ r = g
  BY DEF Remap, Typed, Fields
<1>3. {"sz", "flags"} \subseteq DOMAIN g.hdr[b]
  BY DEF Typed, IsHeader
<1>4. /\ {"sz", "flags"} \subseteq DOMAIN x
      /\ x.sz = g.hdr[b].sz /\ ("FREE_BLK" \in x.flags <=> "FREE_BLK" \in g.hdr[b].flags)
  BY <1>3
<1> HIDE DEF x
<1>5. CASE r = g
  BY <1>5 DEF Looks, Kept, Typed, IsHeader
<1> QED
  BY <1>1, <1>2, <1>4, <1>5, LooksOne

LEMMA StampLooks ==
  ASSUME NEW g, Typed(g), NEW b \in DOMAIN g.hdr, NEW n,
         NEW r, r = [g EXCEPT !.hdr[b].last_reclaimed = n]
  PROVE  Looks(g, r)
<1> DEFINE x == [g.hdr[b] EXCEPT !.last_reclaimed = n]
<1>1. Kept(g, r) /\ r.fwd = g.fwd /\ r.hblkfreelist = g.hblkfreelist /\ r.index = g.index
  BY DEF Kept
<1>2. r.hdr = [g.hdr EXCEPT ![b] = x]
  BY DEF Typed, Fields
<1>3. {"sz", "flags"} \subseteq DOMAIN g.hdr[b]
  BY DEF Typed, IsHeader
<1>4. /\ {"sz", "flags"} \subseteq DOMAIN x
      /\ x.sz = g.hdr[b].sz /\ ("FREE_BLK" \in x.flags <=> "FREE_BLK" \in g.hdr[b].flags)
  BY <1>3
<1> HIDE DEF x
<1> QED
  BY <1>1, <1>2, <1>4, LooksOne

\* One of two free neighbours is mapped or unmapped like the other.
Aligned(g, b, next) ==
  IF IS_MAPPED(g.hdr[b]) = IS_MAPPED(g.hdr[next]) THEN g
  ELSE IF IS_MAPPED(g.hdr[b])
       THEN (IF g.hdr[b].sz > g.hdr[next].sz THEN Remap(g, next) ELSE Unmap(g, b))
  ELSE IF g.hdr[b].sz > g.hdr[next].sz THEN Unmap(g, next)
  ELSE [Remap(g, b) EXCEPT !.hdr[b].last_reclaimed = g.hdr[next].last_reclaimed]

LEMMA AlignedLooks ==
  ASSUME NEW g, Typed(g), NEW b \in DOMAIN g.hdr, NEW c \in DOMAIN g.hdr,
         NEW r, r = Aligned(g, b, c)
  PROVE  Looks(g, r)
<1> DEFINE q == Remap(g, b)
<1>1. Looks(g, g)
  BY DEF Looks, Kept, Typed, IsHeader
<1>2. Looks(g, Remap(g, c)) /\ Looks(g, Unmap(g, b)) /\ Looks(g, Unmap(g, c))
  BY RemapLooks, UnmapLooks
<1>3. Looks(g, q)
  BY RemapLooks
<1>4. Looks(g, [q EXCEPT !.hdr[b].last_reclaimed = g.hdr[c].last_reclaimed])
  <2> DEFINE s == [q EXCEPT !.hdr[b].last_reclaimed = g.hdr[c].last_reclaimed]
  <2>1. b \in DOMAIN q.hdr
    BY <1>3 DEF Looks
  <2>2. Typed(q)
    <3> HIDE DEF q
    <3>1. DOMAIN q = DOMAIN g /\ DOMAIN q.hdr = DOMAIN g.hdr /\ q.fwd = g.fwd
          /\ q.hblkfreelist = g.hblkfreelist /\ q.index = g.index
          /\ \A d \in DOMAIN g.hdr : {"sz", "flags"} \subseteq DOMAIN q.hdr[d] /\ q.hdr[d].sz = g.hdr[d].sz
      BY <1>3 DEF Looks, Kept
    <3>2. \A d \in DOMAIN g.hdr : IsHeader(q.hdr[d])
      BY <3>1 DEF Typed, IsHeader
    <3> QED
      BY <1>3, <3>1, <3>2 DEF Typed, Indexed, Looks
  <2> DEFINE n == g.hdr[c].last_reclaimed
  <2>3. s = [q EXCEPT !.hdr[b].last_reclaimed = n]
    OBVIOUS
  <2> HIDE DEF q, s, n
  <2>4. Looks(q, s)
    BY ONLY <2>1, <2>2, <2>3, StampLooks
  <2>5. Looks(g, s)
    BY ONLY <1>3, <2>4, LooksOn
  <2> QED
    BY <2>5 DEF s
<1>5. \/ r = g \/ r = Remap(g, c) \/ r = Unmap(g, b) \/ r = Unmap(g, c)
      \/ r = [q EXCEPT !.hdr[b].last_reclaimed = g.hdr[c].last_reclaimed]
  BY ONLY r = Aligned(g, b, c) DEF Aligned
<1> HIDE DEF q
<1> QED
  BY ONLY <1>1, <1>2, <1>4, <1>5

LEMMA Swallowed ==
  ASSUME NEW g, NEW heap, Good(g, heap), NEW b \in FreeBlocks(g), NEW i, i = FlIndex(g.hdr[b]),
         Mergable(g, b), NEW r, r = Swallow(g, b, i)
  PROVE  Good(r, heap) /\ Kept(g, r)
<1> DEFINE c     == Successor(g, b)
           align == Aligned(g, b, c)
           off   == GC_remove_from_fl_at(align, b, i)
           apart == GC_remove_from_fl(off, c)
           p     == [apart EXCEPT !.hdr[b].sz = @ + g.hdr[c].sz]
           join  == GC_remove_header(p, c)
           n     == N(g, b)
           m     == N(off, c)
           s     == n + m
<1>1. r = GC_add_to_fl(join, b)
  BY ONLY r = Swallow(g, b, i), Zenon DEF Swallow, Aligned
<1>2. But(g, heap, {}, {}) /\ Typed(g) /\ b \in FreeBlocks(g) \ {} /\ b \in DOMAIN g.hdr
  BY DEF Good, But, FreeBlocks
<1>3. c = b + n /\ c \in FreeBlocks(g) /\ c \in DOMAIN g.hdr
  <2>1. g.hdr[b].sz \div HBLKSIZE = n
    <3> DEFINE X == {}
    <3>1. But(g, heap, X, X) /\ b \in FreeBlocks(g) \ X
      BY <1>2
    <3> HIDE DEF X, n
    <3> QED
      BY ONLY <3>1, FreeFacts DEF n
  <2>2. IsFree(g, c)
    BY DEF Mergable
  <2> HIDE DEF n
  <2> QED
    BY ONLY <2>1, <2>2 DEF Successor, FreeBlocks, IsFree, HasHdr
<1>4. /\ align = Aligned(g, b, c) /\ off = GC_remove_from_fl_at(align, b, i)
      /\ apart = GC_remove_from_fl(off, c) /\ join = GC_remove_header(p, c)
      /\ n = N(g, b) /\ m = N(off, c) /\ s = n + m
  OBVIOUS
<1> HIDE DEF c, align, off, apart, join, n, m, s
<1>5. Looks(g, align)
  BY ONLY <1>2, <1>3, <1>4, AlignedLooks
<1>6. /\ Good(align, heap) /\ Kept(g, align) /\ FreeBlocks(align) = FreeBlocks(g)
      /\ \A d \in DOMAIN g.hdr : N(align, d) = N(g, d) /\ FlIndex(align.hdr[d]) = FlIndex(g.hdr[d])
  BY ONLY <1>5, Good(g, heap), LooksGood
<1>7. b \in FreeBlocks(align) /\ i = FlIndex(align.hdr[b]) /\ n = N(align, b)
  BY <1>2, <1>4, <1>6
<1>8. Clear(off, heap, b, N(align, b)) /\ SameBlocks(align, off)
  BY ONLY <1>4, <1>6, <1>7, Taken
<1>9. off.hdr = align.hdr /\ Kept(align, off)
  BY ONLY <1>8 DEF SameBlocks
<1>10. Clear(off, heap, b, n) /\ c \in FreeBlocks(off)
  BY ONLY <1>3, <1>6, <1>7, <1>8, <1>9 DEF FreeBlocks, IsFree, HasHdr
<1>11. Adjacent(apart, heap, b, n, c, N(off, c)) /\ SameBlocks(off, apart)
  BY ONLY <1>3, <1>4, <1>10, NextOff
<1>12. apart.hdr = align.hdr /\ Kept(g, apart)
  BY ONLY <1>6, <1>9, <1>11, KeptOn DEF SameBlocks
<1>13. Adjacent(apart, heap, b, n, c, m)
  BY ONLY <1>4, <1>11
<1>14. Resized(apart, p, b, s)
  <2> DEFINE x == [apart.hdr[b] EXCEPT !.sz = @ + g.hdr[c].sz]
  <2>1. /\ Kept(apart, p) /\ p.fwd = apart.fwd /\ p.hblkfreelist = apart.hblkfreelist
        /\ p.index = apart.index
        /\ p.hdr = [apart.hdr EXCEPT ![b] = x]
    <3>1. "hdr" \in DOMAIN apart
      BY ONLY <1>13 DEF Adjacent, But, Typed, Fields
    <3> QED
      BY ONLY <3>1 DEF Kept
  <2>2. /\ n \in Nat \ {0} /\ m \in Nat \ {0} /\ b \in DOMAIN apart.hdr
        /\ apart.hdr[b].sz = n * HBLKSIZE /\ apart.hdr[c].sz = m * HBLKSIZE
        /\ IsHeader(apart.hdr[b])
    BY ONLY <1>13 DEF Adjacent, But, Typed
  <2>3. g.hdr[c].sz = m * HBLKSIZE
    <3>1. align.hdr[c].sz = g.hdr[c].sz
      BY ONLY <1>3, <1>5 DEF Looks
    <3> QED
      BY ONLY <1>12, <2>2, <3>1
  <2>4. s \in Nat \ {0} /\ n * HBLKSIZE + m * HBLKSIZE = s * HBLKSIZE /\ s * HBLKSIZE \in Nat \ {0}
    <3>1. HBLKSIZE \in Nat \ {0} /\ n \in Nat /\ m \in Nat /\ s \in Nat \ {0} /\ s = n + m
      BY <1>4, <2>2, HeaderSizes
    <3>2. s * HBLKSIZE \in Nat \ {0}
      BY <3>1, Whole
    <3> QED
      BY ONLY <3>1, <3>2
  <2>5. IsHeader(x) /\ x.sz = s * HBLKSIZE
    BY ONLY <2>2, <2>3, <2>4 DEF IsHeader
  <2> HIDE DEF x, p
  <2> QED
    BY ONLY <2>1, <2>2, <2>4, <2>5, ResizedIs
<1> HIDE DEF p
<1>15. Clear(join, heap, b, s) /\ Kept(apart, join)
  BY ONLY <1>4, <1>13, <1>14, Joined
<1>16. Good(r, heap) /\ Kept(join, r)
  BY ONLY <1>1, <1>15, PutBack
<1>17. Kept(g, join)
  BY ONLY <1>12, <1>15, KeptOn
<1> QED
  BY ONLY <1>16, <1>17, KeptOn

LEMMA MergedOnce ==
  ASSUME NEW g, NEW heap, Good(g, heap), NEW i \in 0..N_HBLK_FLS, NEW r, r = MergeOne(g, i)
  PROVE  Good(r, heap) /\ Kept(g, r)
<1> DEFINE list == g.hblkfreelist[i]
           at == {j \in DOMAIN list : Mergable(g, list[j])}
           b == list[Min(at)]
<1>1. r = IF at = {} THEN g ELSE Swallow(g, b, i)
  BY ONLY r = MergeOne(g, i), Zenon DEF MergeOne
<1>2. CASE at = {}
  BY <1>1, <1>2 DEF Kept
<1>3. CASE at # {}
  <2>1. Lists(list, FreeOf(g, {}, i)) /\ list \in Seq(Blocks)
    BY DEF Good, But, Listed, Typed
  <2>2. at \subseteq Nat
    BY <2>1
  <2>3. Min(at) \in at
    <3> HIDE DEF at
    <3>1. PICK x \in at : \A y \in at : x <= y
      BY <1>3, <2>2, HasLeast
    <3> QED
      BY <3>1 DEF Min
  <2>4. Mergable(g, b) /\ b \in ToSet(list)
    BY <2>3 DEF ToSet
  <2>5. r = Swallow(g, b, i)
    BY <1>1, <1>3
  <2> HIDE DEF b, list
  <2>6. b \in FreeBlocks(g) /\ i = FlIndex(g.hdr[b])
    BY ONLY <2>1, <2>4 DEF Lists, FreeOf
  <2> QED
    BY ONLY <2>4, <2>5, <2>6, Good(g, heap), Swallowed
<1> QED
  BY <1>2, <1>3

LEMMA MergedList ==
  ASSUME NEW g, NEW heap, Good(g, heap), NEW i \in 0..N_HBLK_FLS, NEW r, r = MergeList(g, i)
  PROVE  Good(r, heap) /\ Kept(g, r)
<1> DEFINE Step(x) == MergeOne(x, i)
           P(f, j) == f = [k \in 0..j |-> IF k = 0 THEN g ELSE Step(f[k - 1])]
           merged == CHOOSE f : P(f, NBLOCKS)
           T(x) == Good(x, heap) /\ Kept(g, x)
<1>1. r = merged[NBLOCKS]
  BY ONLY r = MergeList(g, i), Zenon DEF MergeList
<1>2. T(g)
  BY DEF Kept
<1>3. \A x : T(x) => T(Step(x))
  <2> SUFFICES ASSUME NEW x, T(x) PROVE T(Step(x))
    OBVIOUS
  <2> DEFINE q == Step(x)
  <2>1. Good(x, heap) /\ Kept(g, x) /\ q = MergeOne(x, i)
    OBVIOUS
  <2> HIDE DEF q
  <2>2. Good(q, heap) /\ Kept(x, q)
    BY ONLY <2>1, i \in 0..N_HBLK_FLS, MergedOnce
  <2>3. Kept(g, q)
    BY ONLY <2>1, <2>2, KeptOn
  <2> QED
    BY <2>2, <2>3 DEF q
<1>4. merged = CHOOSE f : P(f, NBLOCKS)
  OBVIOUS
<1>5. NBLOCKS \in Nat
  BY HeaderSizes
<1> HIDE DEF Step, T, merged
<1>6. \E f : P(f, NBLOCKS)
  <2> DEFINE S == {j \in Nat : \E f : P(f, j)}
  <2>1. 0 \in S
    <3> DEFINE f == [k \in 0..0 |-> g]
    <3>1. P(f, 0)
      OBVIOUS
    <3> QED
      BY <3>1
  <2>2. ASSUME NEW j \in S PROVE j + 1 \in S
    <3>1. PICK f : P(f, j)
      OBVIOUS
    <3>2. j \in Nat /\ \A k \in 0..j : f[k] = IF k = 0 THEN g ELSE Step(f[k - 1])
      BY <3>1
    <3> DEFINE q == [k \in 0..(j + 1) |-> IF k = 0 THEN g ELSE Step(f[k - 1])]
    <3>3. \A k \in 0..j : q[k] = f[k]
      BY <3>2
    <3>4. \A k \in 0..(j + 1) : k # 0 => k - 1 \in 0..j
      BY <3>2
    <3>5. q = [k \in 0..(j + 1) |-> IF k = 0 THEN g ELSE Step(f[k - 1])]
      OBVIOUS
    <3> HIDE DEF q
    <3>6. \A k \in 0..(j + 1) :
            (IF k = 0 THEN g ELSE Step(f[k - 1])) = (IF k = 0 THEN g ELSE Step(q[k - 1]))
      BY ONLY <3>3, <3>4
    <3>7. P(q, j + 1)
      BY ONLY <3>5, <3>6
    <3> HIDE DEF P
    <3>8. \E p : P(p, j + 1)
      BY <3>7
    <3> QED
      BY <3>2, <3>8
  <2> HIDE DEF P
  <2>3. S = Nat
    BY <2>1, <2>2, SetInduction
  <2> QED
    BY <1>5, <2>3
<1>7. P(merged, NBLOCKS)
  <2> HIDE DEF P
  <2> QED
    BY <1>4, <1>6
<1>8. /\ merged[0] = g
      /\ \A k \in 1..NBLOCKS : merged[k] = Step(merged[k - 1])
  BY ONLY <1>5, <1>7
<1> DEFINE S == {k \in Nat : k <= NBLOCKS => T(merged[k])}
<1>9. 0 \in S
  BY <1>2, <1>8
<1>10. ASSUME NEW k \in S PROVE k + 1 \in S
  <2> SUFFICES ASSUME k + 1 <= NBLOCKS PROVE T(merged[k + 1])
    OBVIOUS
  <2>1. k + 1 \in 1..NBLOCKS /\ (k + 1) - 1 = k /\ T(merged[k])
    BY <1>5
  <2> QED
    BY <1>3, <1>8, <2>1
<1>11. S = Nat
  BY <1>9, <1>10, SetInduction
<1>12. T(merged[NBLOCKS])
  BY <1>5, <1>11
<1> QED
  BY <1>1, <1>12 DEF T

LEMMA MergedUnmapped ==
  ASSUME NEW g, NEW heap, Good(g, heap), NEW r, r = GC_merge_unmapped(g)
  PROVE  Good(r, heap) /\ Kept(g, r)
<1> DEFINE last == N_HBLK_FLS + 1
           Step(x, k) == MergeList(x, k - 1)
           P(f, j) == f = [k \in 0..j |-> IF k = 0 THEN g ELSE Step(f[k - 1], k)]
           merged == CHOOSE f : P(f, last)
           T(x) == Good(x, heap) /\ Kept(g, x)
<1>1. r = merged[last]
  BY ONLY r = GC_merge_unmapped(g), Zenon DEF GC_merge_unmapped
<1>2. T(g)
  BY DEF Kept
<1>3. N_HBLK_FLS \in Nat /\ last \in Nat
  BY FlRange
<1>4. \A k \in 1..last : \A x : T(x) => T(Step(x, k))
  <2> SUFFICES ASSUME NEW k \in 1..last, NEW x, T(x) PROVE T(Step(x, k))
    OBVIOUS
  <2> DEFINE q == Step(x, k)
             i == k - 1
  <2>1. Good(x, heap) /\ Kept(g, x) /\ q = MergeList(x, i) /\ i \in 0..N_HBLK_FLS
    BY <1>3
  <2> HIDE DEF q, i
  <2>2. Good(q, heap) /\ Kept(x, q)
    BY ONLY <2>1, MergedList
  <2>3. Kept(g, q)
    BY ONLY <2>1, <2>2, KeptOn
  <2> QED
    BY <2>2, <2>3 DEF q
<1>5. merged = CHOOSE f : P(f, last)
  OBVIOUS
<1> HIDE DEF Step, T, merged, last
<1>6. \E f : P(f, last)
  <2> DEFINE S == {j \in Nat : \E f : P(f, j)}
  <2>1. 0 \in S
    <3> DEFINE f == [k \in 0..0 |-> g]
    <3>1. P(f, 0)
      OBVIOUS
    <3> QED
      BY <3>1
  <2>2. ASSUME NEW j \in S PROVE j + 1 \in S
    <3>1. PICK f : P(f, j)
      OBVIOUS
    <3>2. j \in Nat /\ \A k \in 0..j : f[k] = IF k = 0 THEN g ELSE Step(f[k - 1], k)
      BY <3>1
    <3> DEFINE q == [k \in 0..(j + 1) |-> IF k = 0 THEN g ELSE Step(f[k - 1], k)]
    <3>3. \A k \in 0..j : q[k] = f[k]
      BY <3>2
    <3>4. \A k \in 0..(j + 1) : k # 0 => k - 1 \in 0..j
      BY <3>2
    <3>5. q = [k \in 0..(j + 1) |-> IF k = 0 THEN g ELSE Step(f[k - 1], k)]
      OBVIOUS
    <3> HIDE DEF q
    <3>6. \A k \in 0..(j + 1) :
            (IF k = 0 THEN g ELSE Step(f[k - 1], k)) = (IF k = 0 THEN g ELSE Step(q[k - 1], k))
      BY ONLY <3>3, <3>4
    <3>7. P(q, j + 1)
      BY ONLY <3>5, <3>6
    <3> HIDE DEF P
    <3>8. \E p : P(p, j + 1)
      BY <3>7
    <3> QED
      BY <3>2, <3>8
  <2> HIDE DEF P
  <2>3. S = Nat
    BY <2>1, <2>2, SetInduction
  <2> QED
    BY <1>3, <2>3
<1>7. P(merged, last)
  <2> HIDE DEF P
  <2> QED
    BY <1>5, <1>6
<1>8. /\ merged[0] = g
      /\ \A k \in 1..last : merged[k] = Step(merged[k - 1], k)
  BY ONLY <1>3, <1>7
<1> DEFINE S == {k \in Nat : k <= last => T(merged[k])}
<1>9. 0 \in S
  BY <1>2, <1>8
<1>10. ASSUME NEW k \in S PROVE k + 1 \in S
  <2> SUFFICES ASSUME k + 1 <= last PROVE T(merged[k + 1])
    OBVIOUS
  <2>1. k + 1 \in 1..last /\ (k + 1) - 1 = k /\ T(merged[k])
    BY <1>3
  <2>2. T(Step(merged[k], k + 1))
    BY <1>4, <2>1
  <2> QED
    BY <1>8, <2>1, <2>2
<1>11. S = Nat
  BY <1>9, <1>10, SetInduction
<1>12. T(merged[last])
  BY <1>3, <1>11
<1> QED
  BY <1>1, <1>12 DEF T

LEMMA OldUnmapped ==
  ASSUME NEW g, NEW heap, Good(g, heap), NEW r, r = GC_unmap_old(g)
  PROVE  Good(r, heap) /\ Kept(g, r)
<1>1. Typed(g)
  BY DEF Good, But
<1>2. PICK old : r = g \/ r = [g EXCEPT
                !.hdr = [b \in DOMAIN g.hdr |->
                           IF b \in old
                           THEN [g.hdr[b] EXCEPT !.flags = @ \cup {"WAS_UNMAPPED"}]
                           ELSE g.hdr[b]],
                !.unmapped_bytes = @ + SumFunctionOnSet(Sizes(g), old)]
  <2> DEFINE old == {b \in DOMAIN g.hdr :
                /\ IsFree(g, b) /\ IS_MAPPED(g.hdr[b])
                /\ \E i \in 0..N_HBLK_FLS : \E j \in DOMAIN g.hblkfreelist[i] :
                     g.hblkfreelist[i][j] = b
                /\ Age(g, b) > g.unmap_threshold}
             q(o) == [g EXCEPT
                !.hdr = [b \in DOMAIN g.hdr |->
                           IF b \in o
                           THEN [g.hdr[b] EXCEPT !.flags = @ \cup {"WAS_UNMAPPED"}]
                           ELSE g.hdr[b]],
                !.unmapped_bytes = @ + SumFunctionOnSet(Sizes(g), o)]
  <2>1. r = IF g.unmap_threshold = 0 THEN g ELSE q(old)
    BY ONLY r = GC_unmap_old(g), Zenon DEF GC_unmap_old
  <2> HIDE DEF q, old
  <2>2. r = g \/ r = q(old)
    BY <2>1
  <2>3. \E o : r = g \/ r = q(o)
    BY <2>2
  <2> QED
    BY ONLY <2>3, Zenon DEF q
<1>3. CASE r = g
  BY <1>3 DEF Kept
<1>4. CASE r # g
  <2> DEFINE H == [b \in DOMAIN g.hdr |->
                     IF b \in old THEN [g.hdr[b] EXCEPT !.flags = @ \cup {"WAS_UNMAPPED"}]
                     ELSE g.hdr[b]]
  <2>1. r.hdr = H /\ Kept(g, r) /\ r.fwd = g.fwd /\ r.hblkfreelist = g.hblkfreelist /\ r.index = g.index
    BY <1>1, <1>2, <1>4 DEF Typed, Fields, Kept
  <2>2. \A b \in DOMAIN g.hdr : {"sz", "flags"} \subseteq DOMAIN g.hdr[b]
    BY <1>1 DEF Typed, IsHeader
  <2>3. \A b \in DOMAIN g.hdr :
           /\ {"sz", "flags"} \subseteq DOMAIN H[b] /\ H[b].sz = g.hdr[b].sz
           /\ "FREE_BLK" \in H[b].flags <=> "FREE_BLK" \in g.hdr[b].flags
    BY ONLY <2>2
  <2>4. DOMAIN H = DOMAIN g.hdr
    OBVIOUS
  <2> HIDE DEF H
  <2>5. Looks(g, r)
    BY ONLY <2>1, <2>3, <2>4 DEF Looks
  <2> QED
    BY ONLY <2>5, Good(g, heap), LooksGood
<1> QED
  BY <1>3, <1>4

-----------------------------------------------------------------------------
\* Growing.  The system has not handed out the memory it will hand out next.
Fresh(g) ==
  /\ g.gap \in Nat /\ g.got \in Nat
  /\ \A b \in UNION g.heap_sects : IF g.downwards THEN g.got <= b ELSE b <= g.got

Settled(g) == Good(g, UNION g.heap_sects) /\ Fresh(g) /\ Lone(g, NULL)

LEMMA KeptSettled ==
  ASSUME NEW g, Settled(g), NEW r, Good(r, UNION g.heap_sects), Kept(g, r), Stays(g, r)
  PROVE  Settled(r)
BY DEF Settled, Kept, Fresh, Stays

\* The n blocks from p on are not blocks of the heap yet.
Offered(g, p, n, new) ==
  /\ p \in Nat /\ n \in Nat \ {0} /\ new = p..(p + n - 1)
  /\ new \subseteq Blocks /\ new \cap UNION g.heap_sects = {}

Grew(g, r, new) ==
  /\ Good(r, UNION r.heap_sects) /\ Stays(g, r) /\ r.heap_sects = g.heap_sects \cup {new}
  /\ r.downwards = g.downwards /\ r.gap = g.gap /\ r.got = g.got

LEMMA Grown ==
  ASSUME NEW g, Good(g, UNION g.heap_sects), NEW p, NEW n, NEW new, Offered(g, p, n, new), NEW r, r = GC_add_to_heap(g, p, n)
  PROVE  Grew(g, r, new)
<1> DEFINE heap == UNION g.heap_sects
           X == {}
           bytes == n * HBLKSIZE
           x == FreeHeader(g, bytes)
           q == GC_install_header(g, p, x)
           f == GC_freehblk(q, p)
           all == heap \cup new
<1>0. /\ p \in Nat /\ n \in Nat \ {0} /\ new = p..(p + n - 1)
      /\ new \subseteq Blocks /\ new \cap heap = {}
  BY DEF Offered
<1>1. bytes \in Nat \ {0} /\ OBJ_SZ_TO_BLOCKS(bytes) = n
  BY <1>0, Whole
<1>2. IsHeader(x) /\ x.sz = bytes /\ x.flags = {}
  <2> HIDE DEF bytes
  <2> QED
    BY <1>1 DEF IsHeader, FreeHeader
<1>3. But(g, heap, X, X) /\ p \in new /\ new \in SUBSET Blocks
  BY <1>0 DEF Good
<1>4. q = GC_install_header(g, p, x) /\ f = GC_freehblk(q, p)
  OBVIOUS
<1> HIDE DEF X, x, q, bytes, f, heap
<1>5. But(g, all, X, X \cup new)
  BY ONLY <1>0, <1>3, NewHole
<1>6. But(q, all, X \cup {p}, X \cup new) /\ Added(g, q, p, x)
  <2>1. p \in X \cup new
    BY <1>3
  <2> HIDE DEF all
  <2> QED
    BY ONLY <1>2, <1>4, <1>5, <2>1, Installed
<1>7. X \cup {p} = {p} /\ X \cup new = p..(p + n - 1)
  BY <1>0 DEF X
<1>8. p \in DOMAIN q.hdr /\ q.hdr[p] = x /\ Kept(g, q)
  BY ONLY <1>6 DEF Added, Outside
<1>9. Held(q, all, p, n) /\ n = N(q, p)
  BY <1>0, <1>1, <1>2, <1>6, <1>7, <1>8 DEF Held, N
<1> HIDE DEF all
<1>10. Good(f, all) /\ Kept(q, f) /\ (Lone(q, p) => Lone(f, NULL))
  BY ONLY <1>4, <1>9, GivenBack
<1>11. Kept(g, f)
  BY ONLY <1>8, <1>10, KeptOn
<1>12. r = [f EXCEPT !.heap_sects = @ \cup {p..(p + n - 1)},
                     !.heapsize = @ + bytes,
                     !.collect_at_heapsize = @ + bytes,
                     !.least_ha = IF p * HBLKSIZE <= @ THEN p * HBLKSIZE ELSE @,
                     !.greatest_ha = Larger(@, (p + n) * HBLKSIZE)]
  BY ONLY r = GC_add_to_heap(g, p, n), Zenon DEF GC_add_to_heap, f, q, x, bytes
<1>13. "heap_sects" \in DOMAIN f
  BY ONLY <1>10 DEF Good, But, Typed, Fields
<1>14. /\ DOMAIN r = DOMAIN f /\ r.fwd = f.fwd /\ r.hblkfreelist = f.hblkfreelist
       /\ r.index = f.index /\ r.hdr = f.hdr
       /\ r.heap_sects = f.heap_sects \cup {p..(p + n - 1)}
       /\ r.downwards = f.downwards /\ r.gap = f.gap /\ r.got = f.got
       /\ r.USE_MUNMAP = f.USE_MUNMAP
  BY ONLY <1>12, <1>13
<1>15. But(f, all, X, X)
  BY ONLY <1>10 DEF Good, X
<1>16. But(r, all, X, X)
  BY ONLY <1>14, <1>15, Unrelated
<1>17. r.heap_sects = g.heap_sects \cup {new} /\ UNION r.heap_sects = all
  <2>1. r.heap_sects = g.heap_sects \cup {new}
    BY ONLY <1>0, <1>11, <1>14 DEF Kept
  <2> QED
    BY ONLY <2>1 DEF all, heap
<1>18. Good(r, all)
  BY ONLY <1>16 DEF Good, X
<1>19. ASSUME Lone(g, NULL) PROVE Lone(q, p)
  <2>1. /\ \A c \in DOMAIN q.hdr \ {p} : c \in DOMAIN g.hdr /\ q.hdr[c] = g.hdr[c]
        /\ q.USE_MUNMAP = g.USE_MUNMAP
    BY ONLY <1>6 DEF Added, Outside, Kept
  <2>2. \A c \in DOMAIN q.hdr : ~g.USE_MUNMAP => IS_MAPPED(q.hdr[c])
    <3>1. ~g.USE_MUNMAP => \A c \in DOMAIN g.hdr : IS_MAPPED(g.hdr[c])
      BY <1>19 DEF Lone
    <3> QED
      BY <1>2, <1>8, <2>1, <3>1 DEF IS_MAPPED
  <2>3. NULL \notin DOMAIN g.hdr
    BY <1>3, InRange DEF But, Typed
  <2>4. \A c \in FreeBut(q, p) : c \in FreeBut(g, NULL) /\ N(q, c) = N(g, c)
    BY ONLY <2>1, <2>3 DEF FreeBut, FreeBlocks, IsFree, HasHdr, N
  <2> QED
    BY ONLY <1>19, <2>1, <2>2, <2>4, FewerLone
<1>20. Stays(g, r)
  BY ONLY <1>10, <1>14, <1>19, LoneAlike DEF Stays
<1> QED
  BY <1>11, <1>14, <1>17, <1>18, <1>20 DEF Kept, Grew

LEMMA Expanded ==
  ASSUME NEW g, Settled(g), NEW blocks \in Nat, NEW r, r = GC_expand_hp_inner(g, blocks).h
  PROVE  Settled(r)
<1> DEFINE n     == Larger(blocks, MINHINCR)
           space == GET_MEM(g, n).result
           slop  == min_bytes_allocd(g) + 4 * MAXHINCR * HBLKSIZE
           mem   == GET_MEM(g, n).h
           wide  == Stretched(mem, space, n, slop)
           more  == GC_add_to_heap(wide, space, n)
           heap  == UNION g.heap_sects
           new   == space..(space + n - 1)
<1>1. \/ r = g
      \/ /\ space # NULL
         /\ r = [more EXCEPT !.collect_at_heapsize =
                   g.heapsize + n * HBLKSIZE + slop - 2 * MAXHINCR * HBLKSIZE]
  BY DEF GC_expand_hp_inner
<1>2. n \in Nat \ {0}
  BY Counts DEF Larger
<1>3. CASE space # NULL /\ r # g
  <2> HIDE DEF n, slop
  <2>1. g.gap \in Nat /\ g.got \in Nat /\ NBLOCKS \in Nat
        /\ \A b \in heap : IF g.downwards THEN g.got <= b ELSE b <= g.got
    BY HeaderSizes DEF Settled, Fresh
  <2> DEFINE first == IF g.downwards THEN g.got - g.gap - n ELSE g.got + g.gap + 1
             last  == first + n - 1
             got   == IF g.downwards THEN first ELSE last
  <2>2. space = first /\ first >= 1 /\ last <= NBLOCKS /\ mem = [g EXCEPT !.got = got]
    <3>1. GET_MEM(g, n) = IF first < 1 \/ last > NBLOCKS THEN [h |-> g, result |-> NULL]
                          ELSE [h |-> [g EXCEPT !.got = got], result |-> first]
      BY ONLY Zenon DEF GET_MEM
    <3>2. first \in Int /\ last \in Int
      BY <1>2, <2>1
    <3> HIDE DEF first, last, got
    <3> QED
      BY <1>3, <2>1, <3>1, <3>2
  <2>3. first \in Nat /\ last \in Nat /\ got \in Nat
    BY <1>2, <2>1, <2>2
  <2>4. new \subseteq Blocks /\ new \cap heap = {} /\ space \in Nat
        /\ \A b \in heap \cup new : IF g.downwards THEN got <= b ELSE b <= got
    <3>1. heap \subseteq Nat
      BY InRange DEF Settled, Good, But
    <3>2. \A b \in new : b \in Nat /\ first <= b /\ b <= last
      BY <1>2, <2>2, <2>3
    <3> HIDE DEF new, heap
    <3>3. \A b \in new : b \in Blocks
      BY <2>1, <2>2, <2>3, <3>2 DEF Blocks
    <3>4. CASE g.downwards
      <4>1. got = first /\ last = g.got - g.gap - 1 /\ first <= last
        BY <1>2, <2>1, <3>4
      <4> HIDE DEF first, last, got
      <4>2. \A b \in heap : g.got <= b /\ b \in Nat
        BY <2>1, <3>1, <3>4
      <4>3. \A b \in heap : last < b /\ got <= b
        BY ONLY <2>1, <2>3, <4>1, <4>2
      <4>4. new \cap heap = {}
        BY ONLY <2>3, <3>2, <4>2, <4>3
      <4> QED
        BY <2>2, <2>3, <3>2, <3>3, <3>4, <4>1, <4>3, <4>4
    <3>5. CASE ~g.downwards
      <4>1. got = last /\ first = g.got + g.gap + 1 /\ first <= last
        BY <1>2, <2>1, <3>5
      <4> HIDE DEF first, last, got
      <4>2. \A b \in heap : b <= g.got /\ b \in Nat
        BY <2>1, <3>1, <3>5
      <4>3. \A b \in heap : b < first /\ b <= got
        BY ONLY <2>1, <2>3, <4>1, <4>2
      <4>4. new \cap heap = {}
        BY ONLY <2>3, <3>2, <4>2, <4>3
      <4> QED
        BY <2>2, <2>3, <3>2, <3>3, <3>5, <4>1, <4>3, <4>4
    <3> QED
      BY <3>4, <3>5
  <2> HIDE DEF first, last, got
  <2>5. "got" \in DOMAIN g
    BY DEF Settled, Good, But, Typed, Fields
  <2>6. /\ DOMAIN wide = DOMAIN g /\ wide.fwd = g.fwd /\ wide.hblkfreelist = g.hblkfreelist
        /\ wide.index = g.index
        /\ wide.hdr = g.hdr /\ wide.heap_sects = g.heap_sects
        /\ wide.downwards = g.downwards /\ wide.gap = g.gap /\ wide.got = got
        /\ wide.USE_MUNMAP = g.USE_MUNMAP
    <3> DEFINE m == mem
    <3>1. /\ DOMAIN m = DOMAIN g /\ m.fwd = g.fwd /\ m.hblkfreelist = g.hblkfreelist /\ m.index = g.index
          /\ m.hdr = g.hdr /\ m.heap_sects = g.heap_sects
          /\ m.downwards = g.downwards /\ m.gap = g.gap /\ m.got = got
          /\ m.USE_MUNMAP = g.USE_MUNMAP
      BY <2>2, <2>5
    <3> HIDE DEF m, space
    <3>2. wide = Stretched(m, space, n, slop)
      BY DEF m
    <3> HIDE DEF wide
    <3>3. /\ DOMAIN wide = DOMAIN m /\ wide.fwd = m.fwd /\ wide.hblkfreelist = m.hblkfreelist
          /\ wide.index = m.index
          /\ wide.hdr = m.hdr /\ wide.heap_sects = m.heap_sects
          /\ wide.downwards = m.downwards /\ wide.gap = m.gap /\ wide.got = m.got
          /\ wide.USE_MUNMAP = m.USE_MUNMAP
      BY ONLY <3>2 DEF Stretched
    <3> QED
      BY ONLY <3>1, <3>3
  <2> DEFINE X == {}
  <2>7. But(g, heap, X, X)
    BY DEF Settled, Good
  <2>8. more = GC_add_to_heap(wide, space, n) /\ new = space..(space + n - 1)
    OBVIOUS
  <2>9. r = [more EXCEPT !.collect_at_heapsize =
               g.heapsize + n * HBLKSIZE + slop - 2 * MAXHINCR * HBLKSIZE]
    BY <1>1, <1>3
  <2> HIDE DEF X, wide, space, more, new
  <2>10. But(wide, heap, X, X)
    BY ONLY <2>6, <2>7, Unrelated
  <2>11. Good(wide, heap) /\ heap = UNION wide.heap_sects
    BY <2>6, <2>10 DEF Good, X
  <2>19. Offered(wide, space, n, new) /\ Good(wide, UNION wide.heap_sects)
    BY <1>2, <2>4, <2>8, <2>11 DEF Offered
  <2> HIDE DEF heap
  <2>12. /\ Good(more, UNION more.heap_sects) /\ more.heap_sects = wide.heap_sects \cup {new}
         /\ more.downwards = wide.downwards /\ more.gap = wide.gap /\ more.got = wide.got
         /\ Stays(wide, more)
    <3>1. more = GC_add_to_heap(wide, space, n)
      BY <2>8
    <3>2. Grew(wide, more, new)
      BY ONLY <3>1, <2>19, Grown
    <3> QED
      BY ONLY <3>2 DEF Grew
  <2>13. /\ DOMAIN r = DOMAIN more /\ r.fwd = more.fwd /\ r.hblkfreelist = more.hblkfreelist
         /\ r.index = more.index
         /\ r.hdr = more.hdr /\ r.heap_sects = more.heap_sects
         /\ r.downwards = more.downwards /\ r.gap = more.gap /\ r.got = more.got
         /\ r.USE_MUNMAP = more.USE_MUNMAP
    BY ONLY <2>9
  <2> DEFINE all == UNION more.heap_sects
  <2>14. But(more, all, X, X)
    BY <2>12 DEF Good, X
  <2>15. all = heap \cup new
    BY ONLY <2>11, <2>12
  <2> HIDE DEF all
  <2>16. But(r, all, X, X)
    BY ONLY <2>13, <2>14, Unrelated
  <2>17. Good(r, UNION r.heap_sects) /\ UNION r.heap_sects = heap \cup new
    BY <2>13, <2>15, <2>16 DEF Good, X, all
  <2>18. Fresh(r)
    BY ONLY <2>1, <2>3, <2>4, <2>6, <2>12, <2>13, <2>17 DEF Fresh
  <2>20. Lone(r, NULL)
    <3>1. Lone(g, NULL)
      BY DEF Settled
    <3>2. Lone(more, NULL)
      BY ONLY <2>6, <2>12, <3>1, LoneAlike DEF Stays
    <3> QED
      BY ONLY <2>13, <3>2, LoneAlike
  <2> QED
    BY ONLY <2>17, <2>18, <2>20 DEF Settled
<1> QED
  BY ONLY <1>1, <1>3, Settled(g)

-----------------------------------------------------------------------------
\* The steps.
IInv == caller \in Callers /\ Settled(h)

LEMMA StillSettled ==
  ASSUME NEW g, Settled(g), NEW r, Kept(g, r), r.hdr = g.hdr, r.fwd = g.fwd,
         r.hblkfreelist = g.hblkfreelist, r.index = g.index
  PROVE  Settled(r)
<1> DEFINE X == {}
           heap == UNION g.heap_sects
<1>1. But(g, heap, X, X) /\ DOMAIN r = DOMAIN g
  BY DEF Settled, Good, Kept
<1> HIDE DEF X, heap
<1>2. But(r, heap, X, X)
  BY ONLY <1>1, r.hdr = g.hdr, r.fwd = g.fwd, r.hblkfreelist = g.hblkfreelist, r.index = g.index, Unrelated
<1>3. Good(r, heap)
  BY ONLY <1>2 DEF Good, X
<1>4. Stays(g, r)
  BY ONLY r.hdr = g.hdr, Kept(g, r), StaysAlike DEF Kept
<1> QED
  BY ONLY <1>3, <1>4, Settled(g), Kept(g, r), KeptSettled DEF heap

LEMMA InitSettled == Init => IInv
<1> SUFFICES ASSUME Init PROVE IInv
  OBVIOUS
<1> DEFINE c == caller.configuration
<1>1. /\ caller \in Callers /\ h = StartUp(c)
      /\ c.gap \in Nat
      /\ c.got \in IF c.downwards THEN 0..(NBLOCKS + 1) ELSE 0..NBLOCKS
      /\ DOMAIN c = {"all_interior_pointers", "incremental", "find_leak", "dont_gc",
                     "use_entire_heap", "USE_MUNMAP", "unmap_threshold", "max_heapsize",
                     "downwards", "gap", "got"}
  BY CallersAre DEF Init
<1> DEFINE d3 == With(NoHeaders, Counters)
           d2 == With(InitialHblks, d3)
           d1 == With(InitialHeap, d2)
<1> HIDE DEF c
<1>2. /\ h.hdr = [b \in {} |-> NULL] /\ h.fwd = [b \in 0..NBLOCKS |-> 0] /\ h.index = {}
      /\ h.hblkfreelist = [i \in 0..N_HBLK_FLS |-> <<>>]
      /\ h.heap_sects = {}
      /\ h.gap = c.gap /\ h.got = c.got /\ h.downwards = c.downwards
      /\ Fields \subseteq DOMAIN h
  <2>1. h = With(c, d1)
    BY <1>1 DEF StartUp
  <2>2. /\ DOMAIN h = DOMAIN c \cup DOMAIN d1
        /\ \A x \in DOMAIN c : h[x] = c[x]
        /\ \A x \in DOMAIN d1 : x \notin DOMAIN c => h[x] = d1[x]
    <3> HIDE DEF d1
    <3> QED
      BY ONLY <2>1 DEF With
  <2>3. /\ DOMAIN d1 = DOMAIN InitialHeap \cup DOMAIN d2
        /\ \A x \in DOMAIN InitialHeap : d1[x] = InitialHeap[x]
        /\ \A x \in DOMAIN d2 : x \notin DOMAIN InitialHeap => d1[x] = d2[x]
    <3> HIDE DEF d2
    <3> QED
      BY ONLY DEF With, d1
  <2>4. /\ DOMAIN d2 = DOMAIN InitialHblks \cup DOMAIN d3
        /\ \A x \in DOMAIN InitialHblks : d2[x] = InitialHblks[x]
        /\ \A x \in DOMAIN d3 : x \notin DOMAIN InitialHblks => d2[x] = d3[x]
    <3> HIDE DEF d3
    <3> QED
      BY ONLY DEF With, d2
  <2>5. /\ DOMAIN d3 = DOMAIN NoHeaders \cup DOMAIN Counters
        /\ \A x \in DOMAIN NoHeaders : d3[x] = NoHeaders[x]
    BY ONLY DEF With, d3
  <2> HIDE DEF d1, d2, d3
  <2>6. /\ DOMAIN InitialHeap = {"heap_sects", "heapsize", "collect_at_heapsize",
            "requested_heapsize", "least_ha", "greatest_ha", "last_heap_addr"}
        /\ InitialHeap["heap_sects"] = {}
    BY ONLY DEF InitialHeap
  <2>7. /\ DOMAIN InitialHblks = {"hblkfreelist", "free_bytes", "large_free_bytes",
            "large_allocd_bytes", "max_large_allocd_bytes", "drop_count", "unmapped_bytes",
            "protected", "dirty", "grungy"}
        /\ InitialHblks["hblkfreelist"] = [i \in 0..N_HBLK_FLS |-> <<>>]
    BY ONLY DEF InitialHblks
  <2>8. /\ DOMAIN NoHeaders = {"hdr", "fwd", "index"}
        /\ NoHeaders["hdr"] = [b \in {} |-> NULL]
        /\ NoHeaders["fwd"] = [b \in 0..NBLOCKS |-> 0] /\ NoHeaders["index"] = {}
    BY ONLY DEF NoHeaders
  <2>9. h.gap = c.gap /\ h.got = c.got /\ h.downwards = c.downwards
    BY ONLY <1>1, <2>2
  <2>10. h.heap_sects = {}
    BY ONLY <1>1, <2>2, <2>3, <2>6
  <2>11. h.hblkfreelist = [i \in 0..N_HBLK_FLS |-> <<>>]
    <3>1. /\ "hblkfreelist" \in DOMAIN InitialHblks
          /\ "hblkfreelist" \notin DOMAIN InitialHeap \cup DOMAIN c
      BY ONLY <1>1, <2>6, <2>7
    <3> QED
      BY ONLY <2>2, <2>3, <2>4, <2>7, <3>1
  <2>12. h.hdr = [b \in {} |-> NULL] /\ h.fwd = [b \in 0..NBLOCKS |-> 0] /\ h.index = {}
    <3>1. /\ {"hdr", "fwd", "index"} \subseteq DOMAIN NoHeaders
          /\ \A x \in {"hdr", "fwd", "index"} :
               x \notin DOMAIN InitialHblks \cup DOMAIN InitialHeap \cup DOMAIN c
      BY ONLY <1>1, <2>6, <2>7, <2>8
    <3> QED
      BY ONLY <2>2, <2>3, <2>4, <2>5, <2>8, <3>1
  <2>13. Fields \subseteq DOMAIN h
    BY ONLY <1>1, <2>2, <2>3, <2>4, <2>5, <2>6, <2>7, <2>8 DEF Fields
  <2> QED
    BY ONLY <2>9, <2>10, <2>11, <2>12, <2>13
<1>3. NBLOCKS \in Nat
  BY HeaderSizes
<1>4. Fresh(h)
  BY <1>1, <1>2, <1>3 DEF Fresh
<1>5. Typed(h)
  BY <1>2, <1>3 DEF Typed, Indexed
<1>6. DOMAIN h.hdr = {} /\ FreeBlocks(h) = {} /\ UsedBlocks(h) = {} /\ UNION h.heap_sects = {}
  BY <1>2 DEF FreeBlocks, UsedBlocks
<1>7. Cut(h, {}, {}, {})
  BY <1>6 DEF Cut
<1>8. Listed(h, {})
  <2> SUFFICES ASSUME NEW i \in 0..N_HBLK_FLS PROVE Lists(h.hblkfreelist[i], FreeOf(h, {}, i))
    BY DEF Listed
  <2>1. h.hblkfreelist[i] = <<>> /\ FreeOf(h, {}, i) = {}
    BY <1>2, <1>6 DEF FreeOf
  <2> QED
    BY <2>1 DEF Lists, ToSet
<1>9. CountsOf(h, {}, {})
  BY <1>2, <1>6 DEF CountsOf
<1>10. Lone(h, NULL)
  BY <1>6 DEF Lone, FreeBut
<1> QED
  BY <1>1, <1>4, <1>5, <1>6, <1>7, <1>8, <1>9, <1>10 DEF IInv, Settled, Good, But

LEMMA AllocateSettled ==
  ASSUME IInv, NEW sz \in Nat \ {0}, NEW kind, NEW flags \in SUBSET {"IGNORE_OFF_PAGE"},
         Allocate(sz, kind, flags)
  PROVE  Settled(h')
<1> DEFINE heap == UNION h.heap_sects
           found == GC_allochblk(h, sz, kind, flags)
           q == found.h
           k == OBJ_SZ_TO_BLOCKS(sz)
<1>1. Asked(flags) /\ Good(h, heap) /\ Settled(h)
  BY DEF IInv, Settled, Asked
<1>2. found = GC_allochblk(h, sz, kind, flags) /\ (h' = q \/ h' = Counted(q, k))
  BY DEF Allocate
<1> HIDE DEF heap, found, k
<1>3. Kept(h, q) /\ Stays(h, q) /\ Answer(found, heap, sz)
  BY ONLY <1>1, <1>2, sz \in Nat \ {0}, Allocated
<1>4. Settled(q)
  BY ONLY <1>1, <1>3, KeptSettled DEF Answer, heap
<1> HIDE DEF q
<1>5. h' = Counted(q, k) => /\ Kept(q, h') /\ h'.hdr = q.hdr /\ h'.fwd = q.fwd
                            /\ h'.hblkfreelist = q.hblkfreelist /\ h'.index = q.index
  BY DEF Counted, Kept
<1> QED
  BY <1>2, <1>4, <1>5, StillSettled

LEMMA FreeSettled ==
  ASSUME IInv, NEW b, Free(b)
  PROVE  Settled(h')
<1> DEFINE k == OBJ_SZ_TO_BLOCKS(h.hdr[b].sz)
           q == Uncounted(h, k)
           heap == UNION q.heap_sects
<1>1. /\ Kept(h, q) /\ q.hdr = h.hdr /\ q.fwd = h.fwd /\ q.hblkfreelist = h.hblkfreelist
      /\ q.index = h.index
      /\ Settled(h) /\ h' = GC_freehblk(q, b) /\ IsUsed(h, b)
  BY DEF Uncounted, Kept, IInv, Free
<1> HIDE DEF q, k
<1>2. Settled(q)
  BY ONLY <1>1, StillSettled
<1>3. Good(q, heap) /\ b \in UsedBlocks(q)
  BY ONLY <1>1, <1>2 DEF Settled, UsedBlocks, IsUsed, HasHdr
<1> DEFINE n == N(q, b)
           r == h'
<1>4. Held(q, heap, b, n)
  <2> HIDE DEF heap
  <2> QED
    BY ONLY <1>3, UsedHeld
<1>5. n = N(q, b) /\ r = GC_freehblk(q, b)
  BY <1>1
<1> HIDE DEF heap, n, r
<1>6. Good(r, heap) /\ Kept(q, r) /\ (Lone(q, b) => Lone(r, NULL))
  BY ONLY <1>4, <1>5, GivenBack
<1>7. Stays(q, r)
  <2>1. Typed(q)
    BY ONLY <1>3 DEF Good, But
  <2> QED
    BY ONLY <1>6, <2>1, LoneLess DEF Stays
<1>8. Settled(r)
  BY ONLY <1>2, <1>6, <1>7, KeptSettled DEF heap
<1> QED
  BY <1>8 DEF r

LEMMA NextSettled == IInv /\ [Next]_vars => IInv'
<1> SUFFICES ASSUME IInv, [Next]_vars PROVE IInv'
  OBVIOUS
<1>1. caller' \in Callers
  BY DEF IInv, Next, vars
<1>2. ASSUME NEW sz \in caller.sizes, NEW kind \in caller.kinds,
             NEW flags \in SUBSET {"IGNORE_OFF_PAGE"}, Allocate(sz, kind, flags)
      PROVE  Settled(h')
  <2>1. sz \in Nat \ {0}
    BY CallersAre DEF IInv
  <2> QED
    BY <1>2, <2>1, AllocateSettled
<1>3. ASSUME NEW b \in Blocks, Free(b) PROVE Settled(h')
  BY <1>3, FreeSettled
<1>4. ASSUME NEW n \in Blocks, Expand(n) PROVE Settled(h')
  <2> DEFINE r == h'
  <2>1. Settled(h) /\ n \in Nat /\ r = GC_expand_hp_inner(h, n).h
    BY <1>4, InRange DEF IInv, Expand
  <2> HIDE DEF r
  <2>2. Settled(r)
    BY ONLY <2>1, Expanded
  <2> QED
    BY <2>2 DEF r
<1>5. ASSUME Merge PROVE Settled(h')
  <2> DEFINE r == h'
             heap == UNION h.heap_sects
  <2>1. Settled(h) /\ Good(h, heap) /\ r = GC_merge_unmapped(h) /\ h.USE_MUNMAP
    BY <1>5 DEF IInv, Merge, Settled
  <2> HIDE DEF r, heap
  <2>2. Good(r, heap) /\ Kept(h, r)
    BY ONLY <2>1, MergedUnmapped
  <2>3. Stays(h, r)
    BY ONLY <2>1, <2>2 DEF Kept, Stays, Lone
  <2>4. Settled(r)
    BY ONLY <2>1, <2>2, <2>3, KeptSettled DEF heap
  <2> QED
    BY <2>4 DEF r
<1>6. ASSUME UnmapOld PROVE Settled(h')
  <2> DEFINE r == h'
             heap == UNION h.heap_sects
  <2>1. Settled(h) /\ Good(h, heap) /\ r = GC_unmap_old(h) /\ h.USE_MUNMAP
    BY <1>6 DEF IInv, UnmapOld, Settled
  <2> HIDE DEF r, heap
  <2>2. Good(r, heap) /\ Kept(h, r)
    BY ONLY <2>1, OldUnmapped
  <2>3. Stays(h, r)
    BY ONLY <2>1, <2>2 DEF Kept, Stays, Lone
  <2>4. Settled(r)
    BY ONLY <2>1, <2>2, <2>3, KeptSettled DEF heap
  <2> QED
    BY <2>4 DEF r
<1>7. ASSUME \/ Promote \/ CountCollection \/ Reset
             \/ \E b \in caller.false_pointers : Mislead(b)
             \/ \E n \in caller.sizes : Use(n)
             \/ UNCHANGED vars
      PROVE  Settled(h')
  <2> DEFINE Same == /\ Kept(h, h') /\ h'.hdr = h.hdr /\ h'.fwd = h.fwd
                     /\ h'.hblkfreelist = h.hblkfreelist /\ h'.index = h.index
  <2>1. Promote => Same
    BY DEF Promote, GC_promote_black_lists, Kept
  <2>2. CountCollection => Same
    BY DEF CountCollection, Kept
  <2>3. Reset => Same
    BY DEF Reset, Kept
  <2>4. ASSUME NEW b, Mislead(b) PROVE Same
    <3>1. h' = GC_add_to_black_list_normal(h, b) => Same
      BY DEF GC_add_to_black_list_normal, Kept
    <3>2. h' = GC_add_to_black_list_stack(h, b) => Same
      BY DEF GC_add_to_black_list_stack, Kept
    <3> QED
      BY <2>4, <3>1, <3>2 DEF Mislead
  <2>5. ASSUME NEW n, Use(n) PROVE Same
    BY <2>5 DEF Use, Kept
  <2>6. UNCHANGED vars => Same
    BY DEF vars, Kept
  <2> HIDE DEF Same
  <2>7. Same
    BY ONLY <1>7, <2>1, <2>2, <2>3, <2>4, <2>5, <2>6
  <2> QED
    BY <2>7, StillSettled DEF IInv, Same
<1>8. \/ \E sz \in caller.sizes, kind \in caller.kinds, flags \in SUBSET {"IGNORE_OFF_PAGE"} :
           Allocate(sz, kind, flags)
      \/ \E b \in Blocks : Free(b)
      \/ \E n \in Blocks : Expand(n)
      \/ Merge \/ UnmapOld
      \/ Promote \/ CountCollection \/ Reset
      \/ \E b \in caller.false_pointers : Mislead(b)
      \/ \E n \in caller.sizes : Use(n)
      \/ UNCHANGED vars
  BY ONLY [Next]_vars DEF Next
<1>9. Settled(h')
  BY ONLY <1>2, <1>3, <1>4, <1>5, <1>6, <1>7, <1>8
<1> QED
  BY <1>1, <1>9 DEF IInv

-----------------------------------------------------------------------------
LEMMA TilesGood ==
  ASSUME NEW g, Good(g, UNION g.heap_sects)
  PROVE  BlocksTileHeap(g)
<1> DEFINE heap == UNION g.heap_sects
<1>1. /\ \A c \in heap : \E b \in DOMAIN g.hdr : c \in Extent(g, b)
      /\ \A b \in DOMAIN g.hdr : Extent(g, b) \subseteq heap
      /\ \A b, c \in DOMAIN g.hdr : b # c => Extent(g, b) \cap Extent(g, c) = {}
      /\ \A b \in FreeBlocks(g) : g.hdr[b].sz % HBLKSIZE = 0
      /\ \A i \in 0..N_HBLK_FLS : Lists(g.hblkfreelist[i], FreeOf(g, {}, i))
  BY DEF Good, But, Cut, Listed
<1>2. UNION {Extent(g, b) : b \in DOMAIN g.hdr} = heap
  <2> HIDE DEF heap
  <2> QED
    BY ONLY <1>1
<1>3. ASSUME NEW i \in 0..N_HBLK_FLS, NEW list, list = g.hblkfreelist[i]
      PROVE  /\ {list[j] : j \in DOMAIN list} = {b \in FreeBlocks(g) : FlIndex(g.hdr[b]) = i}
             /\ \A j, k \in DOMAIN list : list[j] = list[k] => j = k
  <2>1. Lists(list, FreeOf(g, {}, i))
    BY <1>1, <1>3
  <2> QED
    BY ONLY <2>1 DEF Lists, FreeOf, ToSet
<1> QED
  BY <1>1, <1>2, <1>3 DEF BlocksTileHeap

\* Whatever the order of the calls, every block of the heap belongs to one
\* header and every free one stands once, on the list for its size: cutting,
\* splitting, dropping black-listed blocks, freeing with both neighbours,
\* merging, unmapping and growing keep it so (allchblk.c).
THEOREM TilesHeap == Spec => []Tiled
<1>1. IInv => Tiled
  BY TilesGood DEF IInv, Settled, Tiled
<1> QED
  BY <1>1, InitSettled, NextSettled, PTL DEF Spec

LEMMA MergedGood ==
  ASSUME NEW g, Good(g, UNION g.heap_sects), Lone(g, NULL)
  PROVE  FreeBlocksAreMerged(g)
<1> DEFINE X == {}
<1>1. But(g, UNION g.heap_sects, X, X)
  BY DEF Good
<1>2. NULL \notin FreeBlocks(g)
  BY <1>1, InRange DEF But, Typed, FreeBlocks
<1>3. ASSUME NEW b \in FreeBlocks(g) PROVE Successor(g, b) = b + N(g, b)
  <2>1. b \in FreeBlocks(g) \ X
    OBVIOUS
  <2> HIDE DEF X
  <2>2. g.hdr[b].sz \div HBLKSIZE = N(g, b)
    BY ONLY <1>1, <2>1, FreeFacts
  <2> QED
    BY ONLY <2>2 DEF Successor
<1> QED
  BY <1>2, <1>3 DEF Lone, FreeBut, FreeBlocksAreMerged

\* Whatever the order of the calls, no two free blocks lie side by side in a heap
\* whose blocks are never unmapped: what is freed, and what the heap grows by, is
\* merged with the free block behind it and the one before it, and what is cut
\* off a block lies beside the part put to use (GC_freehblk).
THEOREM MergesBlocks == Spec => []Merged
<1>1. IInv => Merged
  BY MergedGood DEF IInv, Settled, Merged
<1> QED
  BY <1>1, InitSettled, NextSettled, PTL DEF Spec

-----------------------------------------------------------------------------
\* The least and the greatest.
LEMMA MinIs ==
  ASSUME NEW S \in SUBSET Nat, S # {}
  PROVE  /\ Min(S) \in S /\ Min(S) \in Nat /\ \A m \in S : Min(S) <= m
         /\ \A x \in S : (\A m \in S : x <= m) => Min(S) = x
<1>1. \E x \in S : \A m \in S : x <= m
  BY HasLeast
<1>2. Min(S) \in S /\ \A m \in S : Min(S) <= m
  BY <1>1, Zenon DEF Min
<1> DEFINE y == Min(S)
<1>3. y \in S /\ \A m \in S : y <= m
  BY <1>2
<1> HIDE DEF y
<1>4. \A x \in S : (\A m \in S : x <= m) => y = x
  BY <1>3
<1> QED
  BY <1>3, <1>4 DEF y

LEMMA MaxIs ==
  ASSUME NEW n \in Nat, NEW S \in SUBSET (0..n), S # {}
  PROVE  /\ Max(S) \in S /\ Max(S) \in Nat /\ \A m \in S : m <= Max(S)
         /\ \A x \in S : (\A m \in S : m <= x) => Max(S) = x
<1>1. \E x \in S : \A m \in S : x >= m
  BY Greatest
<1>2. Max(S) \in S /\ \A m \in S : Max(S) >= m
  BY <1>1, Zenon DEF Max
<1> DEFINE y == Max(S)
<1>3. y \in S /\ \A m \in S : y >= m
  BY <1>2
<1> HIDE DEF y
<1>4. y \in S /\ y \in Nat /\ \A m \in S : m <= y
  BY <1>3
<1>5. \A x \in S : (\A m \in S : m <= x) => y = x
  BY <1>4
<1> QED
  BY <1>4, <1>5 DEF y

\* Upwards the walk passes blocks not in use, by the sizes of the free ones.
LEMMA Upward ==
  ASSUME NEW g, NEW heap, Good(g, heap), NEW p \in 0..NBLOCKS, ~IsUsed(g, p),
         NEW k, k = (IF IsFree(g, p) THEN g.hdr[p].sz \div HBLKSIZE ELSE 1),
         NEW q, q = Up(g, p, k)
  PROVE  q \in (p + 1)..(NBLOCKS + 1) /\ \A c \in UsedBlocks(g) : c > p => c >= q
<1> DEFINE s == Segment(p)
           above == {t \in g.index : t > s}
<1>1. But(g, heap, {}, {}) /\ Typed(g) /\ Cut(g, heap, {}, {}) /\ heap \subseteq Blocks
  BY DEF Good, But
<1>2. p \in Nat /\ NBLOCKS \in Nat /\ BOTTOM_SZ \in Nat \ {0}
  BY HeaderSizes
<1>3. UsedBlocks(g) \subseteq DOMAIN g.hdr /\ DOMAIN g.hdr \subseteq Blocks /\ DOMAIN g.hdr \subseteq Nat
  BY <1>1, InRange DEF UsedBlocks, Typed
<1>4. k \in Nat \ {0} /\ p + k <= NBLOCKS + 1 /\ \A c \in UsedBlocks(g) : c > p => c >= p + k
  <2>1. CASE IsFree(g, p)
    <3>1. p \in FreeBlocks(g) /\ p \in DOMAIN g.hdr /\ p \notin UsedBlocks(g)
      BY <1>1, <2>1 DEF FreeBlocks, IsFree, HasHdr, Typed, UsedBlocks
    <3>2. /\ k = N(g, p) /\ k \in Nat \ {0} /\ Extent(g, p) = p..(p + k - 1)
          /\ Extent(g, p) \subseteq Blocks
      BY <1>1, <2>1, <3>1, FreeFacts
    <3>3. p + k - 1 \in Blocks
      BY <1>2, <3>2
    <3>4. ASSUME NEW c \in UsedBlocks(g), c > p, c < p + k PROVE FALSE
      <4>1. c \in DOMAIN g.hdr /\ c \in Nat
        BY <1>3
      <4>2. c \in Extent(g, c)
        BY <1>1, <4>1, Extents
      <4>3. c \in Extent(g, p) /\ c # p
        BY <1>2, <3>2, <3>4, <4>1
      <4> QED
        BY <1>1, <3>1, <4>1, <4>2, <4>3 DEF Cut
    <3> QED
      BY <1>2, <1>3, <3>2, <3>3, <3>4 DEF Blocks
  <2>2. CASE ~IsFree(g, p)
    BY <1>2, <1>3, <2>2
  <2> QED
    BY <2>1, <2>2
<1>5. /\ g.index \subseteq 0..Segment(NBLOCKS)
      /\ \A c \in DOMAIN g.hdr : Segment(c) \in g.index
  BY <1>1 DEF Typed, Indexed
<1>6. /\ s \in Nat /\ p < (s + 1) * BOTTOM_SZ /\ (s + 1) * BOTTOM_SZ \in Nat
      /\ Segment(NBLOCKS) \in Nat /\ Segment(NBLOCKS) * BOTTOM_SZ <= NBLOCKS
  BY <1>2, InSegment
<1>7. q = IF s \in g.index /\ p + k < (s + 1) * BOTTOM_SZ THEN p + k
          ELSE IF above = {} THEN NBLOCKS + 1 ELSE Min(above) * BOTTOM_SZ
  BY DEF Up
<1>8. CASE s \in g.index /\ p + k < (s + 1) * BOTTOM_SZ
  BY <1>2, <1>4, <1>7, <1>8
<1>9. CASE ~(s \in g.index /\ p + k < (s + 1) * BOTTOM_SZ)
  <2>1. ASSUME NEW c \in UsedBlocks(g), c > p PROVE Segment(c) \in above
    <3> DEFINE t == Segment(c)
    <3>1. c \in Nat /\ c >= p + k /\ t \in g.index
      BY <1>3, <1>4, <1>5, <2>1
    <3>2. s <= t /\ t \in Nat /\ c < (t + 1) * BOTTOM_SZ
      BY <1>2, <2>1, <3>1, InSegment, Ordered
    <3> HIDE DEF s, t
    <3>3. t # s
      BY <1>2, <1>4, <1>6, <1>9, <3>1, <3>2
    <3> QED
      BY <1>6, <3>1, <3>2, <3>3 DEF t
  <2>2. CASE above = {}
    <3>1. q = NBLOCKS + 1
      BY <1>7, <1>9, <2>2
    <3> HIDE DEF above, s
    <3> QED
      BY <1>2, <2>1, <2>2, <3>1
  <2>3. CASE above # {}
    <3> DEFINE m == Min(above)
    <3>1. m \in above /\ m \in Nat /\ \A t \in above : m <= t
      <4>1. above \in SUBSET Nat
        BY <1>5, <1>6
      <4> HIDE DEF above
      <4> QED
        BY <2>3, <4>1, MinIs
    <3>2. m > s /\ m \in 0..Segment(NBLOCKS)
      BY <1>5, <3>1
    <3>3. q = m * BOTTOM_SZ
      BY <1>7, <1>9, <2>3
    <3> DEFINE z == Segment(NBLOCKS)
    <3>4. z \in Nat /\ m <= z /\ z * BOTTOM_SZ <= NBLOCKS
      BY <1>6, <3>2
    <3> HIDE DEF m, z
    <3>5. m * BOTTOM_SZ <= z * BOTTOM_SZ /\ z * BOTTOM_SZ \in Nat
      BY <1>2, <3>1, <3>4, Multiples
    <3>6. (s + 1) * BOTTOM_SZ <= m * BOTTOM_SZ /\ m * BOTTOM_SZ \in Nat
      <4> HIDE DEF s
      <4>1. s + 1 \in Nat /\ s + 1 <= m
        BY <1>6, <3>1, <3>2
      <4> QED
        BY <1>2, <3>1, <4>1, Multiples
    <3>7. q \in (p + 1)..(NBLOCKS + 1)
      <4> HIDE DEF s, above
      <4> QED
        BY <1>2, <1>6, <3>3, <3>4, <3>5, <3>6
    <3>8. ASSUME NEW c \in UsedBlocks(g), c > p PROVE c >= q
      <4> DEFINE t == Segment(c)
      <4>1. m <= t /\ c \in Nat
        BY <1>3, <2>1, <3>1, <3>8
      <4>2. t \in Nat /\ t * BOTTOM_SZ <= c
        BY <4>1, InSegment
      <4> HIDE DEF t, above, s
      <4>3. m * BOTTOM_SZ <= t * BOTTOM_SZ /\ t * BOTTOM_SZ \in Nat
        BY <1>2, <3>1, <4>1, <4>2, Multiples
      <4> QED
        BY <3>3, <3>6, <4>1, <4>2, <4>3
    <3> QED
      BY <3>7, <3>8
  <2> QED
    BY <2>2, <2>3
<1> QED
  BY <1>8, <1>9

\* The walk upwards ends at the first block in use.
LEMMA NextIs ==
  ASSUME NEW g, NEW heap, Good(g, heap), NEW b \in 0..NBLOCKS, NEW q, q = GC_next_used_block(g, b)
  PROVE  \/ q \in UsedBlocks(g) /\ q >= b /\ \A c \in UsedBlocks(g) : c >= b => c >= q
         \/ q = NULL /\ \A c \in UsedBlocks(g) : ~(c >= b)
<1> DEFINE D == 0..(NBLOCKS + 1)
           Size(p) == IF IsFree(g, p) THEN g.hdr[p].sz \div HBLKSIZE ELSE 1
           step(next) == [p \in 0..(NBLOCKS + 1) |->
                            IF p > NBLOCKS THEN NULL
                            ELSE IF IsUsed(g, p) THEN p
                            ELSE next[Up(g, p, IF IsFree(g, p) THEN g.hdr[p].sz \div HBLKSIZE ELSE 1)]]
           stop == {p \in D : p > NBLOCKS \/ IsUsed(g, p)}
           out == [p \in D |-> IF p > NBLOCKS THEN NULL ELSE p]
           jump == [p \in D |-> Up(g, p, Size(p))]
           far == [p \in D |-> NBLOCKS + 1 - p]
           f == CHOOSE next : next = step(next)
           U == UsedBlocks(g)
           First(p, x) == \/ x \in U /\ x >= p /\ \A c \in U : c >= p => c >= x
                          \/ x = NULL /\ \A c \in U : ~(c >= p)
           G == [p \in D |-> {x \in D : First(p, x)}]
<1>0. /\ \A p \in D : jump[p] = Up(g, p, Size(p)) /\ far[p] = NBLOCKS + 1 - p
      /\ \A p \in D : out[p] = IF p > NBLOCKS THEN NULL ELSE p
      /\ \A p \in D : p \in stop <=> p > NBLOCKS \/ IsUsed(g, p)
      /\ \A p \in D : G[p] = {x \in D : First(p, x)}
      /\ stop \subseteq D
  OBVIOUS
<1>1. U \subseteq 1..NBLOCKS /\ NBLOCKS \in Nat /\ \A p \in D : IsUsed(g, p) <=> p \in U
  BY HeaderSizes DEF Good, But, Typed, Blocks, UsedBlocks, IsUsed, HasHdr
<1> HIDE DEF stop, jump, far, out, G, U
<1>2. ASSUME NEW p \in D \ stop
      PROVE  /\ jump[p] \in (p + 1)..(NBLOCKS + 1) /\ \A c \in U : c > p => c >= jump[p]
             /\ p \in 0..NBLOCKS /\ p \notin U
  <2>1. p \in 0..NBLOCKS /\ ~IsUsed(g, p) /\ p \notin U
    BY <1>0, <1>1
  <2> DEFINE k == Size(p)
             d == jump[p]
  <2>2. k = (IF IsFree(g, p) THEN g.hdr[p].sz \div HBLKSIZE ELSE 1) /\ d = Up(g, p, k)
    BY <1>0
  <2> HIDE DEF k, d
  <2>3. d \in (p + 1)..(NBLOCKS + 1) /\ \A c \in UsedBlocks(g) : c > p => c >= d
    BY ONLY <2>1, <2>2, Good(g, heap), Upward
  <2> QED
    BY <2>1, <2>3 DEF d, U
<1>3. ASSUME NEW p \in D \ stop PROVE jump[p] \in D /\ far[jump[p]] < far[p]
  <2> DEFINE d == jump[p]
  <2>1. p \in 0..NBLOCKS /\ d \in (p + 1)..(NBLOCKS + 1)
    BY <1>2
  <2> HIDE DEF d
  <2>2. d \in D /\ p \in D /\ NBLOCKS + 1 - d < NBLOCKS + 1 - p
    BY <1>1, <2>1
  <2>3. far[d] = NBLOCKS + 1 - d /\ far[p] = NBLOCKS + 1 - p
    BY <1>0, <2>2
  <2> QED
    BY <2>2, <2>3 DEF d
<1>4. \A p \in D : far[p] \in Nat
  BY <1>0, <1>1
<1>5. ASSUME NEW p \in D \cap stop PROVE out[p] \in G[p]
  <2>1. CASE p > NBLOCKS
    <3>1. out[p] = NULL /\ NULL \in D /\ \A c \in U : ~(c >= p)
      BY <1>0, <1>1, <2>1 DEF NULL
    <3> QED
      BY <1>0, <3>1
  <2>2. CASE ~(p > NBLOCKS)
    <3>1. out[p] = p /\ p \in U /\ p >= p
      BY <1>0, <1>1, <2>2
    <3> QED
      BY <1>0, <3>1
  <2> QED
    BY <2>1, <2>2
<1>6. ASSUME NEW p \in D \ stop PROVE G[jump[p]] \subseteq G[p]
  <2> SUFFICES ASSUME NEW x \in G[jump[p]] PROVE x \in G[p]
    OBVIOUS
  <2> DEFINE d == jump[p]
  <2>1. d \in D /\ d > p /\ p \in Nat /\ p \notin U /\ \A c \in U : c > p => c >= d
    BY <1>1, <1>2
  <2>2. x \in D /\ First(d, x)
    BY <1>0, <2>1
  <2> HIDE DEF d
  <2>3. \A c \in U : c >= p <=> c >= d
    BY <1>1, <2>1
  <2>4. First(p, x)
    BY ONLY <2>2, <2>3
  <2> QED
    BY <1>0, <2>2, <2>4
<1>7. \E next : Walk(D, stop, out, jump, next)
  <2> HIDE DEF D
  <2> QED
    BY ONLY <1>3, <1>4, JumpsExist
<1>8. \A next : next = step(next) <=> Walk(D, stop, out, jump, next)
  <2> SUFFICES ASSUME NEW next
               PROVE  step(next) = [p \in D |-> IF p \in stop THEN out[p] ELSE next[jump[p]]]
    BY DEF Walk
  <2> QED
    BY <1>0
<1>9. Walk(D, stop, out, jump, f)
  <2> HIDE DEF step, D
  <2>1. f = step(f)
    BY <1>7, <1>8
  <2> HIDE DEF f
  <2> QED
    BY ONLY <1>8, <2>1
<1>10. \A p \in D : f[p] \in G[p]
  <2> HIDE DEF D, f
  <2> QED
    BY ONLY <1>3, <1>4, <1>5, <1>6, <1>9, JumpsFind
<1>11. q = f[b]
  BY ONLY q = GC_next_used_block(g, b), Zenon DEF GC_next_used_block
<1> HIDE DEF f
<1>12. b \in D
  BY <1>1
<1>13. First(b, q)
  BY <1>0, <1>10, <1>11, <1>12
<1> QED
  BY <1>13 DEF U

-----------------------------------------------------------------------------
\* Visiting all blocks.
LEMMA JoinedLists ==
  ASSUME NEW E, NEW s \in Seq(E), NEW t \in Seq(E), NEW S, NEW T,
         Lists(s, S), Lists(t, T), S \cap T = {}
  PROVE  s \o t \in Seq(E) /\ Lists(s \o t, S \cup T)
<1> DEFINE q == s \o t
           m == Len(s)
           n == Len(t)
<1>1. m \in Nat /\ n \in Nat /\ DOMAIN s = 1..m /\ DOMAIN t = 1..n
  OBVIOUS
<1>2. q \in Seq(E) /\ Len(q) = m + n /\ DOMAIN q = 1..(m + n)
  OBVIOUS
<1>3. \A j \in 1..m : q[j] = s[j] /\ j \in 1..(m + n)
  OBVIOUS
<1>4. \A j \in 1..n : q[m + j] = t[j] /\ m + j \in 1..(m + n)
  OBVIOUS
<1> HIDE DEF q, m, n
<1>5. ASSUME NEW j \in 1..(m + n), j > m PROVE \E i \in 1..n : j = m + i /\ q[j] = t[i]
  <2>1. j - m \in 1..n /\ j = m + (j - m)
    BY <1>1, <1>5
  <2> DEFINE i == j - m
  <2>2. i \in 1..n /\ j = m + i
    BY <2>1
  <2> HIDE DEF i
  <2> QED
    BY <1>4, <2>2
<1>6. /\ \A j \in 1..m : s[j] \in S
      /\ \A x \in S : \E j \in 1..m : s[j] = x
      /\ \A j \in 1..n : t[j] \in T
      /\ \A x \in T : \E j \in 1..n : t[j] = x
  BY <1>1 DEF Lists, ToSet
<1>7. ToSet(q) = S \cup T
  <2>1. ASSUME NEW j \in DOMAIN q PROVE q[j] \in S \cup T
    <3>1. CASE j > m
      BY <1>2, <1>5, <1>6, <3>1
    <3>2. CASE ~(j > m)
      <4>1. j \in 1..m
        BY <1>1, <1>2, <3>2
      <4> QED
        BY <1>3, <1>6, <4>1
    <3> QED
      BY <3>1, <3>2
  <2>2. ASSUME NEW x \in S \cup T PROVE \E j \in DOMAIN q : q[j] = x
    <3>1. CASE x \in S
      BY <1>2, <1>3, <1>6, <3>1
    <3>2. CASE x \in T
      BY <1>2, <1>4, <1>6, <3>2
    <3> QED
      BY <3>1, <3>2
  <2> QED
    BY <2>1, <2>2 DEF ToSet
<1>8. ASSUME NEW j \in DOMAIN q, NEW k \in DOMAIN q, q[j] = q[k] PROVE j = k
  <2>0. j \in 1..(m + n) /\ k \in 1..(m + n)
    BY <1>2
  <2>1. \A i \in 1..(m + n) : i > m => q[i] \in T
    BY <1>5, <1>6
  <2>2. \A i \in 1..(m + n) : ~(i > m) => i \in 1..m /\ q[i] \in S
    <3>1. \A i \in 1..(m + n) : ~(i > m) => i \in 1..m
      BY <1>1
    <3> QED
      BY <1>3, <1>6, <3>1
  <2>3. CASE j > m /\ k > m
    <3>1. PICK a \in 1..n : j = m + a /\ q[j] = t[a]
      BY <1>5, <2>0, <2>3
    <3>2. PICK c \in 1..n : k = m + c /\ q[k] = t[c]
      BY <1>5, <2>0, <2>3
    <3>3. a = c
      BY <1>1, <1>8, <3>1, <3>2 DEF Lists
    <3> QED
      BY <3>1, <3>2, <3>3
  <2>4. CASE ~(j > m) /\ ~(k > m)
    <3>1. j \in 1..m /\ k \in 1..m
      BY <2>0, <2>2, <2>4
    <3> QED
      BY <1>1, <1>3, <1>8, <3>1 DEF Lists
  <2>5. CASE (j > m) # (k > m)
    BY <1>8, <2>0, <2>1, <2>2, <2>5
  <2> QED
    BY <2>3, <2>4, <2>5
<1> QED
  BY <1>2, <1>7, <1>8 DEF Lists, q

\* Those of one bottom index.
Within(g, s) ==
  LET walk[j \in (-MAX_JUMP - 1)..(BOTTOM_SZ - 1)] ==
        LET b == s * BOTTOM_SZ + j
        IN  IF j < 0 THEN <<>>
            ELSE IF b > NBLOCKS THEN walk[j - 1]
            ELSE IF HasHdr(g, b)
                 THEN (IF IsUsed(g, b) THEN <<b>> ELSE <<>>) \o walk[j - 1]
            ELSE walk[j - (IF g.fwd[b] = 0 THEN 1 ELSE g.fwd[b])]
  IN  walk[BOTTOM_SZ - 1]

LEMMA WithinIs ==
  ASSUME NEW g, NEW heap, Good(g, heap), NEW s \in Nat, NEW r, r = Within(g, s)
  PROVE  r \in Seq(Blocks) /\ Lists(r, {c \in UsedBlocks(g) : Segment(c) = s})
<1> DEFINE D == (-MAX_JUMP - 1)..(BOTTOM_SZ - 1)
           At(j) == s * BOTTOM_SZ + j
           step(walk) == [j \in (-MAX_JUMP - 1)..(BOTTOM_SZ - 1) |->
             LET b == s * BOTTOM_SZ + j
             IN  IF j < 0 THEN <<>>
                 ELSE IF b > NBLOCKS THEN walk[j - 1]
                 ELSE IF HasHdr(g, b)
                      THEN (IF IsUsed(g, b) THEN <<b>> ELSE <<>>) \o walk[j - 1]
                 ELSE walk[j - (IF g.fwd[b] = 0 THEN 1 ELSE g.fwd[b])]]
           stop == {j \in D : j < 0}
           out == [j \in D |-> <<>>]
           Met == {j \in D : ~(At(j) > NBLOCKS) /\ HasHdr(g, At(j))}
           pre == [j \in Met |-> IF IsUsed(g, At(j)) THEN <<At(j)>> ELSE <<>>]
           jump == [j \in D |-> IF At(j) > NBLOCKS \/ HasHdr(g, At(j)) THEN j - 1 ELSE j - Skip(g, At(j))]
           far == [j \in D |-> j + MAX_JUMP + 1]
           f == CHOOSE walk : walk = step(walk)
           U == UsedBlocks(g)
           Upto(j) == {c \in U : c >= s * BOTTOM_SZ /\ c <= At(j)}
           G == [j \in D |-> {x \in Seq(Blocks) : Lists(x, Upto(j))}]
<1>0. /\ \A j \in D : far[j] = j + MAX_JUMP + 1 /\ out[j] = <<>> /\ (j \in stop <=> j < 0)
      /\ \A j \in D : jump[j] = IF At(j) > NBLOCKS \/ HasHdr(g, At(j)) THEN j - 1
                                ELSE j - Skip(g, At(j))
      /\ DOMAIN pre = Met
      /\ \A j \in Met : pre[j] = IF IsUsed(g, At(j)) THEN <<At(j)>> ELSE <<>>
      /\ \A j \in D : j \in Met <=> ~(At(j) > NBLOCKS) /\ HasHdr(g, At(j))
      /\ \A j \in D : G[j] = {x \in Seq(Blocks) : Lists(x, Upto(j))}
      /\ stop \subseteq D /\ Met \subseteq D
  OBVIOUS
<1>1. /\ U \subseteq Blocks /\ U \subseteq Nat /\ NBLOCKS \in Nat /\ U \subseteq DOMAIN g.hdr
      /\ \A p : p \in U <=> IsUsed(g, p)
      /\ BOTTOM_SZ \in Nat \ {0} /\ MAX_JUMP \in Nat \ {0} /\ s * BOTTOM_SZ \in Nat
      /\ \A c \in U : c <= NBLOCKS
  BY HeaderSizes, InRange DEF Good, But, Typed, Blocks, UsedBlocks, IsUsed, HasHdr
<1> HIDE DEF stop, out, Met, pre, jump, far, G, U
<1>2. ASSUME NEW j \in D \ stop
      PROVE  /\ j \in 0..(BOTTOM_SZ - 1) /\ At(j) \in Nat
             /\ jump[j] \in D /\ jump[j] < j
             /\ \A c \in U : c < At(j) => c <= At(jump[j])
  <2>1. j \in 0..(BOTTOM_SZ - 1) /\ j \in D
    BY <1>0, <1>1
  <2> DEFINE p == At(j)
  <2>2. p \in Nat /\ p = s * BOTTOM_SZ + j
    BY <1>1, <2>1
  <2>3. CASE p > NBLOCKS \/ HasHdr(g, p)
    <3>1. jump[j] = j - 1
      BY <1>0, <2>1, <2>3
    <3>2. At(jump[j]) = p - 1 /\ j - 1 \in D /\ j - 1 < j
      BY <1>1, <2>1, <2>2, <3>1
    <3> HIDE DEF D, p, At
    <3> QED
      BY <1>1, <2>1, <2>2, <3>1, <3>2 DEF p
  <2>4. CASE ~(p > NBLOCKS \/ HasHdr(g, p))
    <3> DEFINE k == Skip(g, p)
    <3>1. jump[j] = j - k
      BY <1>0, <2>1, <2>4
    <3>2. k \in Nat \ {0} /\ k <= MAX_JUMP /\ \A c \in DOMAIN g.hdr : c < p => c <= p - k
      <4>1. p \in 0..NBLOCKS /\ p \notin DOMAIN g.hdr
        BY <1>1, <2>2, <2>4 DEF HasHdr
      <4>2. But(g, heap, {}, {}) /\ k = Skip(g, p)
        BY DEF Good
      <4> HIDE DEF k, p
      <4> QED
        BY <4>1, <4>2, Skipped
    <3> HIDE DEF k
    <3>3. At(jump[j]) = p - k /\ j - k \in D /\ j - k < j
      BY <1>1, <2>1, <2>2, <3>1, <3>2
    <3>4. \A c \in U : c < p => c <= p - k
      BY <1>1, <3>2
    <3> HIDE DEF D, p, At
    <3> QED
      BY <2>1, <2>2, <3>1, <3>3, <3>4 DEF p
  <2> QED
    BY <2>3, <2>4
<1>3. ASSUME NEW j \in D \ stop PROVE jump[j] \in D /\ far[jump[j]] < far[j]
  <2> DEFINE d == jump[j]
  <2>1. d \in D /\ d < j /\ j \in D /\ far[d] = d + MAX_JUMP + 1 /\ far[j] = j + MAX_JUMP + 1
    BY <1>0, <1>2
  <2> HIDE DEF d
  <2>2. d \in Int /\ j \in Int /\ MAX_JUMP \in Int
    BY <1>1, <2>1
  <2>3. far[d] < far[j]
    BY <2>1, <2>2
  <2> QED
    BY <2>1, <2>3 DEF d
<1>4. \A j \in D : far[j] \in Nat
  BY <1>0, <1>1
<1>5. ASSUME NEW j \in D \cap stop PROVE out[j] \in G[j]
  <2>1. out[j] = <<>> /\ j \in D /\ j < 0
    BY <1>0
  <2>2. Upto(j) = {}
    <3> SUFFICES ASSUME NEW c \in Upto(j) PROVE FALSE
      OBVIOUS
    <3>1. c \in Nat /\ c >= s * BOTTOM_SZ /\ c <= s * BOTTOM_SZ + j
      BY <1>1
    <3>2. j \in Int
      BY <1>1
    <3> QED
      BY ONLY <1>1, <2>1, <3>1, <3>2
  <2>3. Lists(<<>>, {}) /\ <<>> \in Seq(Blocks)
    BY DEF Lists, ToSet
  <2>4. G[j] = {x \in Seq(Blocks) : Lists(x, Upto(j))}
    BY <1>0, <2>1
  <2> QED
    BY ONLY <2>1, <2>2, <2>3, <2>4
<1>6. ASSUME NEW j \in D \ stop, NEW x \in G[jump[j]]
      PROVE  (IF j \in DOMAIN pre THEN pre[j] \o x ELSE x) \in G[j]
  <2> DEFINE d == jump[j]
             p == At(j)
  <2>0. p = s * BOTTOM_SZ + j
    OBVIOUS
  <2>1. /\ d \in D /\ d < j /\ j \in D /\ p \in Nat /\ p = s * BOTTOM_SZ + j /\ j \in Nat
        /\ \A c \in U : c < p => c <= At(d)
    <3>1. j \in Nat
      BY <1>1, <1>2
    <3> HIDE DEF D, At
    <3> QED
      BY <1>2, <2>0, <3>1
  <2> HIDE DEF d, p
  <2>7. G[j] = {y \in Seq(Blocks) : Lists(y, Upto(j))}
    BY <1>0, <2>1
  <2>2. x \in Seq(Blocks) /\ Lists(x, Upto(d))
    BY <1>0, <2>1 DEF d
  <2>3. Upto(j) = Upto(d) \cup (IF p \in U THEN {p} ELSE {}) /\ p \notin Upto(d)
    <3>1. At(d) < p /\ At(d) \in Int
      BY <1>1, <2>1
    <3>2. \A c \in U : c <= p <=> c <= At(d) \/ c = p
      BY <1>1, <2>1, <3>1
    <3>3. p >= s * BOTTOM_SZ /\ At(j) = p
      BY <1>1, <2>1
    <3>4. ~(p <= At(d))
      BY <2>1, <3>1
    <3> HIDE DEF At
    <3> QED
      BY ONLY <3>2, <3>3, <3>4
  <2>4. p \in U => p \in Blocks /\ j \in Met
    BY <1>0, <1>1, <2>1 DEF HasHdr, p
  <2>5. CASE p \in U
    <3>1. DOMAIN pre = Met /\ j \in Met /\ pre[j] = <<p>> /\ p \in Blocks
      BY <1>0, <1>1, <2>1, <2>4, <2>5 DEF p
    <3>2. <<p>> \o x \in Seq(Blocks) /\ Lists(<<p>> \o x, Upto(d) \cup {p})
      <4> HIDE DEF Upto
      <4> QED
        BY ONLY <2>2, <2>3, <3>1, LinkedLists
    <3>3. Upto(j) = Upto(d) \cup {p}
      BY <2>3, <2>5
    <3>4. (IF j \in DOMAIN pre THEN pre[j] \o x ELSE x) = <<p>> \o x
      BY <3>1
    <3> HIDE DEF Upto
    <3> QED
      BY ONLY <2>7, <3>2, <3>3, <3>4
  <2>6. CASE p \notin U
    <3>1. (IF j \in DOMAIN pre THEN pre[j] \o x ELSE x) = x
      <4>1. j \in Met => pre[j] = <<>>
        BY <1>0, <1>1, <2>1, <2>6 DEF p
      <4>2. <<>> \o x = x
        BY <2>2
      <4> QED
        BY <1>0, <4>1, <4>2
    <3>2. Upto(j) = Upto(d)
      BY <2>3, <2>6
    <3> HIDE DEF Upto
    <3> QED
      BY ONLY <2>2, <2>7, <3>1, <3>2
  <2> QED
    BY <2>5, <2>6
<1>7. \E walk : Gather(D, stop, out, jump, pre, walk)
  <2> HIDE DEF D
  <2> QED
    BY ONLY <1>3, <1>4, GatherExist
<1>8. \A walk : walk = step(walk) <=> Gather(D, stop, out, jump, pre, walk)
  <2> SUFFICES ASSUME NEW walk
               PROVE  step(walk) = [j \in D |-> IF j \in stop THEN out[j]
                                      ELSE IF j \in DOMAIN pre THEN pre[j] \o walk[jump[j]]
                                      ELSE walk[jump[j]]]
    BY DEF Gather
  <2> SUFFICES ASSUME NEW j \in D
               PROVE  step(walk)[j] = IF j \in stop THEN out[j]
                                      ELSE IF j \in DOMAIN pre THEN pre[j] \o walk[jump[j]]
                                      ELSE walk[jump[j]]
    OBVIOUS
  <2> QED
    BY <1>0 DEF Skip
<1>9. Gather(D, stop, out, jump, pre, f)
  <2> HIDE DEF step, D
  <2>1. f = step(f)
    BY <1>7, <1>8
  <2> HIDE DEF f
  <2> QED
    BY ONLY <1>8, <2>1
<1>10. \A j \in D : f[j] \in G[j]
  <2> HIDE DEF D, f
  <2> QED
    BY ONLY <1>3, <1>4, <1>5, <1>6, <1>9, GatherFinds
<1>11. r = f[BOTTOM_SZ - 1]
  BY ONLY r = Within(g, s), Zenon DEF Within
<1> HIDE DEF f
<1>12. BOTTOM_SZ - 1 \in D
  BY <1>1
<1>13. r \in Seq(Blocks) /\ Lists(r, Upto(BOTTOM_SZ - 1))
  BY <1>0, <1>10, <1>11, <1>12
<1>14. Upto(BOTTOM_SZ - 1) = {c \in U : Segment(c) = s}
  <2> SUFFICES ASSUME NEW c \in U
               PROVE  c >= s * BOTTOM_SZ /\ c <= s * BOTTOM_SZ + (BOTTOM_SZ - 1) <=> Segment(c) = s
    OBVIOUS
  <2> DEFINE t == Segment(c)
  <2>1. /\ c \in Nat /\ t \in Nat /\ t * BOTTOM_SZ <= c /\ c < (t + 1) * BOTTOM_SZ
        /\ (t + 1) * BOTTOM_SZ = t * BOTTOM_SZ + BOTTOM_SZ
    BY <1>1, InSegment
  <2> HIDE DEF t
  <2>2. t < s => t * BOTTOM_SZ + BOTTOM_SZ <= s * BOTTOM_SZ /\ t * BOTTOM_SZ \in Nat
    BY <2>1, Apart
  <2>3. s < t => s * BOTTOM_SZ + BOTTOM_SZ <= t * BOTTOM_SZ /\ t * BOTTOM_SZ \in Nat
    BY <2>1, Apart
  <2>4. t < s \/ t = s \/ s < t
    BY <2>1
  <2> QED
    BY <1>1, <2>1, <2>2, <2>3, <2>4 DEF t
<1> QED
  BY <1>13, <1>14 DEF U

LEMMA VisitedIs ==
  ASSUME NEW g, NEW heap, Good(g, heap), NEW r, r = GC_apply_to_all_blocks(g)
  PROVE  r \in Seq(Blocks) /\ Lists(r, UsedBlocks(g))
<1> DEFINE n == Segment(NBLOCKS)
           W(s) == IF s \in g.index THEN Within(g, s) ELSE <<>>
           V(up, s) == (IF s = 0 THEN <<>> ELSE up[s - 1]) \o W(s)
           P(up, m) == up = [s \in 0..m |-> V(up, s)]
           f == CHOOSE up : P(up, n)
           U == UsedBlocks(g)
           T(x, s) == x \in Seq(Blocks) /\ Lists(x, {c \in U : Segment(c) <= s})
<1>0. f = CHOOSE up : P(up, n)
  OBVIOUS
<1>1. r = f[n]
  BY ONLY r = GC_apply_to_all_blocks(g), Zenon DEF GC_apply_to_all_blocks, Within
<1>2. /\ n \in Nat /\ NBLOCKS \in Nat /\ U \subseteq Nat /\ \A c \in U : c <= NBLOCKS
      /\ \A c \in U : Segment(c) \in g.index /\ Segment(c) \in Nat
  <2>1. NBLOCKS \in Nat /\ U \subseteq Blocks /\ \A c \in U : Segment(c) \in g.index
    BY HeaderSizes DEF Good, But, Typed, Indexed, UsedBlocks
  <2>2. U \subseteq Nat /\ \A c \in U : c <= NBLOCKS
    BY <2>1 DEF Blocks
  <2> QED
    BY <2>1, <2>2, InSegment
<1>3. ASSUME NEW s \in Nat PROVE W(s) \in Seq(Blocks) /\ Lists(W(s), {c \in U : Segment(c) = s})
  <2>1. CASE s \in g.index
    <3> DEFINE q == Within(g, s)
    <3>1. W(s) = q /\ q = Within(g, s)
      BY <2>1
    <3> HIDE DEF q
    <3>2. q \in Seq(Blocks) /\ Lists(q, {c \in UsedBlocks(g) : Segment(c) = s})
      BY ONLY <3>1, Good(g, heap), s \in Nat, WithinIs
    <3> HIDE DEF W
    <3> QED
      BY <3>1, <3>2
  <2>2. CASE s \notin g.index
    <3>1. {c \in U : Segment(c) = s} = {}
      BY <1>2, <2>2
    <3>2. W(s) = <<>> /\ <<>> \in Seq(Blocks)
      BY <2>2
    <3>3. Lists(<<>>, {})
      BY DEF Lists, ToSet
    <3> HIDE DEF W
    <3> QED
      BY ONLY <3>1, <3>2, <3>3
  <2> QED
    BY <2>1, <2>2
<1> HIDE DEF n, W, f, U, V
<1>4. \E up : P(up, n)
  <2> DEFINE S == {j \in Nat : \E up : P(up, j)}
  <2>1. 0 \in S
    <3> DEFINE p == [s \in 0..0 |-> <<>> \o W(s)]
    <3>1. \A s \in 0..0 : V(p, s) = <<>> \o W(s)
      BY DEF V
    <3>2. P(p, 0)
      BY <3>1
    <3> QED
      BY <3>2
  <2>2. ASSUME NEW j \in S PROVE j + 1 \in S
    <3>1. PICK up : P(up, j)
      OBVIOUS
    <3>2. j \in Nat /\ \A s \in 0..j : up[s] = V(up, s)
      BY <3>1
    <3> DEFINE q == [s \in 0..(j + 1) |-> V(up, s)]
    <3>3. \A s \in 0..j : q[s] = up[s]
      BY <3>2
    <3>4. \A s \in 0..(j + 1) : s # 0 => s - 1 \in 0..j
      BY <3>2
    <3>5. q = [s \in 0..(j + 1) |-> V(up, s)]
      OBVIOUS
    <3> HIDE DEF q
    <3>6. \A s \in 0..(j + 1) : V(up, s) = V(q, s)
      <4> SUFFICES ASSUME NEW s \in 0..(j + 1)
                   PROVE  (IF s = 0 THEN <<>> ELSE up[s - 1]) = (IF s = 0 THEN <<>> ELSE q[s - 1])
        BY DEF V
      <4> QED
        BY <3>3, <3>4
    <3>7. P(q, j + 1)
      BY ONLY <3>5, <3>6
    <3> HIDE DEF P
    <3>8. \E p : P(p, j + 1)
      BY <3>7
    <3> QED
      BY <3>2, <3>8
  <2> HIDE DEF P
  <2>3. S = Nat
    BY <2>1, <2>2, SetInduction
  <2> QED
    BY <1>2, <2>3
<1>5. P(f, n)
  <2> HIDE DEF P
  <2> QED
    BY <1>0, <1>4
<1>6. /\ f[0] = <<>> \o W(0)
      /\ \A s \in 1..n : f[s] = f[s - 1] \o W(s)
  <2>1. \A s \in 0..n : f[s] = V(f, s)
    BY <1>5
  <2>2. 0 \in 0..n /\ \A s \in 1..n : s \in 0..n /\ s # 0
    BY <1>2
  <2> QED
    BY <2>1, <2>2 DEF V
<1> HIDE DEF P
<1> DEFINE S == {s \in Nat : s <= n => T(f[s], s)}
<1>7. 0 \in S
  <2>1. <<>> \o W(0) = W(0) /\ W(0) \in Seq(Blocks) /\ Lists(W(0), {c \in U : Segment(c) = 0})
    BY <1>3
  <2>2. {c \in U : Segment(c) = 0} = {c \in U : Segment(c) <= 0}
    <3> SUFFICES ASSUME NEW c \in U PROVE Segment(c) = 0 <=> Segment(c) <= 0
      OBVIOUS
    <3> QED
      BY <1>2
  <2>3. T(f[0], 0)
    BY ONLY <1>6, <2>1, <2>2
  <2> QED
    BY <2>3
<1>8. ASSUME NEW j \in S PROVE j + 1 \in S
  <2> SUFFICES ASSUME j + 1 <= n PROVE T(f[j + 1], j + 1)
    OBVIOUS
  <2>1. j \in Nat /\ j + 1 \in 1..n /\ (j + 1) - 1 = j /\ T(f[j], j)
    BY <1>2
  <2> DEFINE k == j + 1
             A == {c \in U : Segment(c) <= j}
             B == {c \in U : Segment(c) = k}
             a == f[j]
             w == W(k)
  <2>2. f[k] = a \o w
    BY <1>6, <2>1
  <2>3. a \in Seq(Blocks) /\ Lists(a, A)
    BY <2>1
  <2>4. w \in Seq(Blocks) /\ Lists(w, B)
    <3>1. k \in Nat
      BY <2>1
    <3> HIDE DEF k
    <3> QED
      BY <1>3, <3>1
  <2>5. A \cap B = {} /\ A \cup B = {c \in U : Segment(c) <= k}
    <3>1. ASSUME NEW c \in U PROVE /\ ~(Segment(c) <= j /\ Segment(c) = k)
                                   /\ Segment(c) <= k <=> Segment(c) <= j \/ Segment(c) = k
      BY <1>2, <2>1
    <3> HIDE DEF k
    <3> QED
      BY <3>1
  <2> DEFINE q == a \o w
  <2>6. q = a \o w
    OBVIOUS
  <2> HIDE DEF A, B, a, w, q
  <2>7. q \in Seq(Blocks) /\ Lists(q, A \cup B)
    BY ONLY <2>3, <2>4, <2>5, <2>6, JoinedLists
  <2>8. T(f[k], k)
    <3> HIDE DEF k
    <3> QED
      BY ONLY <2>2, <2>5, <2>6, <2>7
  <2> QED
    BY <2>8
<1> HIDE DEF T
<1>9. S = Nat
  BY <1>7, <1>8, SetInduction
<1>10. T(f[n], n)
  BY <1>2, <1>9
<1>11. {c \in U : Segment(c) <= n} = U
  <2>1. ASSUME NEW c \in U PROVE Segment(c) <= n
    <3>1. c \in Nat /\ c <= NBLOCKS
      BY <1>2
    <3> QED
      BY <1>2, <3>1, Ordered DEF n
  <2> QED
    BY <2>1
<1> QED
  BY <1>1, <1>10, <1>11 DEF T, U

-----------------------------------------------------------------------------
LEMMA FoundGood ==
  ASSUME NEW g, NEW heap, Good(g, heap)
  PROVE  LookupsAgree(g)
<1> DEFINE used == {b \in Blocks : IsUsed(g, b)}
<1>1. /\ But(g, heap, {}, {}) /\ Typed(g) /\ DOMAIN g.hdr \subseteq Blocks
      /\ DOMAIN g.hdr \subseteq Nat /\ CountsOf(g, {}, {})
  BY InRange DEF Good, But, Typed
<1>2. used = UsedBlocks(g) /\ UsedBlocks(g) \subseteq DOMAIN g.hdr
  BY <1>1 DEF UsedBlocks, IsUsed, HasHdr
<1>3. /\ \A u \in UsedBlocks(g) : \A c \in Extent(g, u) : Forwarded(g, c) = u
      /\ \A c \in DOMAIN g.hdr : Forwarded(g, c) = c
      /\ \A c \in (0..NBLOCKS) \ DOMAIN g.hdr : g.fwd[c] = 0 => Forwarded(g, c) = NULL
  BY <1>1, Leads
<1>4. NBLOCKS \in Nat /\ Blocks \subseteq 0..NBLOCKS /\ NULL \notin Blocks /\ Blocks \subseteq Nat
  BY HeaderSizes, InRange
<1> HIDE DEF used
<1>5. ASSUME NEW c \in Blocks \ UNION {Extent(g, b) : b \in used} PROVE Forwarded(g, c) \notin used
  <2>1. CASE c \in DOMAIN g.hdr
    <3>1. Forwarded(g, c) = c /\ c \in Extent(g, c)
      BY <1>1, <1>3, <2>1, Extents
    <3> QED
      BY <3>1
  <2>2. CASE c \notin DOMAIN g.hdr
    <3>1. c \in 0..NBLOCKS
      BY <1>4
    <3>2. g.fwd[c] = 0
      BY <1>1, <1>2, <3>1 DEF CountsOf
    <3>3. Forwarded(g, c) = NULL
      BY <1>3, <2>2, <3>1, <3>2
    <3> QED
      BY <1>1, <1>2, <1>4, <3>3
  <2> QED
    BY <2>1, <2>2
<1>6. ASSUME NEW b \in Blocks
      PROVE  GC_prev_block(g, b) = Max({c \in DOMAIN g.hdr : c <= b} \cup {NULL})
  <2> DEFINE q == GC_prev_block(g, b)
             S == {c \in DOMAIN g.hdr : c <= b} \cup {NULL}
  <2>1. q = GC_prev_block(g, b) /\ b \in 0..NBLOCKS
    BY <1>4
  <2> HIDE DEF q
  <2>2. (q = NULL \/ (q \in DOMAIN g.hdr /\ q <= b)) /\ \A c \in DOMAIN g.hdr : c <= b => c <= q
    BY <1>1, <2>1, PrevIs
  <2>3. q \in S /\ \A c \in S : c <= q
    BY <1>1, <2>2 DEF NULL
  <2>4. S \in SUBSET (0..NBLOCKS) /\ S # {}
    BY <1>1, <1>4 DEF NULL
  <2> HIDE DEF S
  <2>5. Max(S) = q
    BY <1>4, <2>3, <2>4, MaxIs
  <2> QED
    BY <2>1, <2>5 DEF S
<1>7. ASSUME NEW b \in Blocks
      PROVE  LET above == {c \in used : c >= b}
             IN  GC_next_used_block(g, b) = IF above = {} THEN NULL ELSE Min(above)
  <2> DEFINE q == GC_next_used_block(g, b)
             above == {c \in used : c >= b}
  <2>1. q = GC_next_used_block(g, b) /\ b \in 0..NBLOCKS
    BY <1>4
  <2> HIDE DEF q
  <2>2. \/ q \in UsedBlocks(g) /\ q >= b /\ \A c \in UsedBlocks(g) : c >= b => c >= q
        \/ q = NULL /\ \A c \in UsedBlocks(g) : ~(c >= b)
    BY <2>1, NextIs
  <2>3. CASE q \in UsedBlocks(g) /\ q >= b /\ \A c \in UsedBlocks(g) : c >= b => c >= q
    <3>1. q \in above /\ above \in SUBSET Nat /\ \A c \in above : q <= c
      BY <1>1, <1>2, <2>3
    <3> HIDE DEF above
    <3>2. above # {} /\ Min(above) = q
      BY <3>1, MinIs
    <3> QED
      BY <2>1, <3>2 DEF above
  <2>4. CASE q = NULL /\ \A c \in UsedBlocks(g) : ~(c >= b)
    BY <1>2, <2>1, <2>4
  <2> QED
    BY <2>2, <2>3, <2>4
<1>8. LET visited == GC_apply_to_all_blocks(g)
      IN  /\ {visited[i] : i \in DOMAIN visited} = used
          /\ \A i, j \in DOMAIN visited : visited[i] = visited[j] => i = j
  <2> DEFINE visited == GC_apply_to_all_blocks(g)
  <2>1. visited = GC_apply_to_all_blocks(g)
    OBVIOUS
  <2> HIDE DEF visited
  <2>2. Lists(visited, used)
    BY <1>2, <2>1, VisitedIs
  <2>3. /\ {visited[i] : i \in DOMAIN visited} = used
        /\ \A i, j \in DOMAIN visited : visited[i] = visited[j] => i = j
    BY ONLY <2>2 DEF Lists, ToSet
  <2> QED
    BY <2>1, <2>3
<1> USE DEF used
<1>9. \A b \in used : \A c \in Extent(g, b) : Forwarded(g, c) = b
  BY <1>2, <1>3
<1> QED
  BY ONLY <1>5, <1>6, <1>7, <1>8, <1>9, Zenon DEF LookupsAgree

\* Whatever the order of the calls, the header of an object is found from each
\* of its blocks, from no other block is that of a used one found, and the walks
\* over the index, which pass blocks by the counts and the sizes of free blocks
\* and skip the bottom indices that do not exist, find what a search of every
\* block finds (GC_find_header, GC_prev_block, GC_next_used_block,
\* GC_apply_to_all_blocks).
THEOREM FindsBlocks == Spec => []BlocksFound
<1>1. IInv => BlocksFound
  BY FoundGood DEF IInv, Settled, BlocksFound
<1> QED
  BY <1>1, InitSettled, NextSettled, PTL DEF Spec
=============================================================================
