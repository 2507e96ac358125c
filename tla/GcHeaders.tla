----------------------------- MODULE GcHeaders -----------------------------
(***************************************************************************)
(* headers.c and gc_hdrs.h of gc-7.4.2: from any address to the header of  *)
(* the heap block around it.  Sizes and addresses are counted in granules, *)
(* block b holds the addresses b * HBLKSIZE .. b * HBLKSIZE + HBLKSIZE - 1.*)
(* An index entry is a header, a forwarding count or nil; h.hdr holds the  *)
(* entries that are headers and h.fwd the others, 0 for nil.  Bottom       *)
(* indices cover BOTTOM_SZ blocks each and exist only where they were      *)
(* asked for (h.index).  Scratch memory for headers does not run out.      *)
(***************************************************************************)
EXTENDS Integers, Sequences, FiniteSetsExt

CONSTANTS
  NBLOCKS,     \* addressable blocks are 1..NBLOCKS, block 0 holds NULL
  HBLKSIZE,    \* granules of a block
  BOTTOM_SZ,   \* entries of a bottom index
  MAX_JUMP     \* largest forwarding count

ASSUME HeaderSizes ==
  /\ NBLOCKS \in Nat /\ HBLKSIZE \in Nat \ {0}
  /\ BOTTOM_SZ \in Nat \ {0} /\ MAX_JUMP \in Nat \ {0}

NULL == 0
Blocks == 1..NBLOCKS

HBLKPTR(p) == p \div HBLKSIZE
HBLKDISPL(p) == p % HBLKSIZE
OBJ_SZ_TO_BLOCKS(sz) == (sz + HBLKSIZE - 1) \div HBLKSIZE
MAXOBJGRANULES == HBLKSIZE \div 2

\* The first displacement beyond the objects of a block.  Its mark is always
\* set, so that a pointer behind the last object marks nothing.
FINAL_MARK_BIT(sz) ==
  IF sz > MAXOBJGRANULES THEN HBLKSIZE ELSE sz * (HBLKSIZE \div sz)

Segment(b) == b \div BOTTOM_SZ
NoHeaders == [hdr |-> [b \in {} |-> NULL], fwd |-> [b \in 0..NBLOCKS |-> 0], index |-> {}]

-----------------------------------------------------------------------------
HasHdr(h, b) == b \in DOMAIN h.hdr
HBLK_IS_FREE(hhdr) == "FREE_BLK" \in hhdr.flags
IsFree(h, b) == HasHdr(h, b) /\ HBLK_IS_FREE(h.hdr[b])
IsUsed(h, b) == HasHdr(h, b) /\ ~HBLK_IS_FREE(h.hdr[b])

\* Entries become headers, or counts (nil if 0).
SetHdrs(h, header) ==
  [h EXCEPT !.hdr = [c \in DOMAIN @ \cup DOMAIN header |->
                       IF c \in DOMAIN header THEN header[c] ELSE @[c]],
            !.fwd = [c \in DOMAIN @ |-> IF c \in DOMAIN header THEN 0 ELSE @[c]]]
SetCounts(h, count) ==
  [h EXCEPT !.hdr = [c \in DOMAIN @ \ DOMAIN count |-> @[c]],
            !.fwd = [c \in DOMAIN @ |-> IF c \in DOMAIN count THEN count[c] ELSE @[c]]]

get_index(h, bs) == [h EXCEPT !.index = @ \cup {Segment(b) : b \in bs}]

\* What GC_install_header leaves uninitialised is the caller's to fill in.
GC_install_header(h, b, hhdr) == SetHdrs(get_index(h, {b}), [c \in {b} |-> hhdr])

\* The counts start over behind MAX_JUMP: the last blocks of a long object
\* need several jumps.
GC_install_counts_Unbounded(h, b, blocks) ==
  SetCounts(get_index(h, b..(b + blocks - 1)),
            [c \in (b+1)..(b + blocks - 1) |-> (c - b) % (MAX_JUMP + 1)])

GC_install_counts(h, b, blocks) ==
  SetCounts(get_index(h, b..(b + blocks - 1)),
            [c \in (b+1)..(b + blocks - 1) |->
               IF c - b > MAX_JUMP THEN MAX_JUMP ELSE c - b])

GC_remove_header(h, b) == SetCounts(h, [c \in {b} |-> 0])

GC_remove_counts(h, b, blocks) == SetCounts(h, [c \in (b+1)..(b + blocks - 1) |-> 0])

-----------------------------------------------------------------------------
\* The block whose header FORWARDED_ADDR leads to from b; NULL if nil is met.
Forwarded(h, b) ==
  LET to[c \in 0..NBLOCKS] ==
        IF HasHdr(h, c) THEN c
        ELSE IF h.fwd[c] = 0 THEN NULL ELSE to[c - h.fwd[c]]
  IN  to[b]

\* The next position below p in the order of the bottom indices: k entries
\* down, or the last entry of the preceding index.
Down(h, p, k) ==
  LET below == {s \in h.index : s < Segment(p)}
  IN  IF Segment(p) \in h.index /\ p - k >= Segment(p) * BOTTOM_SZ THEN p - k
      ELSE IF below = {} THEN NULL ELSE Max(below) * BOTTOM_SZ + BOTTOM_SZ - 1

\* And k entries up, or the first entry of the following index.
Up(h, p, k) ==
  LET above == {s \in h.index : s > Segment(p)}
  IN  IF Segment(p) \in h.index /\ p + k < (Segment(p) + 1) * BOTTOM_SZ THEN p + k
      ELSE IF above = {} THEN NBLOCKS + 1 ELSE Min(above) * BOTTOM_SZ

\* The last block at or below b that has a header, used or free.
GC_prev_block(h, b) ==
  LET prev[p \in 0..NBLOCKS] ==
        IF p = 0 \/ HasHdr(h, p) THEN p
        ELSE prev[Down(h, p, IF h.fwd[p] = 0 THEN 1 ELSE h.fwd[p])]
  IN  prev[b]

\* The first used block at or above b, NULL if there is none.
GC_next_used_block(h, b) ==
  LET next[p \in 0..(NBLOCKS + 1)] ==
        IF p > NBLOCKS THEN NULL
        ELSE IF IsUsed(h, p) THEN p
        ELSE next[Up(h, p, IF IsFree(h, p) THEN h.hdr[p].sz \div HBLKSIZE ELSE 1)]
  IN  next[b]

\* The blocks GC_apply_to_all_blocks visits, in its order: the indices
\* upwards, the entries of each downwards.
GC_apply_to_all_blocks(h) ==
  LET within(s) ==
        LET walk[j \in (-MAX_JUMP - 1)..(BOTTOM_SZ - 1)] ==
              LET b == s * BOTTOM_SZ + j
              IN  IF j < 0 THEN <<>>
                  ELSE IF b > NBLOCKS THEN walk[j - 1]
                  ELSE IF HasHdr(h, b)
                       THEN (IF IsUsed(h, b) THEN <<b>> ELSE <<>>) \o walk[j - 1]
                  ELSE walk[j - (IF h.fwd[b] = 0 THEN 1 ELSE h.fwd[b])]
        IN  walk[BOTTOM_SZ - 1]
      upwards[s \in 0..Segment(NBLOCKS)] ==
        (IF s = 0 THEN <<>> ELSE upwards[s - 1]) \o (IF s \in h.index THEN within(s) ELSE <<>>)
  IN  upwards[Segment(NBLOCKS)]

\* The address where the object around address p begins, NULL if p is in none
\* (misc.c).  p lies in a block of the index or beyond the heap.
BaseIn(h, p, b) ==
  LET sz   == h.hdr[b].sz
      base == IF b = HBLKPTR(p) THEN p - (HBLKDISPL(p) % sz) ELSE b * HBLKSIZE
  IN  IF ~IsUsed(h, b) THEN NULL
      ELSE IF base + sz > (b + 1) * HBLKSIZE /\ sz <= HBLKSIZE THEN NULL
      ELSE IF p >= base + sz THEN NULL
      ELSE base
GC_base(h, p) == BaseIn(h, p, Forwarded(h, HBLKPTR(p)))

-----------------------------------------------------------------------------
\* The blocks that the header of b speaks for.
Extent(h, b) == b..(b + OBJ_SZ_TO_BLOCKS(h.hdr[b].sz) - 1)

\* From every block of a used extent the counts lead to its header, and from
\* no other block to a used one; and the three walks over the index, which
\* jump by counts and sizes, find the blocks that a search of the whole index
\* finds.
LookupsAgree(h) ==
  LET used == {b \in Blocks : IsUsed(h, b)}
  IN  /\ \A b \in used : \A c \in Extent(h, b) : Forwarded(h, c) = b
      /\ \A c \in Blocks \ UNION {Extent(h, b) : b \in used} : Forwarded(h, c) \notin used
      /\ \A b \in Blocks :
           /\ GC_prev_block(h, b) = Max({c \in DOMAIN h.hdr : c <= b} \cup {NULL})
           /\ LET above == {c \in used : c >= b}
              IN  GC_next_used_block(h, b) = IF above = {} THEN NULL ELSE Min(above)
      /\ LET visited == GC_apply_to_all_blocks(h)
         IN  /\ {visited[i] : i \in DOMAIN visited} = used
             /\ \A i, j \in DOMAIN visited : visited[i] = visited[j] => i = j
=============================================================================
