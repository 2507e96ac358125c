------------------------------- MODULE GcHblk -------------------------------
(***************************************************************************)
(* The state of the collector is one record h, named after the globals of  *)
(* gc_priv.h without their prefix GC_; every function that runs under the  *)
(* allocation lock is an operator from h to the next h.                    *)
(* h.all_interior_pointers, h.incremental, h.find_leak, h.dont_gc,         *)
(* h.dont_expand, h.use_entire_heap, h.USE_MUNMAP and so on are the        *)
(* configuration.                                                          *)
(*                                                                         *)
(* The counters of the heap and the decisions taken from them: when a      *)
(* collection is due (alloc.c) and which addresses are black-listed        *)
(* (blacklst.c).                                                           *)
(*                                                                         *)
(* allchblk.c: heap blocks are cut from and returned to lists of free      *)
(* blocks, one list per size or range of sizes.  A list that the code      *)
(* links through hb_next and hb_prev is a sequence of blocks.  With        *)
(* USE_MUNMAP the memory of old free blocks goes back to the system; the   *)
(* heap grows by blocks that come from it (alloc.c).                       *)
(***************************************************************************)
EXTENDS GcHeaders, SequencesExt

CONSTANTS
  free_space_divisor,
  stack_size,           \* words on the stack of the program
  PHT_ENTRIES,          \* entries of a page hash table
  MAXHINCR, MINHINCR    \* heap increments, in blocks

ASSUME Counts ==
  /\ free_space_divisor \in Nat \ {0} /\ stack_size \in Nat
  /\ PHT_ENTRIES \in Nat \ {0} /\ MAXHINCR \in Nat \ {0} /\ MINHINCR \in Nat \ {0}

CONSTANTS
  UNIQUE_THRESHOLD, HUGE_THRESHOLD, FL_COMPRESSION,
  MAX_BLACK_LIST_ALLOC,
  USHORT               \* number of values of hb_last_reclaimed

ASSUME ListSizes ==
  /\ UNIQUE_THRESHOLD \in Nat \ {0} /\ FL_COMPRESSION \in Nat \ {0}
  /\ HUGE_THRESHOLD \in Nat /\ HUGE_THRESHOLD > UNIQUE_THRESHOLD
  /\ USHORT \in Nat \ {0}

Larger(a, b) == IF a > b THEN a ELSE b

USED_HEAP_SIZE(h) == h.heapsize - h.large_free_bytes

-----------------------------------------------------------------------------
\* When to collect.
min_bytes_allocd(h) ==
  LET total_root_size == 2 * stack_size + h.root_size
      scan_size == 2 * h.composite_in_use + h.atomic_in_use \div 4 + total_root_size
      result    == scan_size \div free_space_divisor
  IN  Larger(IF h.incremental THEN result \div 2 ELSE result, 1)

GC_adj_bytes_allocd(h) ==
  LET managed == h.non_gc_bytes - h.non_gc_bytes_at_gc
      counted == h.bytes_allocd + h.bytes_dropped - h.bytes_freed
                   + h.finalizer_bytes_freed - managed
      result  == (IF counted > h.bytes_allocd THEN h.bytes_allocd ELSE counted)
                   + h.bytes_finalized
  IN  Larger(result, h.bytes_allocd \div 8)

\* The threshold is computed when it is first asked for after a collection.
Thresholded(h) ==
  IF h.last_gc_no = h.gc_no THEN h
  ELSE [h EXCEPT !.last_gc_no = h.gc_no, !.last_min_bytes_allocd = min_bytes_allocd(h)]

GC_should_collect(h) ==
  \/ GC_adj_bytes_allocd(h) >= Thresholded(h).last_min_bytes_allocd
  \/ h.heapsize >= h.collect_at_heapsize

-----------------------------------------------------------------------------
\* Black lists: sets of entries of a page hash table.
PHT_HASH(b) == b % PHT_ENTRIES

\* The blocks of the heap sections that are in the list just promoted.
StackBlackListed(h, bl) ==
  {b \in UNION h.heap_sects : PHT_HASH(b) \in bl}

GC_promote_black_lists(h) ==
  LET stackListed == Cardinality(StackBlackListed(h, h.incomplete_stack_bl))
      asListed    == IF stackListed = 0 THEN h.black_list_spacing
                     ELSE HBLKSIZE * (h.heapsize \div (stackListed * HBLKSIZE))
      spacing     == Larger(asListed, 3 * HBLKSIZE)
  IN  [h EXCEPT !.old_normal_bl = h.incomplete_normal_bl,
                !.old_stack_bl = h.incomplete_stack_bl,
                \* without interior pointers the lists change roles cleared
                !.incomplete_normal_bl = IF h.all_interior_pointers THEN h.old_normal_bl ELSE {},
                !.incomplete_stack_bl = {},
                !.black_list_spacing =
                    IF spacing > MAXHINCR * HBLKSIZE THEN MAXHINCR * HBLKSIZE ELSE spacing]

GC_unpromote_black_lists(h) ==
  [h EXCEPT !.incomplete_normal_bl =
                IF h.all_interior_pointers THEN @ ELSE h.old_normal_bl,
            !.incomplete_stack_bl = h.old_stack_bl]

\* A false pointer into block b: listed unless b has a header, in which case
\* only a block that was listed before stays so.
GC_add_to_black_list_normal(h, b) ==
  IF HasHdr(h, b) \/ h.fwd[b] # 0
  THEN [h EXCEPT !.incomplete_normal_bl = @ \cup ({PHT_HASH(b)} \cap h.old_normal_bl)]
  ELSE [h EXCEPT !.incomplete_normal_bl = @ \cup {PHT_HASH(b)}]

GC_add_to_black_list_stack(h, b) ==
  IF HasHdr(h, b) \/ h.fwd[b] # 0
  THEN [h EXCEPT !.incomplete_stack_bl = @ \cup ({PHT_HASH(b)} \cap h.old_stack_bl)]
  ELSE [h EXCEPT !.incomplete_stack_bl = @ \cup {PHT_HASH(b)}]

\* NULL if the given blocks from b on are not black-listed, otherwise a block
\* before which none is the start of as many that are not.
GC_is_black_listed(h, b, blocks) ==
  LET listed == {i \in 0..(blocks - 1) :
                   PHT_HASH(b + i) \in h.old_stack_bl \cup h.incomplete_stack_bl}
  IN  IF /\ ~h.all_interior_pointers
         /\ PHT_HASH(b) \in h.old_normal_bl \cup h.incomplete_normal_bl
      THEN b + 1
      ELSE IF listed = {} THEN NULL ELSE b + Min(listed) + 1

-----------------------------------------------------------------------------
\* Blocks and the lists of free ones.
N_HBLK_FLS == (HUGE_THRESHOLD - UNIQUE_THRESHOLD) \div FL_COMPRESSION + UNIQUE_THRESHOLD

PTRFREE == "PTRFREE"
NORMAL == "NORMAL"
UNCOLLECTABLE == "UNCOLLECTABLE"
AUNCOLLECTABLE == "AUNCOLLECTABLE"
Kinds == {PTRFREE, NORMAL, UNCOLLECTABLE, AUNCOLLECTABLE}
IS_UNCOLLECTABLE(kind) == kind \in {UNCOLLECTABLE, AUNCOLLECTABLE}
PointerFree(kind) == kind \in {PTRFREE, AUNCOLLECTABLE}   \* hb_descr = 0

\* The values of may_split.
NoSplit == "FALSE"
AnySplit == "TRUE"
AVOID_SPLIT_REMAPPED == "AVOID_SPLIT_REMAPPED"

IS_MAPPED(hhdr) == "WAS_UNMAPPED" \notin hhdr.flags   \* set only with USE_MUNMAP

\* The header of a free block of sz granules.
FreeHeader(h, sz) ==
  [sz |-> sz, kind |-> PTRFREE, flags |-> {}, marks |-> {}, n_marks |-> 0,
   last_reclaimed |-> h.gc_no % USHORT]

InitialHblks ==
  [hblkfreelist |-> [i \in 0..N_HBLK_FLS |-> <<>>],
   free_bytes |-> [i \in 0..N_HBLK_FLS |-> 0],
   large_free_bytes |-> 0, large_allocd_bytes |-> 0, max_large_allocd_bytes |-> 0,
   drop_count |-> 0, unmapped_bytes |-> 0,
   protected |-> {}, dirty |-> {}, grungy |-> {}]

-----------------------------------------------------------------------------
\* Virtual dirty bits (os_dep.c, MPROTECT_VDB), a page being a block.  Reading
\* them protects the blocks that may hold pointers; a write to a protected
\* block faults, and the handler unprotects and dirties it.
Touch(h, bs) ==
  [h EXCEPT !.dirty = @ \cup (bs \cap h.protected), !.protected = @ \ bs]

\* Blocks about to be written without a fault, dirty unless they are free of
\* pointers.
GC_remove_protection(h, bs, ptrfree) ==
  IF ~h.incremental THEN h
  ELSE [h EXCEPT !.dirty = IF ptrfree THEN @ ELSE @ \cup bs, !.protected = @ \ bs]

\* Free blocks and blocks free of pointers are left unprotected.
GC_protect_heap(h) ==
  [h EXCEPT !.protected = @ \cup
     UNION {Extent(h, b) : b \in {c \in DOMAIN h.hdr :
                                    IsUsed(h, c) /\ ~PointerFree(h.hdr[c].kind)}}]

GC_read_dirty(h) == GC_protect_heap([h EXCEPT !.grungy = h.dirty, !.dirty = {}])

GC_page_was_dirty(h, b) == b \in h.grungy

-----------------------------------------------------------------------------
GC_hblk_fl_from_blocks(n) ==
  IF n <= UNIQUE_THRESHOLD THEN n
  ELSE IF n >= HUGE_THRESHOLD THEN N_HBLK_FLS
  ELSE (n - UNIQUE_THRESHOLD) \div FL_COMPRESSION + UNIQUE_THRESHOLD

FlIndex(hhdr) == GC_hblk_fl_from_blocks(hhdr.sz \div HBLKSIZE)

\* The largest list from which on the free bytes cover what large blocks have
\* needed at most so far.
GC_enough_large_bytes_left(h) ==
  LET beyond[n \in 0..(N_HBLK_FLS + 1)] ==
        IF n > N_HBLK_FLS THEN h.large_allocd_bytes ELSE beyond[n + 1] + h.free_bytes[n]
      enough == {n \in 0..N_HBLK_FLS : beyond[n] >= h.max_large_allocd_bytes}
  IN  IF enough = {} THEN 0 ELSE Max(enough)

\* A list without b, which is on it at most once.
Unlinked(list, b) ==
  IF b \in ToSet(list) THEN RemoveAt(list, CHOOSE j \in DOMAIN list : list[j] = b) ELSE list

GC_remove_from_fl_at(h, b, index) ==
  [h EXCEPT !.hblkfreelist[index] = Unlinked(@, b),
            !.free_bytes[index] = @ - h.hdr[b].sz]

GC_remove_from_fl(h, b) == GC_remove_from_fl_at(h, b, FlIndex(h.hdr[b]))

GC_add_to_fl(h, b) ==
  LET index == FlIndex(h.hdr[b])
  IN  [h EXCEPT !.hblkfreelist[index] = <<b>> \o @,
                !.free_bytes[index] = @ + h.hdr[b].sz,
                !.hdr[b].flags = @ \cup {"FREE_BLK"}]

\* The free block that ends where b begins.
GC_free_block_ending_at(h, b) ==
  LET near == Forwarded(h, b - 1)
      p    == GC_prev_block(h, b - 1)
  IN  IF near # NULL THEN (IF IsFree(h, near) THEN near ELSE NULL)
      ELSE IF p # NULL /\ IsFree(h, p) /\ p + h.hdr[p].sz \div HBLKSIZE = b THEN p
      ELSE NULL

-----------------------------------------------------------------------------
Sizes(h) == [b \in DOMAIN h.hdr |-> h.hdr[b].sz]

\* Mapping: whole blocks here, as a page is one block.
Unmap(h, b) ==
  [h EXCEPT !.hdr[b].flags = @ \cup {"WAS_UNMAPPED"},
            !.unmapped_bytes = @ + h.hdr[b].sz]
Remap(h, b) ==
  IF IS_MAPPED(h.hdr[b]) THEN h
  ELSE [h EXCEPT !.hdr[b].flags = @ \ {"WAS_UNMAPPED"},
                 !.unmapped_bytes = @ - h.hdr[b].sz]

\* The age of a block is a difference of a truncated and a stored counter, so
\* it is negative for a while after the counter has wrapped.
Age(h, b) == (h.gc_no % USHORT) - h.hdr[b].last_reclaimed

GC_unmap_old(h) ==
  LET old == {b \in DOMAIN h.hdr :
                /\ IsFree(h, b) /\ IS_MAPPED(h.hdr[b])
                /\ \E i \in 0..N_HBLK_FLS : \E j \in DOMAIN h.hblkfreelist[i] :
                     h.hblkfreelist[i][j] = b
                /\ Age(h, b) > h.unmap_threshold}
  IN  IF h.unmap_threshold = 0 THEN h
      ELSE [h EXCEPT !.hdr = [b \in DOMAIN h.hdr |->
                                IF b \in old
                                THEN [h.hdr[b] EXCEPT !.flags = @ \cup {"WAS_UNMAPPED"}]
                                ELSE h.hdr[b]],
                     !.unmapped_bytes = @ + SumFunctionOnSet(Sizes(h), old)]

Successor(h, b) == b + h.hdr[b].sz \div HBLKSIZE
Mergable(h, b) == IsFree(h, Successor(h, b))

\* b, on list i, swallows its free successor: the smaller of the two follows
\* the larger in being mapped or not.
Swallow(h, b, i) ==
  LET next    == Successor(h, b)
      mapped  == IS_MAPPED(h.hdr[b])
      nmapped == IS_MAPPED(h.hdr[next])
      larger  == h.hdr[b].sz > h.hdr[next].sz
      aligned ==
        IF mapped = nmapped THEN h
        ELSE IF mapped THEN (IF larger THEN Remap(h, next) ELSE Unmap(h, b))
        ELSE IF larger THEN Unmap(h, next)
        ELSE [Remap(h, b) EXCEPT !.hdr[b].last_reclaimed = h.hdr[next].last_reclaimed]
      apart   == GC_remove_from_fl(GC_remove_from_fl_at(aligned, b, i), next)
      joined  == GC_remove_header([apart EXCEPT !.hdr[b].sz = @ + h.hdr[next].sz], next)
  IN  GC_add_to_fl(joined, b)

\* The first block of list i that can be merged.
MergeOne(h, i) ==
  LET at == {j \in DOMAIN h.hblkfreelist[i] : Mergable(h, h.hblkfreelist[i][j])}
  IN  IF at = {} THEN h ELSE Swallow(h, h.hblkfreelist[i][Min(at)], i)

\* Each merge starts the list over; there are fewer merges than blocks.
MergeList(h, i) ==
  LET merged[k \in 0..NBLOCKS] == IF k = 0 THEN h ELSE MergeOne(merged[k - 1], i)
  IN  merged[NBLOCKS]

GC_merge_unmapped(h) ==
  LET merged[k \in 0..(N_HBLK_FLS + 1)] == IF k = 0 THEN h ELSE MergeList(merged[k - 1], k - 1)
  IN  merged[N_HBLK_FLS + 1]

-----------------------------------------------------------------------------
\* The first sz granules of the free block b of list index; the rest becomes
\* a free block of its own.
GC_get_first_part(h, b, sz, index) ==
  LET taken == GC_remove_from_fl_at(h, b, index)
      total == h.hdr[b].sz
      rest  == b + sz \div HBLKSIZE
  IN  IF total = sz THEN taken
      ELSE GC_add_to_fl(GC_install_header(taken, rest, FreeHeader(h, total - sz)), rest)

\* The free block b is cut at n, which replaces it on list index, right or
\* wrong for its size, as it is about to be allocated.
GC_split_block(h, b, n, index) ==
  LET b_size == (n - b) * HBLKSIZE
      cut    == GC_install_header(h, n, [FreeHeader(h, h.hdr[b].sz - b_size)
                                           EXCEPT !.flags = {"FREE_BLK"}])
      moved  == [cut EXCEPT
                   !.hblkfreelist[index] = [j \in DOMAIN @ |-> IF @[j] = b THEN n ELSE @[j]],
                   !.free_bytes[index] = @ - b_size,
                   !.hdr[b].sz = b_size,
                   !.hdr[b].last_reclaimed = IF h.USE_MUNMAP THEN h.gc_no % USHORT ELSE @]
  IN  GC_add_to_fl(moved, b)

setup_header(h, sz, kind, flags) ==
  [sz |-> sz, kind |-> kind, flags |-> flags,
   marks |-> {FINAL_MARK_BIT(sz)}, n_marks |-> 0, last_reclaimed |-> h.gc_no % USHORT]

\* Every block of the black-listed free block b allocated by itself as garbage
\* that the next collection gives back.
DropBlock(h, b, index) ==
  LET total  == h.hdr[b].sz
      off    == [GC_remove_from_fl_at(h, b, index)
                   EXCEPT !.large_free_bytes = @ - total, !.bytes_dropped = @ + total]
      blocks == b..(b + total \div HBLKSIZE - 1)
  IN  SetHdrs(get_index(off, blocks),
              [c \in blocks |-> setup_header(h, HBLKSIZE, PTRFREE, {})])

\* From b on the first block c, one of the first `tries`, that is followed by
\* none of eff blocks that are black-listed; or a block behind those.
BehindBlackListed(h, b, tries, eff) ==
  LET last[c \in b..(b + tries + eff)] ==
        LET r == GC_is_black_listed(h, c, eff)
        IN  IF c >= b + tries \/ r = NULL THEN c ELSE last[r]
  IN  last[b]

\* A block for objects of sz granules from list n: what the loop does with the
\* free block b that it has reached.  Once acc.result is a block no later one
\* is looked at.
TryBlock(acc, b, sz, kind, flags, n, may_split) ==
  LET h       == acc.h
      hhdr    == h.hdr[b]
      needed  == HBLKSIZE * OBJ_SZ_TO_BLOCKS(sz)
      list    == h.hblkfreelist[n]
      at      == CHOOSE j \in DOMAIN list : list[j] = b
      better  == /\ at < Len(list)
                 /\ h.hdr[list[at + 1]].sz < hhdr.sz
                 /\ h.hdr[list[at + 1]].sz >= needed
                 /\ GC_is_black_listed(h, list[at + 1], needed \div HBLKSIZE) = NULL
      skipped == \/ hhdr.sz < needed
                 \/ hhdr.sz # needed /\ (may_split = NoSplit \/ better)
      avoids  == /\ ~IS_UNCOLLECTABLE(kind)
                 /\ kind # PTRFREE \/ needed > MAX_BLACK_LIST_ALLOC
      eff     == IF "IGNORE_OFF_PAGE" \in flags THEN 1 ELSE needed \div HBLKSIZE
      tries   == (hhdr.sz - needed) \div HBLKSIZE + 1
      start   == IF avoids THEN BehindBlackListed(h, b, tries, eff) ELSE b
      avail   == hhdr.sz - (start - b) * HBLKSIZE
      take(g, c) == [h |-> GC_get_first_part(Remap(g, c), c, needed, n), result |-> c]
  IN  IF acc.result # NULL \/ skipped THEN acc
      ELSE IF avail >= needed
           THEN IF start = b THEN take(h, b)
                ELSE IF may_split = AVOID_SPLIT_REMAPPED /\ ~IS_MAPPED(hhdr) THEN acc
                ELSE take(GC_split_block(Remap(h, b), b, start, n), start)
      ELSE IF needed > h.black_list_spacing /\ hhdr.sz - needed > h.black_list_spacing
           THEN take(h, b)
      ELSE IF avail = 0 /\ needed = HBLKSIZE /\ IS_MAPPED(hhdr) /\ ~h.find_leak
           THEN LET counted == [h EXCEPT !.drop_count = (@ + 1) % 4]
                IN  [acc EXCEPT !.h = IF counted.drop_count = 0
                                      THEN DropBlock(counted, b, n) ELSE counted]
      ELSE acc

\* The rest of GC_allochblk_nth once a block is found: counts, header and
\* accounts.
Established(acc, sz, kind, flags) ==
  LET b       == acc.result
      blocks  == OBJ_SZ_TO_BLOCKS(sz)
      counted == GC_install_counts(acc.h, b, blocks)
      header  == [counted EXCEPT !.hdr[b] = setup_header(counted, sz, kind, flags)]
      open    == GC_remove_protection(header, b..(b + blocks - 1), PointerFree(kind))
  IN  IF b = NULL THEN acc
      ELSE [acc EXCEPT !.h = [open EXCEPT !.fail_count = 0,
                                            !.large_free_bytes = @ - blocks * HBLKSIZE]]

GC_allochblk_nth(h, sz, kind, flags, n, may_split) ==
  LET list == h.hblkfreelist[n]
      tried[k \in 0..Len(list)] ==
        IF k = 0 THEN [h |-> h, result |-> NULL]
        ELSE TryBlock(tried[k - 1], list[k], sz, kind, flags, n, may_split)
  IN  Established(tried[Len(list)], sz, kind, flags)

\* The lists from `start` on, up to the one whose blocks may be split, if the
\* exact fit was not found.
Fitted(exact, start, sz, kind, flags) ==
  LET g        == exact.h
      spare    == \/ g.use_entire_heap \/ g.dont_gc \/ g.incremental
                  \/ USED_HEAP_SIZE(g) < g.requested_heapsize
      asked    == IF spare THEN g ELSE Thresholded(g)
      freely   == spare \/ ~GC_should_collect(g)
      limit    == IF freely THEN N_HBLK_FLS
                  ELSE IF g.finalizer_bytes_freed > g.heapsize \div 16 THEN 0
                  ELSE GC_enough_large_bytes_left(g)
      split    == IF ~freely /\ g.USE_MUNMAP /\ limit > 0 THEN AVOID_SPLIT_REMAPPED ELSE AnySplit
      from     == IF start < UNIQUE_THRESHOLD THEN start + 1 ELSE start
      searched[i \in (from - 1)..Larger(limit, from - 1)] ==
        IF i = from - 1 THEN [exact EXCEPT !.h = asked]
        ELSE LET acc == searched[i - 1]
             IN  IF acc.result # NULL THEN acc
                 ELSE GC_allochblk_nth(acc.h, sz, kind, flags, i, split)
  IN  IF exact.result # NULL THEN exact
      ELSE searched[Larger(limit, from - 1)]

GC_allochblk(h, sz, kind, flags) ==
  LET start == GC_hblk_fl_from_blocks(OBJ_SZ_TO_BLOCKS(sz))
  IN  Fitted(GC_allochblk_nth(h, sz, kind, flags, start, NoSplit), start, sz, kind, flags)

-----------------------------------------------------------------------------
\* b becomes a free block of whole blocks, on no list yet.  To free one that is
\* free already is fatal.
Freed(h, b) ==
  LET size == HBLKSIZE * OBJ_SZ_TO_BLOCKS(h.hdr[b].sz)
  IN  [GC_remove_counts(h, b, size \div HBLKSIZE)
         EXCEPT !.hdr[b].sz = size,
                !.hdr[b].last_reclaimed = IF h.USE_MUNMAP THEN h.gc_no % USHORT ELSE @,
                !.hdr[b].flags = @ \cup {"FREE_BLK"},
                !.large_free_bytes = @ + size,
                !.aborted = @ \/ IsFree(h, b)]

\* The block that becomes part of b left on its list.
WithNext_StaysListed(h, b) ==
  LET next == Successor(h, b)
  IN  IF IsFree(h, next) /\ IS_MAPPED(h.hdr[next])
      THEN GC_remove_header([h EXCEPT !.hdr[b].sz = @ + h.hdr[next].sz], next)
      ELSE h

\* A mapped free block behind b becomes part of it, and b of one before it.
WithNext(h, b) ==
  LET next == Successor(h, b)
  IN  IF IsFree(h, next) /\ IS_MAPPED(h.hdr[next])
      THEN GC_remove_header([GC_remove_from_fl(h, next)
                               EXCEPT !.hdr[b].sz = @ + h.hdr[next].sz], next)
      ELSE h

\* The block before b grown first and then taken off the list for its new size.
WithPrev_GrownFirst(h, b, prev) ==
  LET grown == [h EXCEPT !.hdr[prev].sz = @ + h.hdr[b].sz]
  IN  IF prev # NULL /\ IS_MAPPED(h.hdr[prev])
      THEN GC_add_to_fl(GC_remove_header(GC_remove_from_fl(grown, prev), b), prev)
      ELSE GC_add_to_fl(h, b)

WithPrev(h, b, prev) ==
  IF prev # NULL /\ IS_MAPPED(h.hdr[prev])
  THEN GC_add_to_fl(
         GC_remove_header([GC_remove_from_fl(h, prev)
                             EXCEPT !.hdr[prev].sz = @ + h.hdr[b].sz,
                                    !.hdr[prev].last_reclaimed =
                                        IF h.USE_MUNMAP THEN h.gc_no % USHORT ELSE @], b),
         prev)
  ELSE GC_add_to_fl(h, b)

\* The successor not looked at.
GC_freehblk_NoSuccessor(h, b) ==
  WithPrev(Freed(h, b), b, GC_free_block_ending_at(Freed(h, b), b))

GC_freehblk(h, b) ==
  WithPrev(WithNext(Freed(h, b), b), b, GC_free_block_ending_at(Freed(h, b), b))

-----------------------------------------------------------------------------
\* The accounts of large objects (malloc.c, reclaim.c).
Counted(g, n_blocks) ==
  IF n_blocks = 1 THEN g
  ELSE [g EXCEPT !.large_allocd_bytes = @ + n_blocks * HBLKSIZE,
                 !.max_large_allocd_bytes = Larger(@, g.large_allocd_bytes + n_blocks * HBLKSIZE)]

Uncounted(g, n_blocks) ==
  [g EXCEPT !.large_allocd_bytes = IF n_blocks > 1 THEN @ - n_blocks * HBLKSIZE ELSE @]

-----------------------------------------------------------------------------
\* Growing the heap (alloc.c), and the memory it grows by.  The system hands out
\* blocks side by side or h.gap blocks apart, upwards or (h.downwards) downwards,
\* until the address space ends.  Headers and reclaim lists come from scratch
\* memory that is not modelled.
InitialHeap ==
  [heap_sects |-> {}, heapsize |-> 0, collect_at_heapsize |-> 0, requested_heapsize |-> 0,
   least_ha |-> (NBLOCKS + 1) * HBLKSIZE, greatest_ha |-> 0, last_heap_addr |-> NULL]

\* n fresh blocks from the system: the first of them, or NULL.
GET_MEM(h, n) ==
  LET space == IF h.downwards THEN h.got - h.gap - n ELSE h.got + h.gap + 1
      last  == space + n - 1
  IN  IF space < 1 \/ last > NBLOCKS THEN [h |-> h, result |-> NULL]
      ELSE [h |-> [h EXCEPT !.got = IF h.downwards THEN space ELSE last], result |-> space]

\* The n blocks from p on become a free block of the heap, merged with its free
\* neighbours.
GC_add_to_heap(h, p, n) ==
  LET bytes == n * HBLKSIZE
  IN  [GC_freehblk(GC_install_header(h, p, FreeHeader(h, bytes)), p)
         EXCEPT !.heap_sects = @ \cup {p..(p + n - 1)},
                !.heapsize = @ + bytes,
                !.collect_at_heapsize = @ + bytes,
                !.least_ha = IF p * HBLKSIZE <= @ THEN p * HBLKSIZE ELSE @,
                !.greatest_ha = Larger(@, (p + n) * HBLKSIZE)]

\* The range of plausible addresses is stretched in the direction in which the
\* heap seems to grow, so that false pointers to where it will grow are noted.
Stretched(h, space, n, slop) ==
  LET low == space * HBLKSIZE - slop
  IN  IF h.last_heap_addr < space
      THEN [h EXCEPT !.last_heap_addr = space,
                     !.greatest_ha = Larger(@, (space + n) * HBLKSIZE + slop)]
      ELSE [h EXCEPT !.last_heap_addr = space,
                     !.least_ha = IF 0 <= low /\ low < @ THEN low ELSE @]

GC_expand_hp_inner(h, blocks) ==
  LET n     == Larger(blocks, MINHINCR)
      space == GET_MEM(h, n).result
      slop  == min_bytes_allocd(h) + 4 * MAXHINCR * HBLKSIZE
  IN  IF \/ h.max_heapsize # 0 /\ h.heapsize + n * HBLKSIZE > h.max_heapsize
         \/ space = NULL
      THEN [h |-> h, result |-> FALSE]
      ELSE [h |-> [GC_add_to_heap(Stretched(GET_MEM(h, n).h, space, n, slop), space, n)
                     EXCEPT !.collect_at_heapsize =
                                h.heapsize + n * HBLKSIZE + slop - 2 * MAXHINCR * HBLKSIZE],
            result |-> TRUE]

GC_expand_hp(h, bytes) ==
  LET grown == GC_expand_hp_inner(h, bytes \div HBLKSIZE)
  IN  IF grown.result THEN [grown.h EXCEPT !.requested_heapsize = @ + bytes] ELSE grown.h

-----------------------------------------------------------------------------
FreeBlocks(h) == {b \in DOMAIN h.hdr : IsFree(h, b)}

\* Every heap block belongs to exactly one header; the free ones are whole
\* blocks and stand on the one list for their size, once.
BlocksTileHeap(h) ==
  LET heap == UNION h.heap_sects
  IN  /\ UNION {Extent(h, b) : b \in DOMAIN h.hdr} = heap
      /\ \A b, c \in DOMAIN h.hdr : b # c => Extent(h, b) \cap Extent(h, c) = {}
      /\ \A i \in 0..N_HBLK_FLS :
           LET list == h.hblkfreelist[i]
           IN  /\ {list[j] : j \in DOMAIN list} = {b \in FreeBlocks(h) : FlIndex(h.hdr[b]) = i}
               /\ \A j, k \in DOMAIN list : list[j] = list[k] => j = k
      /\ \A b \in FreeBlocks(h) : h.hdr[b].sz % HBLKSIZE = 0

\* Unless blocks may be unmapped, no two free blocks lie side by side in a heap
\* section.
FreeBlocksAreMerged(h) ==
  ~h.USE_MUNMAP =>
    \A b \in FreeBlocks(h) : Successor(h, b) \notin FreeBlocks(h)

\* The bytes of the blocks b, if b is large.
LargeSizes(h) ==
  [b \in DOMAIN h.hdr |->
     IF OBJ_SZ_TO_BLOCKS(h.hdr[b].sz) > 1 THEN HBLKSIZE * OBJ_SZ_TO_BLOCKS(h.hdr[b].sz) ELSE 0]

\* The byte counts on which splitting, unmapping and collecting depend are
\* those of the blocks.
FreeBytesAdd(h) ==
  LET free == FreeBlocks(h)
  IN  /\ h.large_free_bytes = SumFunctionOnSet(Sizes(h), free)
      /\ \A i \in 0..N_HBLK_FLS :
           h.free_bytes[i] = SumFunctionOnSet(Sizes(h), {b \in free : FlIndex(h.hdr[b]) = i})
      /\ h.unmapped_bytes = SumFunctionOnSet(Sizes(h), {b \in free : ~IS_MAPPED(h.hdr[b])})
      /\ h.large_allocd_bytes = SumFunctionOnSet(LargeSizes(h), DOMAIN h.hdr \ free)
=============================================================================
