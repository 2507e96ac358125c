----------------------------- MODULE GcObjects -----------------------------
(***************************************************************************)
(* Objects in heap blocks: mark bits (mark.c), new blocks of small objects *)
(* (new_hblk.c), the sweep (reclaim.c) and explicit deallocation           *)
(* (malloc.c).  h.mem holds one word for every granule of the heap: 0, the *)
(* address of an object, or JUNK.  A free list is the address of its first *)
(* object and goes on through the first words of the objects, as           *)
(* obj_link() does.  A header's marks are the displacements marked.        *)
(***************************************************************************)
EXTENDS GcHblk

CONSTANT MAX_LEAKED

JUNK == -1
Granules == 1..MAXOBJGRANULES
Addresses == HBLKSIZE..((NBLOCKS + 1) * HBLKSIZE - 1)

ok_init(kind) == kind \in {NORMAL, UNCOLLECTABLE}
HBLK_OBJS(sz) == HBLKSIZE \div sz
ObjectsOf(sz) == IF sz > MAXOBJGRANULES THEN {0} ELSE {i * sz : i \in 0..(HBLK_OBJS(sz) - 1)}

InitialObjects ==
  [mem |-> [a \in Addresses |-> 0],
   freelist |-> [k \in Kinds |-> [g \in Granules |-> NULL]],
   reclaim_list |-> [k \in Kinds |-> [g \in Granules |-> <<>>]],
   bytes_found |-> 0, leaked |-> <<>>]

-----------------------------------------------------------------------------
obj_link(h, p) == h.mem[p]

\* The objects of a free list, first to last; a list that runs in a circle
\* shows as one of more objects than the heap has granules.
ListFrom(h, p) ==
  LET from[q \in Int, n \in Nat] ==
        IF q = NULL THEN <<>>
        ELSE IF q \notin Addresses \/ n = 0 THEN <<q>>
        ELSE <<q>> \o from[obj_link(h, q), n - 1]
  IN  from[p, Cardinality(Addresses)]

Fill(h, p, sz, word) ==
  [h EXCEPT !.mem = [a \in Addresses |-> IF a \in p..(p + sz - 1) THEN word ELSE @[a]]]

GC_clear_hdr_marks(h, b) ==
  [h EXCEPT !.hdr[b].marks = {FINAL_MARK_BIT(h.hdr[b].sz)}, !.hdr[b].n_marks = 0]

\* The mark behind the last object counted too.
GC_set_hdr_marks_EndCounted(h, b) ==
  LET sz == h.hdr[b].sz
  IN  [h EXCEPT !.hdr[b].marks = ObjectsOf(sz) \cup {FINAL_MARK_BIT(sz)},
                !.hdr[b].n_marks = HBLK_OBJS(sz) + 1]

GC_set_hdr_marks(h, b) ==
  LET sz == h.hdr[b].sz
  IN  [h EXCEPT !.hdr[b].marks = ObjectsOf(sz) \cup {FINAL_MARK_BIT(sz)},
                !.hdr[b].n_marks = HBLK_OBJS(sz)]

GC_is_marked(h, p) == HBLKDISPL(p) \in h.hdr[HBLKPTR(p)].marks

GC_set_mark_bit(h, p) ==
  IF GC_is_marked(h, p) THEN h
  ELSE [h EXCEPT !.hdr[HBLKPTR(p)].marks = @ \cup {HBLKDISPL(p)},
                 !.hdr[HBLKPTR(p)].n_marks = @ + 1]

GC_clear_mark_bit(h, p) ==
  IF ~GC_is_marked(h, p) THEN h
  ELSE [h EXCEPT !.hdr[HBLKPTR(p)].marks = @ \ {HBLKDISPL(p)},
                 !.hdr[HBLKPTR(p)].n_marks = @ - 1]

clear_marks_for_block(h, b) ==
  IF IS_UNCOLLECTABLE(h.hdr[b].kind) THEN h ELSE GC_clear_hdr_marks(h, b)

-----------------------------------------------------------------------------
\* The objects ps, all of sz granules, in front of list: each links to the one
\* before it.  Result: the last of ps.
Threaded(h, ps, sz, clear, list) ==
  LET link(p) == LET j == CHOOSE i \in DOMAIN ps : ps[i] = p
                 IN  IF j = 1 THEN list ELSE ps[j - 1]
      heads   == {ps[i] : i \in DOMAIN ps}
      rest    == IF clear THEN UNION {(p + 1)..(p + sz - 1) : p \in heads} ELSE {}
  IN  [h |-> [h EXCEPT !.mem = [a \in Addresses |-> IF a \in heads THEN link(a)
                                                    ELSE IF a \in rest THEN 0 ELSE @[a]]],
       result |-> IF ps = <<>> THEN list ELSE Last(ps)]

Ascending(ps) == SetToSortSeq(ps, <)

\* A block of free objects in front of list; clear zeroes the whole block.
GC_build_fl(h, b, sz, clear, list) ==
  Threaded(IF clear THEN Fill(h, b * HBLKSIZE, HBLKSIZE, 0) ELSE h,
           Ascending({b * HBLKSIZE + d : d \in ObjectsOf(sz)}), sz, clear, list)

\* The list of the size becomes the one built or swept.
Listed(list, kind, gran) == [list.h EXCEPT !.freelist[kind][gran] = list.result]

\* The objects of a new block, all marked if their kind is never collected.
NewObjects(h, b, gran, kind, list) ==
  GC_build_fl(IF IS_UNCOLLECTABLE(kind) THEN GC_set_hdr_marks(h, b) ELSE h,
              b, gran, ok_init(kind), list)

InNewBlock(new, gran, kind) ==
  IF new.result = NULL THEN new.h
  ELSE Listed(NewObjects(new.h, new.result, gran, kind, new.h.freelist[kind][gran]), kind, gran)

GC_new_hblk(h, gran, kind) == InNewBlock(GC_allochblk(h, gran, kind, {}), gran, kind)

-----------------------------------------------------------------------------
Unmarked(h, b) ==
  Ascending({b * HBLKSIZE + d : d \in ObjectsOf(h.hdr[b].sz) \ h.hdr[b].marks})

GC_add_leaked(h, p) ==
  IF Len(h.leaked) >= MAX_LEAKED THEN h
  ELSE GC_set_mark_bit([h EXCEPT !.leaked = Append(@, p)], p)

GC_reclaim_check(h, b) == FoldLeft(GC_add_leaked, h, Unmarked(h, b))

\* The unmarked objects of b in front of list, cleared if init (GC_reclaim_clear)
\* or not (GC_reclaim_uninit).  Result: the new list and the granules found.
GC_reclaim_generic(h, b, init, list) ==
  LET freed    == Unmarked(h, b)
      swept    == Threaded(GC_remove_protection(h, {b}, PointerFree(h.hdr[b].kind)),
                           freed, h.hdr[b].sz, init, list)
      after(g) == IF IS_UNCOLLECTABLE(h.hdr[b].kind) THEN GC_set_hdr_marks(g, b) ELSE g
  IN  [h |-> after(swept.h), result |-> swept.result, count |-> Len(freed) * h.hdr[b].sz]

GC_reclaim_small_nonempty_block(h, b, report_if_found) ==
  LET kind        == h.hdr[b].kind
      sz          == h.hdr[b].sz
      aged        == [h EXCEPT !.hdr[b].last_reclaimed = h.gc_no % USHORT]
      into(swept) == [Listed(swept, kind, sz) EXCEPT !.bytes_found = @ + swept.count]
  IN  IF report_if_found THEN GC_reclaim_check(aged, b)
      ELSE into(GC_reclaim_generic(aged, b, ok_init(kind), h.freelist[kind][sz]))

CountInUse(h, kind, sz) ==
  IF PointerFree(kind) THEN [h EXCEPT !.atomic_in_use = @ + sz]
  ELSE [h EXCEPT !.composite_in_use = @ + sz]

ReclaimLarge(h, b, report_if_found) ==
  LET hhdr   == h.hdr[b]
      blocks == OBJ_SZ_TO_BLOCKS(hhdr.sz)
  IN  IF 0 \in hhdr.marks THEN CountInUse(h, hhdr.kind, hhdr.sz)
      ELSE IF report_if_found THEN GC_add_leaked(h, b * HBLKSIZE)
      ELSE GC_freehblk([Uncounted(h, blocks) EXCEPT !.bytes_found = @ + hhdr.sz], b)

GC_block_empty(hhdr) == hhdr.n_marks = 0
GC_block_nearly_full(hhdr) == hhdr.n_marks > (7 * HBLK_OBJS(hhdr.sz)) \div 8

\* The counts in use are those of the marks when the block was looked at.
Swept(h, b, report_if_found) ==
  LET hhdr == h.hdr[b]
  IN  IF report_if_found THEN GC_reclaim_small_nonempty_block(h, b, TRUE)
      ELSE IF GC_block_empty(hhdr)
           THEN GC_freehblk([h EXCEPT !.bytes_found = @ + HBLKSIZE], b)
      ELSE IF h.find_leak \/ ~GC_block_nearly_full(hhdr)
           THEN [h EXCEPT !.reclaim_list[hhdr.kind][hhdr.sz] = <<b>> \o @]
      ELSE h

GC_reclaim_block(h, b, report_if_found) ==
  LET hhdr       == h.hdr[b]
      counted(g) == CountInUse(g, hhdr.kind, hhdr.sz * (IF report_if_found THEN g ELSE h).hdr[b].n_marks)
  IN  IF hhdr.sz > MAXOBJGRANULES THEN ReclaimLarge(h, b, report_if_found)
      ELSE counted(Swept(h, b, report_if_found))

\* A list given up with its links.
GC_clear_fl_links(h, kind, sz) ==
  LET list == {p \in ToSet(ListFrom(h, h.freelist[kind][sz])) : p \in Addresses}
  IN  [Touch(h, {HBLKPTR(p) : p \in list})
         EXCEPT !.freelist[kind][sz] = NULL,
                !.mem = [a \in Addresses |-> IF a \in list THEN 0 ELSE @[a]]]

\* All free lists given up, with their links if objects of the kind are scanned
\* in full, or (the mutant) only those.
ClearFreeLists_Scanned(h) ==
  FoldSet(LAMBDA g, k : GC_clear_fl_links(k, NORMAL, g), h, Granules)

ClearFreeLists(h) ==
  LET linked == IF h.all_interior_pointers THEN Granules ELSE {}  \* ok_descriptor # 0
  IN  [FoldSet(LAMBDA g, k : GC_clear_fl_links(k, NORMAL, g), h, linked)
         EXCEPT !.freelist = [k \in Kinds |-> [g \in Granules |-> NULL]]]

GC_start_reclaim(h, report_if_found) ==
  FoldLeft(LAMBDA g, b : GC_reclaim_block(g, b, report_if_found),
           [(IF report_if_found THEN h ELSE ClearFreeLists(h))
              EXCEPT !.composite_in_use = 0, !.atomic_in_use = 0,
                     !.reclaim_list = [k \in Kinds |-> [g \in Granules |-> <<>>]]],
           GC_apply_to_all_blocks(h))

\* Waiting blocks are swept until the free list is not empty.
GC_continue_reclaim(h, sz, kind) ==
  LET blocks == h.reclaim_list[kind][sz]
      sweep(g, i) ==
        IF i > 1 /\ g.freelist[kind][sz] # NULL THEN g
        ELSE GC_reclaim_small_nonempty_block(
               [g EXCEPT !.reclaim_list[kind][sz] = Tail(@)], blocks[i], FALSE)
  IN  FoldLeft(sweep, h, [i \in DOMAIN blocks |-> i])

\* Every waiting block is swept, or with ignore_old only those swept during the
\* cycle before.  The number of calls of stop_func that still return FALSE is
\* h.patience.
Waiting(h) ==
  FoldSet(LAMBDA kg, s : s \o h.reclaim_list[kg[1]][kg[2]], <<>>, Kinds \X Granules)

GC_reclaim_all(h, stop_func, ignore_old) ==
  LET sweep(acc, b) ==
        LET g     == acc.h
            kind  == g.hdr[b].kind
            sz    == g.hdr[b].sz
            asked == stop_func /\ g.patience > 0
            taken == [g EXCEPT !.patience = IF asked THEN @ - 1 ELSE @,
                               !.reclaim_list[kind][sz] = Tail(@)]
        IN  IF ~acc.result THEN acc
            ELSE IF stop_func /\ g.patience = 0 THEN [acc EXCEPT !.result = FALSE]
            ELSE IF ~ignore_old \/ g.hdr[b].last_reclaimed = g.gc_no - 1
                 THEN [acc EXCEPT !.h = GC_reclaim_small_nonempty_block(taken, b, FALSE)]
            ELSE [acc EXCEPT !.h = taken]
  IN  FoldLeft(sweep, [h |-> h, result |-> TRUE], Waiting(h))

-----------------------------------------------------------------------------
\* Explicit deallocation.
GC_free(h, p) ==
  LET b       == HBLKPTR(p)
      hhdr    == h.hdr[b]
      kind    == hhdr.kind
      sz      == hhdr.sz
      nblocks == OBJ_SZ_TO_BLOCKS(sz)
      counted == [h EXCEPT !.bytes_freed = @ + sz,
                           !.non_gc_bytes = IF IS_UNCOLLECTABLE(kind) THEN @ - sz ELSE @]
      clear   == IF ok_init(kind) THEN Fill(counted, p, sz, 0) ELSE counted
  IN  IF sz <= MAXOBJGRANULES
      THEN Touch(
             [clear EXCEPT !.mem[p] = h.freelist[kind][sz], !.freelist[kind][sz] = p], {b})
      ELSE GC_freehblk(Uncounted(counted, nblocks), b)

\* The leaked objects are reported and freed, and the list is emptied before.
GC_print_all_errors(h) ==
  FoldLeft(GC_free, [h EXCEPT !.leaked = <<>>], h.leaked)
=============================================================================
