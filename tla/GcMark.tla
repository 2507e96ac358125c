------------------------------- MODULE GcMark -------------------------------
(***************************************************************************)
(* mark.c and the part of mark_rts.c that pushes the roots: the marker as  *)
(* a state machine that a call of GC_mark_some moves on by about a block.  *)
(* The mark stack is a sequence of ranges [start, descr], descr being a    *)
(* length.  Root words have addresses behind those of the heap; those of    *)
(* the stack are one range.                                                *)
(***************************************************************************)
EXTENDS GcObjects, GcRoots

CONSTANTS
  StaticRoots, StackRoots,   \* addresses of the root words
  INITIAL_MARK_STACK_SIZE, GC_MARK_STACK_DISCARDS,
  STACK_ENTRIES,             \* entries of a mark stack in a block
  SPLIT_RANGE                \* longest part of an object scanned at a time

Roots == StaticRoots \cup StackRoots

MS_NONE == "NONE"
MS_PUSH_RESCUERS == "PUSH_RESCUERS"
MS_PUSH_UNCOLLECTABLE == "PUSH_UNCOLLECTABLE"
MS_ROOTS_PUSHED == "ROOTS_PUSHED"
MS_PARTIALLY_INVALID == "PARTIALLY_INVALID"
MS_INVALID == "INVALID"

\* scan_ptr is the block from which the scan of the heap goes on, 0 at its ends.
InitialMarker ==
  [mark_state |-> MS_NONE, mark_stack |-> <<>>, mark_stack_size |-> 0,
   mark_stack_at |-> NULL, mark_stack_too_small |-> FALSE, scan_ptr |-> 0,
   objects_are_marked |-> FALSE, aborted |-> FALSE]

\* The entries of the tables of finalize.c, objects of the heap, as the words at
\* the addresses -1, -2 ...  Links and objects are hidden in the entries.
Entries(h) ==
  LET at(table) == [i \in DOMAIN table |-> table[i].at]
  IN  at(h.fo) \o at(h.dl) \o at(h.ll) \o at(h.finalize_now)

WordAt(h, a) ==
  IF a \in Roots THEN h.roots[a]
  ELSE IF a \in Addresses THEN h.mem[a]
  ELSE IF -a \in DOMAIN Entries(h) THEN Entries(h)[-a] ELSE NULL
Plausible(h, w) == w # JUNK /\ h.least_ha <= w /\ w < h.greatest_ha
GC_collection_in_progress(h) == h.mark_state # MS_NONE

-----------------------------------------------------------------------------
\* Pushing.  When the stack is full some entries from the top are dropped, and
\* the new one takes the place of another: marked objects are then not scanned,
\* which the state remembers (and the mutant forgets).
GC_signal_mark_stack_overflow_Forgotten(h) ==
  [h EXCEPT !.mark_stack_too_small = TRUE,
            !.mark_stack = SubSeq(@, 1, h.mark_stack_size - GC_MARK_STACK_DISCARDS)]

GC_signal_mark_stack_overflow(h) ==
  [h EXCEPT !.mark_state = MS_INVALID, !.mark_stack_too_small = TRUE,
            !.mark_stack = SubSeq(@, 1, h.mark_stack_size - GC_MARK_STACK_DISCARDS)]

PUSH_OBJ(h, p, hhdr) ==
  LET room == IF Len(h.mark_stack) >= h.mark_stack_size
              THEN GC_signal_mark_stack_overflow(h) ELSE h
  IN  IF PointerFree(hhdr.kind) THEN h
      ELSE [room EXCEPT !.mark_stack = Append(@, [start |-> p, descr |-> hhdr.sz])]

GC_push_all(h, range) ==
  IF range = {} THEN h
  ELSE IF Len(h.mark_stack) >= h.mark_stack_size THEN [h EXCEPT !.aborted = TRUE]
  ELSE [h EXCEPT !.mark_stack =
          Append(@, [start |-> Min(range), descr |-> Cardinality(range)])]

\* The object at base, in the block with header b, is marked and pushed unless
\* it is marked already.
PushUnmarked(h, b, base) ==
  LET displ == base - b * HBLKSIZE
  IN  IF displ \in h.hdr[b].marks THEN h
      ELSE PUSH_OBJ([h EXCEPT !.hdr[b].marks = @ \cup {displ}, !.hdr[b].n_marks = @ + 1],
                    base, h.hdr[b])

GC_ADD_TO_BLACK_LIST_NORMAL(h, b) ==
  IF h.all_interior_pointers THEN GC_add_to_black_list_stack(h, b)
  ELSE GC_add_to_black_list_normal(h, b)

\* A word w that points into the used block b or, if it is large, behind its
\* first block: only the heap's own words are held to the valid offsets.
PUSH_CONTENTS_HDR(h, w, b, do_offset_check) ==
  LET sz     == h.hdr[b].sz
      large  == sz > MAXOBJGRANULES
      base   == IF large THEN b * HBLKSIZE ELSE w - (HBLKDISPL(w) % sz)
      near   == HBLKPTR(w) = b
  IN  IF do_offset_check /\ ~h.all_interior_pointers /\ near /\ w # base
      THEN GC_ADD_TO_BLACK_LIST_NORMAL(h, b)
      ELSE PushUnmarked(h, b, base)

\* A word found in the heap or in static data (PUSH_CONTENTS, whose header
\* cache answers as GC_header_cache_miss does).
PUSH_CONTENTS(h, w) ==
  LET c == HBLKPTR(w)
      b == Forwarded(h, c)
  IN  IF IsUsed(h, c) THEN PUSH_CONTENTS_HDR(h, w, c, TRUE)
      ELSE IF IsFree(h, c) THEN GC_ADD_TO_BLACK_LIST_NORMAL(h, c)
      ELSE IF b = NULL THEN GC_ADD_TO_BLACK_LIST_NORMAL(h, c)
      ELSE IF ~h.all_interior_pointers \/ "IGNORE_OFF_PAGE" \in h.hdr[b].flags THEN h
      ELSE IF HBLK_IS_FREE(h.hdr[b]) \/ w - b * HBLKSIZE >= h.hdr[b].sz
           THEN GC_ADD_TO_BLACK_LIST_NORMAL(h, c)
      ELSE PUSH_CONTENTS_HDR(h, w, b, TRUE)

\* A word found on the stack: interior pointers count.
PushBase(h, w, r) ==
  IF r = NULL THEN GC_add_to_black_list_stack(h, HBLKPTR(w))
  ELSE PUSH_CONTENTS_HDR(h, r, HBLKPTR(r), FALSE)

GC_mark_and_push_stack(h, w) ==
  LET c == HBLKPTR(w)
  IN  IF ~Plausible(h, w) THEN h
      ELSE IF IsUsed(h, c) THEN PUSH_CONTENTS_HDR(h, w, c, FALSE)
      ELSE IF IsFree(h, c) THEN GC_ADD_TO_BLACK_LIST_NORMAL(h, c)
      ELSE PushBase(h, w, GC_base(h, w))

GC_push_all_eager(h, range) ==
  FoldLeft(LAMBDA g, a : GC_mark_and_push_stack(g, WordAt(g, a)), h, Ascending(range))

-----------------------------------------------------------------------------
\* About a block of the ranges on the mark stack, from the top.
Scan(h, a) == IF Plausible(h, WordAt(h, a)) THEN PUSH_CONTENTS(h, WordAt(h, a)) ELSE h

GC_mark_from(h) ==
  LET step(acc, i) ==
        LET g     == acc.h
            top   == Last(g.mark_stack)
            long  == top.descr >= SPLIT_RANGE /\ SPLIT_RANGE > 1
            part  == IF long THEN SPLIT_RANGE - 1 ELSE top.descr
            rest  == [start |-> top.start + part, descr |-> top.descr - part]
            left  == [g EXCEPT !.mark_stack = IF long THEN Append(Front(@), rest) ELSE Front(@)]
        IN  IF g.mark_stack = <<>> \/ acc.credit < 0 THEN acc
            ELSE [h |-> FoldLeft(Scan, left, [j \in 1..part |-> top.start + j - 1]),
                  credit |-> acc.credit - part]
      started == [h EXCEPT !.objects_are_marked = TRUE]
  IN  FoldLeft(step, [h |-> started, credit |-> HBLKSIZE], [i \in 1..(HBLKSIZE + 1) |-> i]).h

-----------------------------------------------------------------------------
\* Scans of the heap for marked objects, a block at a time.
GC_push_marked(h, b) ==
  LET hhdr == h.hdr[b]
      ps   == Ascending({b * HBLKSIZE + d : d \in hhdr.marks \cap ObjectsOf(hhdr.sz)})
      on   == [h EXCEPT !.objects_are_marked = TRUE]
  IN  IF PointerFree(hhdr.kind) \/ hhdr.n_marks = 0 THEN h
      ELSE FoldLeft(LAMBDA g, p : PUSH_OBJ(g, p, hhdr), on, ps)

\* The first used block at or above p that meets the condition, NULL if none.
NextOf(h, p, used, Cond(_)) ==
  LET next[c \in DOMAIN used] ==
        IF used[c] = NULL \/ Cond(used[c]) THEN used[c]
        ELSE next[used[c] + OBJ_SZ_TO_BLOCKS(h.hdr[used[c]].sz)]
  IN  next[p]
NextBlock(h, p, Cond(_)) ==
  NextOf(h, p, [c \in 0..(NBLOCKS + 1) |-> GC_next_used_block(h, c)], Cond)

\* Its marked objects pushed and scan_ptr behind it; at the end scan_ptr = 0.
PushBlock(h, b) ==
  IF b = NULL THEN [h EXCEPT !.scan_ptr = 0]
  ELSE [GC_push_marked(h, b) EXCEPT !.scan_ptr = b + OBJ_SZ_TO_BLOCKS(h.hdr[b].sz)]
PushNext(h, Cond(_)) == PushBlock(h, NextBlock(h, h.scan_ptr, Cond))

GC_block_was_dirty(h, b) == \E c \in Extent(h, b) : GC_page_was_dirty(h, c)

GC_push_next_marked(h) == PushNext(h, LAMBDA b : TRUE)
GC_push_next_marked_dirty(h) == PushNext(h, LAMBDA b : GC_block_was_dirty(h, b))
GC_push_next_marked_uncollectable(h) ==
  PushNext(h, LAMBDA b : h.hdr[b].kind = UNCOLLECTABLE)

GC_push_finalizer_structures(h) == GC_push_all(h, (-Len(Entries(h)))..(-1))

\* Pages outside the heap always count as dirty, so all of a range whatever `all`
\* says.  What is not loaded any more cannot be read.
GC_PUSH_CONDITIONAL(h, range) ==
  IF range \cap Unloaded(h) # {} THEN [h EXCEPT !.aborted = TRUE] ELSE GC_push_all(h, range)

\* Static data, then the finalization tables, then the stack.  With interior
\* pointers the stack is pushed as a range.
GC_push_roots(h) ==
  LET ranges == FlattenSeq([i \in DOMAIN h.static_roots |->
                  WithExclusions(h, h.static_roots[i].start, h.static_roots[i].end)])
      tables == GC_push_finalizer_structures(FoldLeft(GC_PUSH_CONDITIONAL, h, ranges))
  IN  IF h.all_interior_pointers THEN GC_push_all(tables, StackRoots)
      ELSE GC_push_all_eager(tables, StackRoots)

\* n entries elsewhere, the old ones becoming part of the heap as they are; if
\* there is no memory the stack stays as it is.
alloc_mark_stack(h, n) ==
  LET size(k) == (k + STACK_ENTRIES - 1) \div STACK_ENTRIES
      got     == GET_MEM(h, size(n))
      emptied == [got.h EXCEPT !.mark_stack_too_small = FALSE, !.mark_stack = <<>>]
      moved   == [emptied EXCEPT !.mark_stack_at = got.result, !.mark_stack_size = n]
      old     == Fill(moved, h.mark_stack_at * HBLKSIZE, size(h.mark_stack_size) * HBLKSIZE, JUNK)
  IN  IF got.result = NULL THEN emptied
      ELSE IF h.mark_stack_size = 0 THEN moved
      ELSE GC_add_to_heap(old, h.mark_stack_at, size(h.mark_stack_size))

GC_mark_init(h) == alloc_mark_stack(h, INITIAL_MARK_STACK_SIZE)

Grown(h) == IF h.mark_stack_too_small THEN alloc_mark_stack(h, 2 * h.mark_stack_size) ELSE h

-----------------------------------------------------------------------------
GC_invalidate_mark_state(h) == [h EXCEPT !.mark_state = MS_INVALID, !.mark_stack = <<>>]

GC_clear_marks(h) ==
  [FoldLeft(clear_marks_for_block, h, GC_apply_to_all_blocks(h))
     EXCEPT !.objects_are_marked = FALSE, !.mark_state = MS_INVALID, !.scan_ptr = 0]

GC_initiate_gc(h) ==
  LET read == IF h.incremental THEN GC_read_dirty(h) ELSE h
  IN  IF h.mark_state \notin {MS_NONE, MS_INVALID} THEN [h EXCEPT !.aborted = TRUE]
      ELSE [read EXCEPT !.mark_state = IF @ = MS_NONE THEN MS_PUSH_RESCUERS ELSE @,
                        !.scan_ptr = 0]

\* The roots pushed, unless that overflowed the stack.
RootsPushed(h) ==
  [GC_push_roots(h) EXCEPT !.objects_are_marked = TRUE,
                           !.mark_state = IF @ = MS_INVALID THEN @ ELSE MS_ROOTS_PUSHED]

\* When the scan of the heap is over.
ThenRoots(h, complete) == IF h.scan_ptr = 0 /\ complete THEN RootsPushed(h) ELSE h

Top(h) == Len(h.mark_stack) - 1        \* index of the top entry

\* No room left for the roots when the scan of the heap ends.
PushUncollectable_StackFull(h) == ThenRoots(GC_push_next_marked_uncollectable(h), TRUE)

\* A step of each state of the marker; result is TRUE when marking is done.
PushRescuers(h) ==
  IF Top(h) >= h.mark_stack_size - INITIAL_MARK_STACK_SIZE \div 2
  THEN GC_mark_from([h EXCEPT !.mark_stack_too_small = TRUE])
  ELSE ThenRoots(GC_push_next_marked_dirty(h), TRUE)

PushUncollectable(h) ==
  IF Top(h) >= h.mark_stack_size \div 4 THEN GC_mark_from(h)
  ELSE ThenRoots(GC_push_next_marked_uncollectable(h), TRUE)

\* A scan of the whole heap is begun over and over until one is not disturbed
\* by an overflow; the stack grows before each.
Rescanned(h) == ThenRoots(h, h.mark_state = MS_PARTIALLY_INVALID)
RescanHeap(h) ==
  IF ~h.objects_are_marked THEN [h EXCEPT !.mark_state = MS_PUSH_UNCOLLECTABLE]
  ELSE IF h.mark_stack # <<>> THEN GC_mark_from(h)
  ELSE Rescanned(GC_push_next_marked(
         IF h.scan_ptr = 0 /\ h.mark_state = MS_INVALID
         THEN [Grown(h) EXCEPT !.mark_state = MS_PARTIALLY_INVALID] ELSE h))

GC_mark_some(h) ==
  CASE h.mark_state = MS_NONE -> [h |-> h, result |-> FALSE]
    [] h.mark_state = MS_PUSH_RESCUERS -> [h |-> PushRescuers(h), result |-> FALSE]
    [] h.mark_state = MS_PUSH_UNCOLLECTABLE -> [h |-> PushUncollectable(h), result |-> FALSE]
    [] h.mark_state = MS_ROOTS_PUSHED ->
         IF h.mark_stack # <<>> THEN [h |-> GC_mark_from(h), result |-> FALSE]
         ELSE [h |-> Grown([h EXCEPT !.mark_state = MS_NONE]), result |-> TRUE]
    [] OTHER -> [h |-> RescanHeap(h), result |-> FALSE]
=============================================================================
