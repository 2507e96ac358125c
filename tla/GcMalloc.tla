------------------------------ MODULE GcMalloc ------------------------------
(***************************************************************************)
(* The allocation paths of malloc.c, mallocx.c and alloc.c, which collect  *)
(* and grow the heap on the way: a machine whose `stack` holds a frame for *)
(* every function that is running, its locals in it and the innermost one  *)
(* first.  A frame gets what the function it called returned in `got`; the *)
(* last one belongs to the program (GcClient).  A request is in granules   *)
(* and counts the extra byte that EXTRA_BYTES adds.                        *)
(***************************************************************************)
EXTENDS GcCollect

VARIABLES
  h,        \* the collector
  stack

frame == Head(stack)
In(fn) == stack # <<>> /\ frame.fn = fn
At(pc) == frame.pc = pc

\* The running function goes on as the given frames, or returns v.
Goto(g, frames) == h' = g /\ stack' = frames \o Tail(stack)
Return(g, v) == h' = g /\ stack' = <<[stack[2] EXCEPT !.got = v]>> \o SubSeq(stack, 3, Len(stack))

Little(n) == [fn |-> "GC_collect_a_little_inner", got |-> NULL, n |-> n]
Try(stop) == [fn |-> "GC_try_to_collect_inner", got |-> NULL, pc |-> "asking", stop |-> stop]
CollectOrExpand(needed, ignore_off_page, retry) ==
  [fn |-> "GC_collect_or_expand", got |-> NULL, pc |-> "deciding", needed |-> needed,
   ignore_off_page |-> ignore_off_page, retry |-> retry]
Allocobj(gran, kind) ==
  [fn |-> "GC_allocobj", got |-> NULL, pc |-> "sharing", gran |-> gran, kind |-> kind,
   minor |-> FALSE, retry |-> FALSE]
AllocLarge(lb, kind, flags) ==
  [fn |-> "GC_alloc_large", got |-> NULL, pc |-> "sharing", lb |-> lb, kind |-> kind, flags |-> flags]
Generic(gran, kind, flags) ==
  [fn |-> "GC_generic_malloc_inner", got |-> NULL, pc |-> "asking", gran |-> gran, kind |-> kind,
   flags |-> flags]
Many(gran, kind) ==
  [fn |-> "GC_generic_malloc_many", got |-> NULL, pc |-> "sharing", gran |-> gran, kind |-> kind]

-----------------------------------------------------------------------------
\* Collections.
CollectALittleInner ==
  /\ In("GC_collect_a_little_inner")
  /\ Return(GC_collect_a_little_inner(h, frame.n), NULL)

\* Stopped before it has begun, or not allowed.
NotCollecting ==
  /\ In("GC_try_to_collect_inner") /\ At("asking")
  /\ h.dont_gc \/ (frame.stop /\ h.patience = 0)
  /\ Return(h, FALSE)

Unfinished == h.incremental /\ GC_collection_in_progress(h)

Asking ==
  /\ In("GC_try_to_collect_inner") /\ At("asking")
  /\ ~h.dont_gc /\ ~(frame.stop /\ h.patience = 0)
  /\ Goto(Asked(h, frame.stop), <<[frame EXCEPT !.pc = "finishing"]>>)

\* A collection under way is finished first; the stop function may say yes
\* before every part of that.
Finishing ==
  /\ In("GC_try_to_collect_inner") /\ At("finishing")
  /\ Unfinished /\ ~(frame.stop /\ h.patience = 0)
  /\ Goto(Asked(h, frame.stop), <<Little(1), frame>>)

StoppedFinishing ==
  /\ In("GC_try_to_collect_inner") /\ At("finishing")
  /\ Unfinished /\ frame.stop /\ h.patience = 0
  /\ Return(h, FALSE)

CollectFully ==
  /\ In("GC_try_to_collect_inner") /\ At("finishing") /\ ~Unfinished
  /\ \E full \in {FullCollection(h, frame.stop)} : Return(full.h, full.result)

-----------------------------------------------------------------------------
\* GC_collect_or_expand: TRUE if it is worth while to look for memory again.
Urgent ==
  \/ h.dont_expand /\ h.bytes_allocd > 0
  \/ /\ Len(h.fo) > h.last_fo_entries + FO_SURPLUS
     /\ h.last_bytes_finalized # 0 \/ h.bytes_finalized # 0

CollectionDue == ~h.incremental /\ ~h.dont_gc /\ (Urgent \/ GC_should_collect(h))

\* The heap once that has been decided.
Decided ==
  IF At("deciding") /\ ~h.incremental /\ ~h.dont_gc /\ ~Urgent THEN Thresholded(h) ELSE h

\* Without the client's stop function if nothing was allocated since the last
\* collection, or if there is no other way to get memory.
CollectRather ==
  /\ In("GC_collect_or_expand") /\ At("deciding") /\ CollectionDue
  /\ Goto(Decided, <<Try(h.default_stop /\ h.bytes_allocd > 0 /\ (~h.dont_expand \/ ~frame.retry)),
               [frame EXCEPT !.pc = "collected"]>>)

CollectedRather ==
  /\ In("GC_collect_or_expand") /\ At("collected") /\ (frame.got \/ ~frame.retry)
  /\ Return([h EXCEPT !.last_fo_entries = Len(h.fo),
                      !.last_bytes_finalized = h.bytes_finalized], TRUE)

BlocksToGet(needed, ignore_off_page) ==
  LET wanted == h.heapsize \div (HBLKSIZE * free_space_divisor) + needed
      near   == 2 * (h.black_list_spacing \div HBLKSIZE)
      slop   == IF ignore_off_page THEN BL_SLOP ELSE IF near > needed THEN needed ELSE near
  IN  IF wanted <= MAXHINCR THEN wanted ELSE Larger(needed + slop, MAXHINCR)

Expanded(grown, needed) == IF grown.result THEN grown ELSE GC_expand_hp_inner(grown.h, needed)

\* The heap grows; if it cannot, a collection that no one stops is the last
\* resort, unless there was one or they have failed too often.
Expanding ==
  /\ In("GC_collect_or_expand")
  /\ \/ At("deciding") /\ ~CollectionDue
     \/ At("collected") /\ ~frame.got /\ frame.retry
  /\ \E grown \in {Expanded(GC_expand_hp_inner(Decided, BlocksToGet(frame.needed, frame.ignore_off_page)),
                            frame.needed)} :
       IF grown.result THEN Return(grown.h, TRUE)
       ELSE IF At("collected") THEN Goto(Decided, <<Try(FALSE), [frame EXCEPT !.pc = "resorted"]>>)
       ELSE IF h.fail_count < h.max_retries
       THEN Goto([Decided EXCEPT !.fail_count = @ + 1], <<Try(FALSE), [frame EXCEPT !.pc = "resorted"]>>)
       ELSE Return([Decided EXCEPT !.fail_count = @ + 1], FALSE)

Resorted ==
  /\ In("GC_collect_or_expand") /\ At("resorted")
  /\ Return(h, TRUE)

-----------------------------------------------------------------------------
\* GC_allocobj: TRUE when the free list of the size is not empty.
TRUE_INCREMENTAL == h.incremental /\ h.time_limit

Empty(g) == g.freelist[frame.kind][frame.gran] = NULL

AllocobjDone ==
  /\ In("GC_allocobj") /\ At("sharing") /\ ~Empty(h)
  /\ Return([h EXCEPT !.fail_count = 0], TRUE)

AllocobjShare ==
  /\ In("GC_allocobj") /\ At("sharing") /\ Empty(h) /\ TRUE_INCREMENTAL
  /\ Goto(h, <<Little(1), [frame EXCEPT !.pc = "sweeping"]>>)

Refilled(g, gran, kind) ==
  IF g.freelist[kind][gran] # NULL THEN g ELSE GC_new_hblk(g, gran, kind)

\* Waiting blocks, a new block, a collection that may be put off, a larger heap.
AllocobjSweep ==
  /\ In("GC_allocobj")
  /\ At("sweeping") \/ (At("sharing") /\ Empty(h) /\ ~TRUE_INCREMENTAL)
  /\ \E g \in {Refilled(GC_continue_reclaim(h, frame.gran, frame.kind), frame.gran, frame.kind)} :
       IF ~Empty(g) THEN Return([g EXCEPT !.fail_count = 0], TRUE)
       ELSE IF h.incremental /\ ~h.time_limit /\ ~frame.minor
       THEN Goto(g, <<Little(1), [frame EXCEPT !.pc = "sharing", !.minor = TRUE]>>)
       ELSE Goto(g, <<CollectOrExpand(1, FALSE, frame.retry), [frame EXCEPT !.pc = "growing"]>>)

AllocobjGrown ==
  /\ In("GC_allocobj") /\ At("growing")
  /\ IF frame.got THEN Goto(h, <<[frame EXCEPT !.pc = "sharing", !.retry = TRUE]>>)
     ELSE Return(h, FALSE)

-----------------------------------------------------------------------------
\* GC_alloc_large: the address of the object, or NULL.
LargeShare ==
  /\ In("GC_alloc_large") /\ At("sharing") /\ h.incremental /\ ~h.dont_gc
  /\ Goto(h, <<Little(OBJ_SZ_TO_BLOCKS(frame.lb)), [frame EXCEPT !.pc = "searching"]>>)

Allocated(g) == GC_allochblk(g, frame.lb, frame.kind, frame.flags)
Merged(found) ==
  IF found.result = NULL /\ h.USE_MUNMAP THEN Allocated(GC_merge_unmapped(found.h)) ELSE found

LargeSearch ==
  /\ In("GC_alloc_large")
  /\ \/ At("searching")
     \/ At("sharing") /\ ~(h.incremental /\ ~h.dont_gc)
     \/ At("growing") /\ frame.got
  /\ \E found \in {Allocated(h)} :
       \E block \in {IF At("growing") THEN found ELSE Merged(found)} :
         LET n_blocks == OBJ_SZ_TO_BLOCKS(frame.lb)
         IN  IF block.result # NULL
             THEN Return(Counted(block.h, n_blocks), block.result * HBLKSIZE)
             ELSE Goto(block.h, <<CollectOrExpand(n_blocks, frame.flags # {}, At("growing")),
                                  [frame EXCEPT !.pc = "growing"]>>)

LargeFailed ==
  /\ In("GC_alloc_large") /\ At("growing") /\ ~frame.got
  /\ Return(h, NULL)

-----------------------------------------------------------------------------
\* GC_generic_malloc_inner and what follows GC_alloc_large in GC_generic_malloc.
SMALL_OBJ(gran) == gran <= MAXOBJGRANULES

\* The first object of a free list, its link cleared if `clear`.
Taken(g, kind, gran, clear) ==
  LET op    == g.freelist[kind][gran]
      taken == [g EXCEPT !.freelist[kind][gran] = obj_link(g, op), !.bytes_allocd = @ + gran]
  IN  IF clear THEN SetWord(taken, op, 0) ELSE taken

\* The blocks of a large object cleared, behind its end too, as GC_realloc may
\* lengthen it up to there.
Cleared(g, p, lb) ==
  Fill(Touch(g, HBLKPTR(p)..(HBLKPTR(p) + OBJ_SZ_TO_BLOCKS(lb) - 1)),
       p, OBJ_SZ_TO_BLOCKS(lb) * HBLKSIZE, 0)

GenericAsk ==
  /\ In("GC_generic_malloc_inner") /\ At("asking")
  /\ SMALL_OBJ(frame.gran) => Empty(h)
  /\ Goto(h, <<IF SMALL_OBJ(frame.gran) THEN Allocobj(frame.gran, frame.kind)
               ELSE AllocLarge(frame.gran, frame.kind, frame.flags),
               [frame EXCEPT !.pc = "served"]>>)

GenericSmall ==
  /\ In("GC_generic_malloc_inner") /\ SMALL_OBJ(frame.gran)
  /\ \/ At("asking") /\ ~Empty(h)
     \/ At("served") /\ frame.got
  /\ Return(Taken(h, frame.kind, frame.gran, TRUE), h.freelist[frame.kind][frame.gran])

GenericNone ==
  /\ In("GC_generic_malloc_inner") /\ At("served") /\ SMALL_OBJ(frame.gran) /\ ~frame.got
  /\ Return(h, NULL)

\* What was requested counts as allocated even if there was no memory for it.
GenericLarge ==
  /\ In("GC_generic_malloc_inner") /\ At("served") /\ ~SMALL_OBJ(frame.gran)
  /\ \E g \in {[h EXCEPT !.bytes_allocd = @ + frame.gran]} :
       Return(IF frame.got = NULL \/ ~ok_init(frame.kind) THEN g
              ELSE Cleared(g, frame.got, frame.gran), frame.got)

-----------------------------------------------------------------------------
\* GC_generic_malloc_many: a list of objects of gran granules, from a block that
\* waits for its sweep, the free list, a fresh block, or else a single object.
RECURSIVE ReclaimedList(_, _, _)
SweptOr(swept, gran, kind) ==
  IF swept.result = NULL THEN ReclaimedList(swept.h, gran, kind)
  ELSE [h |-> [swept.h EXCEPT !.bytes_found = @ + swept.count, !.bytes_allocd = @ + swept.count],
        result |-> swept.result]
ReclaimedList(g, gran, kind) ==
  IF g.reclaim_list[kind][gran] = <<>> THEN [h |-> g, result |-> NULL]
  ELSE LET b == Head(g.reclaim_list[kind][gran])
       IN  SweptOr(GC_reclaim_generic([g EXCEPT !.reclaim_list[kind][gran] = Tail(@),
                                                !.hdr[b].last_reclaimed = g.gc_no % USHORT],
                                      b, ok_init(kind), NULL), gran, kind)

\* As many as fill a block, if there are.
TakePrefix(g, gran, kind, list) ==
  LET n == (HBLKSIZE + gran - 1) \div gran
  IN  IF Len(list) < n
      THEN [g EXCEPT !.freelist[kind][gran] = NULL, !.bytes_allocd = @ + gran * Len(list)]
      ELSE SetWord([g EXCEPT !.freelist[kind][gran] = obj_link(g, list[n]),
                             !.bytes_allocd = @ + gran * n], list[n], 0)

ManyShare ==
  /\ In("GC_generic_malloc_many") /\ At("sharing")
  /\ SMALL_OBJ(frame.gran) /\ h.incremental /\ ~h.dont_gc
  /\ Goto(h, <<Little(1), [frame EXCEPT !.pc = "searching"]>>)

Single(g) == Goto(g, <<Generic(frame.gran, frame.kind, {}), [frame EXCEPT !.pc = "single"]>>)

FromNewBlock(block) ==
  IF block.result = NULL THEN Single(block.h)
  ELSE \E list \in {NewObjects([block.h EXCEPT !.bytes_allocd =
                                   @ + HBLKSIZE - (HBLKSIZE % frame.gran)],
                               block.result, frame.gran, frame.kind, NULL)} :
         Return(list.h, list.result)

ManySearch ==
  /\ In("GC_generic_malloc_many") /\ SMALL_OBJ(frame.gran)
  /\ At("searching") \/ (At("sharing") /\ ~(h.incremental /\ ~h.dont_gc))
  /\ \E swept \in {ReclaimedList(h, frame.gran, frame.kind)} :
       LET first == swept.h.freelist[frame.kind][frame.gran]
       IN  IF swept.result # NULL THEN Return(swept.h, swept.result)
           ELSE IF first # NULL
           THEN Return(TakePrefix(swept.h, frame.gran, frame.kind, ListFrom(swept.h, first)), first)
           ELSE \E block \in {GC_allochblk(swept.h, frame.gran, frame.kind, {})} :
                  FromNewBlock(block)

ManyLarge ==
  /\ In("GC_generic_malloc_many") /\ At("sharing") /\ ~SMALL_OBJ(frame.gran)
  /\ Single(h)

ManySingle ==
  /\ In("GC_generic_malloc_many") /\ At("single")
  /\ Return(IF frame.got = NULL THEN h ELSE SetWord(h, frame.got, 0), frame.got)

-----------------------------------------------------------------------------
\* A step of the allocator or the collector on behalf of the program.
Serving ==
  \/ CollectALittleInner
  \/ NotCollecting \/ Asking \/ Finishing \/ StoppedFinishing \/ CollectFully
  \/ CollectRather \/ CollectedRather \/ Expanding \/ Resorted
  \/ AllocobjDone \/ AllocobjShare \/ AllocobjSweep \/ AllocobjGrown
  \/ LargeShare \/ LargeSearch \/ LargeFailed
  \/ GenericAsk \/ GenericSmall \/ GenericNone \/ GenericLarge
  \/ ManyShare \/ ManySearch \/ ManyLarge \/ ManySingle
=============================================================================
