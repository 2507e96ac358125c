------------------------------ MODULE GcCollect ------------------------------
(***************************************************************************)
(* alloc.c: collections, whole or a little at a time, and what is done for *)
(* an allocation that finds no memory.  A stop function is asked only if   *)
(* `stop` is TRUE, and then says yes when h.patience has come down to 0:   *)
(* it stands for the client's function and for the time limit.             *)
(***************************************************************************)
EXTENDS GcFinalize

CONSTANTS
  GC_RATE, MAX_PRIOR_ATTEMPTS, full_freq,
  FO_SURPLUS,          \* new finalizers that suggest a collection (500)
  BL_SLOP              \* blocks to spare for black-listed ones

InitialCollector ==
  [gc_no |-> 0, last_gc_no |-> 0, last_min_bytes_allocd |-> 0, deficit |-> 0, n_attempts |-> 0, n_partial_gcs |-> 0, is_full_gc |-> FALSE,
   need_full_gc |-> FALSE, used_heap_size_after_full |-> 0, fail_count |-> 0,
   last_fo_entries |-> 0, last_bytes_finalized |-> 0, patience |-> 0]

Asked(h, stop) == IF stop /\ h.patience > 0 THEN [h EXCEPT !.patience = @ - 1] ELSE h

-----------------------------------------------------------------------------
\* Marking with the world stopped, from step i on.
RECURSIVE MarkUntilDone(_, _, _), MarkOn(_, _, _)
MarkOn(some, stop, i) ==
  IF some.result \/ some.h.aborted THEN [h |-> [some.h EXCEPT !.gc_no = @ + 1], result |-> TRUE]
  ELSE MarkUntilDone(some.h, stop, i + 1)
MarkUntilDone(h, stop, i) ==
  IF stop /\ h.patience = 0 THEN [h |-> [h EXCEPT !.deficit = i], result |-> FALSE]
  ELSE MarkOn(GC_mark_some(Asked(h, stop)), stop, i)

GC_stopped_mark(h, stop) ==
  MarkUntilDone(GC_initiate_gc(GC_cond_register_dynamic_libraries(h)), stop, 0)

\* The free lists, whose objects may have been marked by false pointers.
FreeListed(h, k, g) == {p \in ToSet(ListFrom(h, h.freelist[k][g])) : p \in Addresses}

GC_set_fl_marks(h) ==
  LET listed == UNION {FreeListed(h, k, g) : k \in Kinds, g \in Granules}
  IN  FoldSet(LAMBDA p, f : GC_set_mark_bit(f, p), h, listed)

GC_clear_fl_marks(h) ==
  LET listed == UNION {FreeListed(h, k, g) : k \in Kinds, g \in Granules}
  IN  [FoldSet(LAMBDA p, f : GC_clear_mark_bit(f, p), h, listed)
         EXCEPT !.bytes_found = @ - MapThenSumSet(
            LAMBDA kg : kg[2] * Cardinality(FreeListed(h, kg[1], kg[2])), Kinds \X Granules)]

\* The counters for the next cycle.
Reset(h) ==
  LET used  == USED_HEAP_SIZE(h)
      grown == used - h.used_heap_size_after_full    \* unsigned: huge if negative
  IN  [h EXCEPT !.used_heap_size_after_full = IF h.is_full_gc THEN used ELSE @,
                !.need_full_gc = ~h.is_full_gc /\ grown \notin 0..min_bytes_allocd(h),
                !.n_attempts = 0, !.is_full_gc = FALSE,
                !.non_gc_bytes_at_gc = h.non_gc_bytes,
                !.bytes_allocd = 0, !.bytes_dropped = 0, !.bytes_freed = 0,
                !.finalizer_bytes_freed = 0]

Leaks(h) == IF h.find_leak THEN GC_start_reclaim(GC_set_fl_marks(h), TRUE) ELSE h
Unmapped(h) == IF h.USE_MUNMAP THEN GC_unmap_old(h) ELSE h

\* Finalization and the sweep.
GC_finish_collection(h) ==
  Unmapped(Reset(GC_start_reclaim(GC_clear_fl_marks(GC_finalize(
    Leaks([h EXCEPT !.bytes_found = 0]))), FALSE)))

-----------------------------------------------------------------------------
\* A collection that was not incremental cannot be gone on with.
Abandoned(h) ==
  IF h.incremental THEN h ELSE GC_unpromote_black_lists(GC_invalidate_mark_state(h))

FinishedFull(marked) ==
  IF marked.result THEN [h |-> GC_finish_collection(marked.h), result |-> TRUE]
  ELSE [h |-> Abandoned(marked.h), result |-> FALSE]

MarkedFull(swept, stop) ==
  IF ~swept.result THEN swept
  ELSE FinishedFull(GC_stopped_mark(
         [GC_clear_marks(GC_invalidate_mark_state(swept.h)) EXCEPT !.is_full_gc = TRUE], stop))

\* Full collections.
FullCollection(h, stop) ==
  LET promoted == GC_promote_black_lists(h)
  IN  MarkedFull(IF h.find_leak \/ stop THEN GC_reclaim_all(promoted, stop, FALSE)
                 ELSE [h |-> promoted, result |-> TRUE], stop)

\* A collection if it is due: with the world stopped, or begun so and left to
\* be gone on with.  Partial ones keep the marks.
FinishedPartly(marked) ==
  IF marked.result THEN GC_finish_collection(marked.h)
  ELSE [marked.h EXCEPT !.n_attempts = IF marked.h.is_full_gc THEN @ ELSE @ + 1]

Begun(h) ==
  IF h.need_full_gc \/ h.n_partial_gcs >= full_freq
  THEN [GC_clear_marks(GC_reclaim_all(GC_promote_black_lists(h), FALSE, TRUE).h)
          EXCEPT !.n_partial_gcs = 0, !.is_full_gc = TRUE]
  ELSE [h EXCEPT !.n_partial_gcs = @ + 1]

GC_maybe_gc(h) ==
  LET asked == Thresholded(h)
  IN  IF ~GC_should_collect(h) THEN asked
      ELSE IF h.incremental THEN FinishedPartly(GC_stopped_mark(Begun(asked), h.time_limit))
      ELSE IF h.dont_gc THEN asked
      ELSE [FullCollection(asked, FALSE).h EXCEPT !.n_partial_gcs = 0]

\* Marking goes on from step i; its end is made sure of with the world stopped.
EndOfMarking(again) ==
  IF again.result THEN GC_finish_collection(again.h) ELSE [again.h EXCEPT !.n_attempts = @ + 1]

RECURSIVE MarkSteps(_, _, _)
MarkSteps(some, i, steps) ==
  IF some.result
  THEN EndOfMarking(GC_stopped_mark(some.h, some.h.n_attempts < MAX_PRIOR_ATTEMPTS /\ some.h.time_limit))
  ELSE IF i >= steps \/ some.h.aborted THEN some.h
  ELSE MarkSteps(GC_mark_some(some.h), i + 1, steps)

GC_collect_a_little_inner(h, n) ==
  IF h.dont_gc THEN h
  ELSE IF h.incremental /\ GC_collection_in_progress(h)
       THEN [MarkSteps([h |-> h, result |-> FALSE], h.deficit, GC_RATE * n)
               EXCEPT !.deficit = Larger(@ - GC_RATE * n, 0)]
  ELSE GC_maybe_gc(h)
=============================================================================
