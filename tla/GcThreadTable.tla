--------------------------- MODULE GcThreadTable ---------------------------
(***************************************************************************)
(* GC_threads of pthread_support.c: what the collector knows of the        *)
(* threads.  The table is the list of one bucket, the newest entry first;  *)
(* the ids of the model all hash to it.  An id names at most one thread    *)
(* that runs, but an entry may outlive its thread, and then two have it.   *)
(***************************************************************************)
EXTENDS SequencesExt

CONSTANT NULL   \* no thread, no object

\* The flags of an entry.
FINISHED == "FINISHED"
DETACHED == "DETACHED"
MAIN_THREAD == "MAIN_THREAD"

\* An entry as GC_INTERNAL_MALLOC clears it; `of' tells entries with one id
\* apart as their addresses do.  `stack' is what lies between stack_ptr and
\* stack_end: the objects the thread held when stack_ptr was stored.  A list of
\* `tlfs' starts as a small counter; DIRECT_GRANULES is one object here.
Entry(t, id) ==
  [of |-> t, id |-> id, flags |-> {}, thread_blocked |-> FALSE,
   last_stop_count |-> 0, stack |-> {}, status |-> NULL,
   tlfs |-> [counting |-> FALSE, list |-> {}]]

GC_new_thread(table, t, id) == <<Entry(t, id)>> \o table

\* The entry looked for from the other end.
GC_lookup_thread_Oldest(table, id) == SelectLastInSeq(table, LAMBDA p : p.id = id)

\* The most recent entry with the id, or 0.
GC_lookup_thread(table, id) == SelectInSeq(table, LAMBDA p : p.id = id)

\* Where the entry of thread t is.
EntryOf(table, t) == SelectInSeq(table, LAMBDA p : p.of = t)

\* GC_delete_thread and GC_delete_gc_thread: the most recent entry with an id,
\* and one entry in particular.
GC_delete_thread(table, id) == RemoveAt(table, GC_lookup_thread(table, id))
GC_delete_gc_thread(table, t) == RemoveAt(table, EntryOf(table, t))

\* In the child of a fork: of the entries with the thread's id the LAST one of
\* the list stays.
GC_remove_all_threads_but_me(table, id) ==
  <<table[SelectLastInSeq(table, LAMBDA p : p.id = id)]>>

\* What the collector looks at: the entries not FINISHED.
Unfinished(table) == {k \in DOMAIN table : FINISHED \notin table[k].flags}
=============================================================================
