--------------------------- MODULE GcParallelMark ---------------------------
(***************************************************************************)
(* Marking in parallel (mark.c): while the world is stopped the collector  *)
(* and its helper threads take entries from one mark stack, mark from      *)
(* stacks of their own, put entries back when these get long or others     *)
(* have nothing to do, and agree on when all is done.  mark_lock and       *)
(* mark_cv are the only things they wait for.                              *)
(* Sizes are left out: GC_mark_from may stop after any entry.              *)
(***************************************************************************)
EXTENDS GcStopWorld

CONSTANTS
  Helpers,
  INITIAL_MARK_STACK_SIZE,
  LOCAL_MARK_STACK_SIZE,
  ENTRIES_TO_GET           \* so many and one more are taken at a time; 1 is what
                           \* GC_mark_local takes from a stack that is nearly empty

COLLECTOR == "collector"
ASSUME MarkThreads == IsFiniteSet(Helpers) /\ COLLECTOR \notin Helpers
Markers == {COLLECTOR} \cup Helpers

VARIABLES
  mark_lock,   \* NULL or the thread of the program that keeps it
  heap,        \* marks, what the objects point to, free lists (see GcThreads)
  pm           \* what the markers share, and each one's locals in pm.m

\* An entry of the mark stack is an object still to scan, or a descriptor of 0.
TAKEN == NULL

Marker(pc) ==
  [pc |-> pc, mark_no |-> 0, first |-> 1, top |-> 0, global |-> 1, got |-> 0,
   local |-> <<>>, entry |-> TAKEN, found |-> {}]

MarkInit(helpers) ==
  pm = [parallel |-> helpers # {}, mark_no |-> 0, help_wanted |-> FALSE, helper_count |-> 0,
        active_count |-> 0, stack |-> <<>>, first_nonempty |-> 1, size |-> INITIAL_MARK_STACK_SIZE, invalid |-> FALSE,
        markers_m1 |-> Cardinality(helpers), asleep |-> {},
        m |-> [i \in Markers |-> Marker(IF i \in helpers THEN "help" ELSE "off")]]

At(i, pc) == pm.m[i].pc = pc
MarkLockFree == mark_lock = NULL
Set(i, r) == [pm EXCEPT !.m[i] = r]
Goto(p, i, pc) == [p EXCEPT !.m[i].pc = pc]
\* pthread_cond_broadcast on mark_cv, and pthread_cond_wait.
GC_notify_all_marker(p) == [p EXCEPT !.asleep = {}]
GC_wait_marker(p, i, pc) == [p EXCEPT !.asleep = @ \cup {i}, !.m[i].pc = pc]
Awake(i) == i \notin pm.asleep

-----------------------------------------------------------------------------
\* GC_mark_local: the entries from one's own `first' on are still to be looked
\* at; nobody looks below GC_first_nonempty.
Join(i) ==
  /\ At(i, "join") /\ MarkLockFree
  /\ pm' = [Set(i, [pm.m[i] EXCEPT !.pc = "look", !.first = pm.first_nonempty]) EXCEPT !.active_count = @ + 1]
  /\ UNCHANGED heap

LookAtFirst(i) ==
  LET my == pm.m[i].first
      global == pm.first_nonempty
  IN  /\ At(i, "look")
      /\ pm' = Set(i, [pm.m[i] EXCEPT !.first = Max({my, global}), !.global = global,
                                      !.pc = IF global < my THEN "swap" ELSE "look_at_top"])
      /\ UNCHANGED heap

RaiseFirst(i) ==
  /\ At(i, "swap")
  /\ pm' = Goto([pm EXCEPT !.first_nonempty = IF @ = pm.m[i].global THEN pm.m[i].first ELSE @], i, "look_at_top")
  /\ UNCHANGED heap

LookAtTop(i) ==
  LET top == Len(pm.stack)
  IN  /\ At(i, "look_at_top")
      /\ pm' = Set(i, [pm.m[i] EXCEPT !.top = top, !.got = 0, !.local = <<>>,
                                      !.pc = IF top < pm.m[i].first THEN "idle" ELSE "steal"])
      /\ UNCHANGED heap

\* Nothing left: wait until there is, or until nobody is active.
NothingLeft(p) == p.first_nonempty > Len(p.stack)
Idle(p, i) ==
  IF p.active_count > 0 /\ NothingLeft(p) THEN GC_wait_marker(p, i, "asleep")
  ELSE IF p.active_count = 0 /\ NothingLeft(p)
    THEN LET q == Goto([p EXCEPT !.helper_count = @ - 1], i, "done")
         IN  IF q.helper_count = 0 THEN GC_notify_all_marker(q) ELSE q
    ELSE Goto([p EXCEPT !.active_count = @ + 1], i, "look")

\* The top is looked at again under the lock, for some may have been put back.
BecomeIdle(i) ==
  /\ At(i, "idle") /\ MarkLockFree
  /\ pm' = IF Len(pm.stack) >= pm.m[i].first
             THEN Set(i, [pm.m[i] EXCEPT !.top = Len(pm.stack), !.pc = "steal"])
             ELSE LET p == [pm EXCEPT !.active_count = @ - 1]
                  IN  Idle(IF p.active_count = 0 THEN GC_notify_all_marker(p) ELSE p, i)
  /\ UNCHANGED heap
WakeUp(i) ==
  /\ At(i, "asleep") /\ Awake(i) /\ MarkLockFree
  /\ pm' = Idle(pm, i)
  /\ UNCHANGED heap

\* GC_steal_mark_stack: the descriptor is read, and cleared in a second step, so
\* that two markers may get the same entry.
ReadEntry(i) ==
  LET me == pm.m[i]
      more == me.first <= me.top /\ me.got <= ENTRIES_TO_GET
  IN  /\ At(i, "steal")
      /\ pm' = Set(i, IF ~more THEN [me EXCEPT !.pc = "mark"]
                      ELSE IF pm.stack[me.first] = TAKEN THEN [me EXCEPT !.first = @ + 1]
                      ELSE [me EXCEPT !.pc = "clear", !.entry = pm.stack[me.first]])
      /\ UNCHANGED heap
ClearEntry(i) ==
  LET me == pm.m[i]
  IN  /\ At(i, "clear")
      /\ pm' = [Set(i, [me EXCEPT !.pc = "steal", !.first = @ + 1, !.got = @ + 1,
                                  !.local = Append(@, me.entry), !.entry = TAKEN])
                  EXCEPT !.stack[me.first] = TAKEN]
      /\ UNCHANGED heap

-----------------------------------------------------------------------------
\* GC_mark_from on the local stack: the unmarked objects that the topmost entry
\* points to are found, marked and pushed.
Unmarked(o) == heap.points[o] \ heap.marked
Scan(i) ==
  LET me == pm.m[i]
  IN  /\ At(i, "mark")
      /\ pm' = Set(i, IF me.local = <<>> THEN [me EXCEPT !.pc = "look"]
                      ELSE [me EXCEPT !.found = Unmarked(Last(me.local)), !.local = Front(@), !.pc = "push"])
      /\ UNCHANGED heap

\* What to do with a local stack that is not empty when GC_mark_from returns.
HalfFull(local) == 2 * (Len(local) - 1) >= LOCAL_MARK_STACK_SIZE
Shared(local) ==
  NothingLeft(pm) /\ pm.active_count < pm.helper_count /\ Len(local) > 2
AfterMarking(local) ==
  IF local = <<>> THEN {"look"}
  ELSE {"mark"} \cup (IF HalfFull(local) THEN {"return_all"} ELSE IF Shared(local) THEN {"return_half"} ELSE {})
Push(i) ==
  LET me == pm.m[i]
      local == me.local \o SetToSeq(me.found)
  IN  /\ At(i, "push")
      /\ heap' = [heap EXCEPT !.marked = @ \cup me.found]
      /\ \E pc \in AfterMarking(local) :
           pm' = Set(i, [me EXCEPT !.local = local, !.found = {}, !.pc = pc])

\* GC_return_mark_stack: entries without room are dropped, and the marking
\* must be done over from what is marked.
WithReturned_Dropped(p, entries) ==
  IF Len(p.stack) + Len(entries) > p.size THEN p ELSE [p EXCEPT !.stack = @ \o entries]
WithReturned(p, entries) ==
  IF Len(p.stack) + Len(entries) > p.size THEN [p EXCEPT !.invalid = TRUE]
                                          ELSE [p EXCEPT !.stack = @ \o entries]
GC_return_mark_stack(i) ==
  LET me == pm.m[i]
      n == IF At(i, "return_all") THEN Len(me.local) ELSE (Len(me.local) - 1) \div 2
      left == SubSeq(me.local, n + 1, Len(me.local))
  IN  /\ me.pc \in {"return_all", "return_half"} /\ MarkLockFree
      /\ pm' = GC_notify_all_marker(WithReturned(
                 Set(i, [me EXCEPT !.local = left, !.pc = IF left = <<>> THEN "look" ELSE "mark"]),
                 SubSeq(me.local, 1, n)))
      /\ UNCHANGED heap

GC_mark_local(i) ==
  \/ Join(i) \/ LookAtFirst(i) \/ RaiseFirst(i) \/ LookAtTop(i) \/ BecomeIdle(i) \/ WakeUp(i)
  \/ ReadEntry(i) \/ ClearEntry(i) \/ Scan(i) \/ Push(i) \/ GC_return_mark_stack(i)

-----------------------------------------------------------------------------
\* GC_do_parallel_mark, up to the collector's own marking and after it.
BeginParallelMark ==
  /\ At(COLLECTOR, "begin") /\ MarkLockFree
  /\ pm' = GC_notify_all_marker(Goto([pm EXCEPT !.first_nonempty = 1, !.active_count = 0, !.helper_count = 1,
                                                !.help_wanted = TRUE], COLLECTOR, "join"))
  /\ UNCHANGED heap
EndParallelMark ==
  LET p == [pm EXCEPT !.help_wanted = FALSE]
  IN  /\ At(COLLECTOR, "done") /\ Awake(COLLECTOR) /\ MarkLockFree
      /\ pm' = IF p.helper_count > 0 THEN GC_wait_marker(p, COLLECTOR, "done")
               ELSE GC_notify_all_marker(Goto([p EXCEPT !.mark_no = @ + 1], COLLECTOR, "marked"))
      /\ UNCHANGED heap

\* GC_help_marker, called for ever by GC_mark_thread with the next number.
NextMark(no) == IF no < pm.mark_no \/ no > pm.mark_no + 2 THEN pm.mark_no ELSE no
GC_help_marker(i) ==
  LET no == pm.m[i].mark_no
  IN  /\ At(i, "help") /\ Awake(i) /\ MarkLockFree
      /\ pm' = IF pm.mark_no < no \/ (~pm.help_wanted /\ pm.mark_no = no) THEN GC_wait_marker(pm, i, "help")
               ELSE IF pm.mark_no # no \/ pm.helper_count > pm.markers_m1
                 THEN Set(i, [pm.m[i] EXCEPT !.mark_no = NextMark(no + 1)])
                 ELSE Goto([pm EXCEPT !.helper_count = @ + 1], i, "join")
      /\ UNCHANGED heap
GC_mark_thread(i) ==
  /\ At(i, "done")
  /\ pm' = Set(i, [pm.m[i] EXCEPT !.pc = "help", !.mark_no = NextMark(@ + 1)])
  /\ UNCHANGED heap

MarkerStep(i) ==
  \/ GC_mark_local(i)
  \/ i = COLLECTOR /\ (BeginParallelMark \/ EndParallelMark)
  \/ i \in Helpers /\ (GC_help_marker(i) \/ GC_mark_thread(i))
=============================================================================
