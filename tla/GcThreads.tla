------------------------------ MODULE GcThreads ------------------------------
(***************************************************************************)
(* The collector in a program of several threads (pthread_support.c,       *)
(* thread_local_alloc.c and what they call): threads that start, end, are  *)
(* joined and detached, come from outside, block and fork, and allocate    *)
(* from lists of their own, while any of them may collect.                 *)
(*                                                                         *)
(* What runs under GC_allocate_ml without waiting is one step, taken when  *)
(* the lock is free; `lock' says who keeps it between two steps.  Objects  *)
(* are of one size and kind; a free list is the set of its objects.        *)
(***************************************************************************)
EXTENDS GcParallelMark

CONSTANTS
  Menus      \* programs: their heap, how they start and what they may do

ASSUME Nobody == NULL \notin Threads

\* Main is there from the start.
ASSUME Programs ==
  \A m \in Menus :
    /\ m.registered \in Seq(Threads) /\ IsInjective(m.registered)
    /\ "Main" \in ToSet(m.registered)
    /\ m.at \in {"none", "outside"}

\* The blocks share no objects, and what objects point to are objects.
ASSUME Heaps ==
  \A m \in Menus :
    LET objects == UNION m.blocks
    IN  /\ objects \in SUBSET Nat /\ IsFiniteSet(objects) /\ NULL \notin objects
        /\ {} \notin m.blocks /\ \A b, c \in m.blocks : b # c => b \cap c = {}
        /\ m.points \in [objects -> SUBSET objects] /\ m.held \in SUBSET objects
        /\ m.helpers \in SUBSET Helpers

VARIABLES
  lock,      \* NULL or the thread that holds GC_allocate_ml
  menu

vars == <<th, table, stop, gc, mark_lock, heap, pm, lock, menu>>

Objects == UNION menu.blocks
May(t, op) == op \in menu.ops[t]
CanRun(t) == InHandler(t, "none") /\ ~gc.aborted
In(t, pc) == th[t].pc = pc /\ CanRun(t)
GetsLock(t) == lock \in {NULL, t}
Became(t, r) == th' = [th EXCEPT ![t] = r]
With(t, pc) == [th[t] EXCEPT !.pc = pc]
Own(t) == EntryOf(table, t)

\* A thread: `of' is the one it creates, joins or detaches, `entry' whose entry
\* it found, `saved' what it held when it blocked, `build' a list being built.
Thread(pc, id) ==
  [pc |-> pc, id |-> id, held |-> {}, obj |-> NULL, of |-> NULL, entry |-> NULL, saved |-> {},
   build |-> {}, active |-> FALSE, joinable |-> TRUE, unregisters |-> FALSE, result |-> NULL]

\* GC_init_thread_local.
InitLocal(p) == [p EXCEPT !.tlfs = [counting |-> TRUE, list |-> {}]]

InitTable(m) ==
  [k \in DOMAIN m.registered |->
     [Entry(m.registered[k], m.registered[k]) EXCEPT
        !.flags = IF m.registered[k] = "Main" THEN {DETACHED, MAIN_THREAD} ELSE {}]]

\* What `from' leads to.
Reached(points, from) ==
  LET after[n \in 0..Cardinality(Objects)] ==
        IF n = 0 THEN from ELSE after[n - 1] \cup UNION {points[o] : o \in after[n - 1]}
  IN  after[Cardinality(Objects)]

Reclaimable(marked) == {b \in menu.blocks : ~(b \subseteq marked)}

Init ==
  /\ menu \in Menus
  /\ th = [t \in Threads |->
             [Thread(IF t \in ToSet(menu.registered) THEN "run" ELSE IF t \in menu.others THEN menu.at ELSE "gone", t)
                EXCEPT !.held = IF t = "Main" THEN menu.held ELSE {}]]
  /\ table = InitTable(menu)
  /\ StopInit /\ MarkInit(menu.helpers) /\ lock = NULL /\ mark_lock = NULL
  /\ gc = [by |-> NULL, phase |-> "none", next |-> 1, n_live |-> 0, then |-> NULL, builders |-> 0,
           asleep |-> {}, in_creation |-> FALSE, aborted |-> FALSE]
  /\ heap = [free |-> {}, reclaimable |-> Reclaimable(Reached(menu.points, menu.held)),
             marked |-> Reached(menu.points, menu.held), points |-> menu.points]

-----------------------------------------------------------------------------
\* A collection by thread t, which holds the lock from here to the end.  The
\* bound menu.stops stands for collections that are not due.
StartGC(t, then, in_creation) ==
  /\ lock' = t
  /\ gc' = [gc EXCEPT !.by = t, !.phase = "wait_for_reclaim", !.then = then, !.in_creation = in_creation]
  /\ Became(t, With(t, "collect"))
Due == stop.count < menu.stops

\* GC_wait_for_reclaim for thread t: no list is being built, or t sleeps.
NoBuilders == gc.builders = 0
WaitForReclaim(t, next) ==
  /\ MarkLockFree /\ t \notin gc.asleep
  /\ gc' = IF NoBuilders THEN next ELSE [gc EXCEPT !.asleep = @ \cup {t}]
WaitBeforeMarking ==
  /\ Phase("wait_for_reclaim")
  /\ IF pm.parallel THEN WaitForReclaim(gc.by, [gc EXCEPT !.phase = "clear"]) ELSE gc' = [gc EXCEPT !.phase = "clear"]
  /\ UNCHANGED <<th, table, stop, mark_lock, heap, pm, lock>>

GC_clear_marks ==
  /\ Phase("clear")
  /\ heap' = [heap EXCEPT !.marked = {}]
  /\ gc' = [gc EXCEPT !.phase = "stop"]
  /\ UNCHANGED <<th, table, stop, mark_lock, pm, lock>>

GC_stop_world ==
  \/ /\ Phase("stop") /\ MarkLockFree
     /\ BeginStop
     /\ mark_lock' = IF pm.parallel THEN gc.by ELSE NULL
     /\ UNCHANGED <<th, table, heap, pm, lock>>
  \/ (GC_suspend_all \/ AwaitAnswer) /\ UNCHANGED <<th, table, mark_lock, heap, pm, lock>>

\* GC_push_all_stacks, GC_push_thread_structures and
\* GC_mark_thread_local_free_lists: what the collector takes for in use.
OnStack(k) == IF table[k].id = th[gc.by].id THEN Stack(gc.by) ELSE table[k].stack
Roots == (UNION {OnStack(k) : k \in Unfinished(table)}) \cup ({table[k].status : k \in DOMAIN table} \ {NULL})
ListMarks == UNION {table[k].tlfs.list : k \in Unfinished(table)}
FoundMe == \E k \in Unfinished(table) : table[k].id = th[gc.by].id

\* The mark stack is filled for the markers, or, if it is too small, left to be
\* filled from what is marked.
Filled(p, entries) ==
  IF Cardinality(entries) > p.size THEN Goto([p EXCEPT !.stack = <<>>, !.invalid = TRUE], COLLECTOR, "marked")
  ELSE Goto([p EXCEPT !.stack = SetToSeq(entries), !.invalid = FALSE], COLLECTOR, "begin")

Mark ==
  /\ AllAnswered
  /\ mark_lock' = NULL
  /\ IF ~FoundMe /\ ~gc.in_creation
       THEN gc' = [gc EXCEPT !.aborted = TRUE] /\ UNCHANGED <<heap, pm>>
     ELSE IF pm.parallel
       THEN /\ heap' = [heap EXCEPT !.marked = Roots \cup ListMarks]
            /\ pm' = Filled(pm, Roots)
            /\ gc' = [gc EXCEPT !.phase = "mark"]
       ELSE /\ heap' = [heap EXCEPT !.marked = Reached(heap.points, Roots) \cup ListMarks]
            /\ gc' = [gc EXCEPT !.phase = "start"]
            /\ UNCHANGED pm
  /\ UNCHANGED <<th, table, stop, lock>>

\* The case MS_ROOTS_PUSHED of GC_mark_some, and MS_INVALID after it: the stack
\* is doubled and filled with what the marked objects point to.
AfterParallelMark ==
  LET again == UNION {Unmarked(o) : o \in heap.marked}
      empty == [pm EXCEPT !.stack = <<>>, !.m[COLLECTOR] = Marker("off")]
  IN  /\ Phase("mark") /\ At(COLLECTOR, "marked")
      /\ IF pm.invalid
           THEN /\ pm' = Filled([empty EXCEPT !.size = 2 * @], again)
                /\ heap' = [heap EXCEPT !.marked = @ \cup again]
                /\ UNCHANGED gc
           ELSE pm' = empty /\ gc' = [gc EXCEPT !.phase = "start"] /\ UNCHANGED heap
      /\ UNCHANGED <<th, table, stop, mark_lock, lock>>

StartWorld ==
  /\ BeginStart \/ GC_start_world
  /\ UNCHANGED <<th, table, mark_lock, heap, pm, lock>>

\* GC_finish_collection: the free lists are dropped and every block with a
\* garbage object waits to be swept.
GC_finish_collection ==
  /\ AllRestarted
  /\ heap' = [heap EXCEPT !.free = {}, !.reclaimable = Reclaimable(heap.marked)]
  /\ gc' = [gc EXCEPT !.by = NULL, !.phase = "none", !.in_creation = FALSE]
  /\ Became(gc.by, With(gc.by, gc.then))
  /\ lock' = IF gc.then = "run" THEN NULL ELSE lock
  /\ UNCHANGED <<table, stop, mark_lock, pm>>

Collecting ==
  /\ gc.phase # "none" /\ CanRun(gc.by)
  /\ \/ WaitBeforeMarking \/ GC_clear_marks \/ GC_stop_world \/ Mark \/ AfterParallelMark \/ StartWorld
     \/ GC_finish_collection
Marking(i) ==
  /\ Phase("mark") \/ At(i, "help") \/ At(i, "done")
  /\ MarkerStep(i)
  /\ UNCHANGED <<th, table, stop, gc, mark_lock, lock>>
Signal(t) == GC_suspend_handler(t) /\ UNCHANGED <<th, gc, mark_lock, heap, pm, lock>>
UserSignal(t) == May(t, "disturb") /\ Disturbed(t) /\ UNCHANGED <<th, gc, mark_lock, heap, pm, lock>>

-----------------------------------------------------------------------------
\* Allocation.  GC_FAST_MALLOC_GRANS: the head of the thread's list is read ...
ReadHead(t) ==
  IF table[Own(t)].tlfs.list # {}
    THEN Became(t, [With(t, "take") EXCEPT !.obj = Min(table[Own(t)].tlfs.list)])
    ELSE Became(t, With(t, "run"))
GC_malloc(t) ==
  /\ May(t, "malloc") /\ In(t, "run") /\ Cardinality(th[t].held) < menu.most
  /\ IF table[Own(t)].tlfs.counting
       THEN /\ table' = [table EXCEPT ![Own(t)].tlfs.counting = FALSE]
            /\ Became(t, With(t, "core"))
       ELSE /\ UNCHANGED table
            /\ IF table[Own(t)].tlfs.list = {} THEN Became(t, With(t, "many")) ELSE ReadHead(t)
  /\ UNCHANGED <<stop, gc, mark_lock, heap, pm, lock>>

\* ... and then replaced.
TakeHead(t) ==
  /\ In(t, "take")
  /\ table' = [table EXCEPT ![Own(t)].tlfs.list = @ \ {th[t].obj}]
  /\ Became(t, [With(t, "run") EXCEPT !.held = @ \cup {th[t].obj}, !.obj = NULL])
  /\ UNCHANGED <<stop, gc, mark_lock, heap, pm, lock>>

\* GC_allocobj: the free list of the collector, filled if it is empty from a
\* block that waits to be swept, or from a new one.  A block without a marked
\* object is as good as new: it went back to the heap, to be given out last.
\* Where there is nothing, there is one collection, and then nothing.
Swept(b) == b \ heap.marked
Cleared(objects) == [o \in Objects |-> IF o \in objects THEN {} ELSE heap.points[o]]
ToSweep == {b \in heap.reclaimable : b \cap heap.marked # {}}
NextBlock ==
  LET from == IF ToSweep # {} THEN ToSweep ELSE heap.reclaimable
  IN  CHOOSE b \in from : \A c \in from : Min(b) <= Min(c)
Refills == heap.free = {} /\ heap.reclaimable # {}
GC_allocobj == IF Refills THEN Swept(NextBlock) ELSE heap.free
TakeObject ==
  heap' = [heap EXCEPT !.free = GC_allocobj \ {Min(GC_allocobj)},
                       !.reclaimable = IF Refills THEN @ \ {NextBlock} ELSE @,
                       !.points = IF Refills THEN Cleared(Swept(NextBlock)) ELSE @]

GC_core_malloc(t) ==
  /\ (In(t, "core") \/ In(t, "core_again")) /\ GetsLock(t)
  /\ IF GC_allocobj # {}
       THEN /\ TakeObject
            /\ Became(t, [With(t, "run") EXCEPT !.held = @ \cup {Min(GC_allocobj)}])
            /\ lock' = NULL /\ UNCHANGED gc
     ELSE IF In(t, "core") /\ Due THEN StartGC(t, "core_again", FALSE) /\ UNCHANGED heap
     ELSE Became(t, With(t, "run")) /\ lock' = NULL /\ UNCHANGED <<gc, heap>>
  /\ UNCHANGED <<table, stop, mark_lock, pm>>

\* GC_generic_malloc_many: a block to sweep; or all of the free list; or a new
\* block; or, after a collection, one object.  With parallel marking the lock is
\* given up before the list of a block is built.
ManyInOneGo(t, list) ==
  /\ table' = [table EXCEPT ![Own(t)].tlfs.list = list]
  /\ Became(t, With(t, "filled")) /\ lock' = NULL
FillFromBlock(t) ==
  /\ ToSweep # {} \/ (heap.free = {} /\ heap.reclaimable # {})
  /\ IF pm.parallel
       THEN /\ heap' = [heap EXCEPT !.reclaimable = @ \ {NextBlock}]
            /\ Became(t, [With(t, "join_builders") EXCEPT !.build = NextBlock]) /\ lock' = t /\ UNCHANGED table
       ELSE /\ heap' = [heap EXCEPT !.reclaimable = @ \ {NextBlock}, !.points = Cleared(Swept(NextBlock))]
            /\ ManyInOneGo(t, Swept(NextBlock))
  /\ UNCHANGED gc
FillFromFreeList(t) ==
  /\ ToSweep = {} /\ heap.free # {}
  /\ heap' = [heap EXCEPT !.free = {}]
  /\ ManyInOneGo(t, heap.free) /\ UNCHANGED gc
FillWithOne(t) ==
  IF GC_allocobj # {} THEN TakeObject /\ ManyInOneGo(t, {Min(GC_allocobj)}) /\ UNCHANGED gc
  ELSE IF In(t, "many") /\ Due THEN StartGC(t, "many_again", FALSE) /\ UNCHANGED <<table, heap>>
  ELSE Became(t, With(t, "run")) /\ lock' = NULL /\ UNCHANGED <<table, gc, heap>>
GC_generic_malloc_many(t) ==
  /\ GetsLock(t)
  /\ \/ In(t, "many") /\ (FillFromBlock(t) \/ FillFromFreeList(t))
     \/ In(t, "many") /\ heap.free = {} /\ heap.reclaimable = {} /\ FillWithOne(t)
     \/ In(t, "many_again") /\ FillWithOne(t)
  /\ UNCHANGED <<stop, mark_lock, pm>>

JoinBuilders(t) ==
  /\ In(t, "join_builders") /\ MarkLockFree
  /\ gc' = [gc EXCEPT !.builders = @ + 1]
  /\ lock' = NULL
  /\ Became(t, With(t, "sweep"))
  /\ UNCHANGED <<table, stop, mark_lock, heap, pm>>

\* GC_reclaim_generic reads the mark bits of the block, and clears the objects
\* not marked, without a lock.
SweepBlock(t) ==
  /\ In(t, "sweep")
  /\ Became(t, [With(t, "store_list") EXCEPT !.build = Swept(@)])
  /\ heap' = [heap EXCEPT !.points = Cleared(Swept(th[t].build))]
  /\ UNCHANGED <<table, stop, gc, mark_lock, pm, lock>>
StoreList(t) ==
  /\ In(t, "store_list")
  /\ table' = [table EXCEPT ![Own(t)].tlfs.list = th[t].build]
  /\ Became(t, [With(t, "leave_builders") EXCEPT !.build = {}])
  /\ UNCHANGED <<stop, gc, mark_lock, heap, pm, lock>>
LeaveBuilders(t) ==
  /\ In(t, "leave_builders") /\ MarkLockFree
  /\ gc' = [gc EXCEPT !.builders = @ - 1, !.asleep = IF gc.builders = 1 THEN {} ELSE @]
  /\ Became(t, With(t, "filled"))
  /\ UNCHANGED <<table, stop, mark_lock, heap, pm, lock>>
TakeFilled(t) == In(t, "filled") /\ ReadHead(t) /\ UNCHANGED <<table, stop, gc, mark_lock, heap, pm, lock>>

Building(t) == JoinBuilders(t) \/ SweepBlock(t) \/ StoreList(t) \/ LeaveBuilders(t)
Allocating(t) ==
  GC_malloc(t) \/ TakeHead(t) \/ GC_core_malloc(t) \/ GC_generic_malloc_many(t) \/ TakeFilled(t)

Forget(t) ==
  /\ May(t, "forget") /\ In(t, "run")
  /\ \E o \in th[t].held : Became(t, [th[t] EXCEPT !.held = @ \ {o}])
  /\ UNCHANGED <<table, stop, gc, mark_lock, heap, pm, lock>>

GC_gcollect(t) ==
  /\ May(t, "gcollect") /\ In(t, "run") /\ lock = NULL /\ Due
  /\ StartGC(t, "run", FALSE)
  /\ UNCHANGED <<table, stop, mark_lock, heap, pm>>

-----------------------------------------------------------------------------
\* Threads begin.  The id of a thread that is gone may be used again, even while
\* the collector has an entry for it.  That is left out for the threads that
\* register themselves or fork, which would take that entry for their own.
KeepsId(t) == May(t, "register") \/ May(t, "fork")
FreeIds(t) ==
  {id \in menu.ids : /\ \A u \in Threads : th[u].id = id => ~Alive(u)
                     /\ KeepsId(t) => \A k \in DOMAIN table : table[k].id # id}

\* pthread_create: the new thread finds its argument in a structure that its
\* creator holds until the semaphore `registered' is posted.
GC_pthread_create(t) ==
  /\ In(t, "run")
  /\ \E n \in Threads, arg \in th[t].held \cup {NULL}, detached \in BOOLEAN :
       /\ th[n].pc = "none" /\ May(t, IF detached THEN "create_detached" ELSE "create")
       /\ \E id \in FreeIds(n) :
            th' = [th EXCEPT ![t] = [@ EXCEPT !.pc = "created", !.of = n, !.obj = arg],
                             ![n] = [Thread("start", id) EXCEPT !.result = arg, !.joinable = ~detached]]
  /\ UNCHANGED <<table, stop, gc, mark_lock, heap, pm, lock>>

InCreation == TRUE  \* GC_in_thread_creation while an entry is allocated

\* GC_register_my_thread_inner, and the flags and the lists of its callers.  The
\* entry is allocated by a thread that the collector does not know yet, and
\* there may be a collection first.  Nobody joins a thread that was created
\* detached, and of one that registers itself the collector takes no note either.
NewFlags(t) == IF th[t].joinable /\ ~th[t].unregisters THEN {} ELSE {DETACHED}
RegisterNew(t) ==
  /\ table' = [GC_new_thread(table, t, th[t].id) EXCEPT ![1] = InitLocal([@ EXCEPT !.flags = NewFlags(t)])]
  /\ Became(t, IF th[t].unregisters THEN With(t, "run")
               ELSE [With(t, "run") EXCEPT !.held = {th[t].result} \ {NULL}, !.result = NULL])
  /\ lock' = NULL /\ UNCHANGED gc
GC_register_my_thread_inner(t) ==
  \/ Due /\ StartGC(t, "start_again", InCreation) /\ UNCHANGED table
  \/ RegisterNew(t)

GC_start_rtn_prepare_thread(t) ==
  /\ In(t, "start") /\ lock = NULL
  /\ GC_register_my_thread_inner(t)
  /\ UNCHANGED <<stop, mark_lock, heap, pm>>
HasCollected(t) ==
  /\ In(t, "start_again")
  /\ RegisterNew(t)
  /\ UNCHANGED <<stop, mark_lock, heap, pm>>

\* The creator goes on when the new thread is registered.
Registered(t) ==
  /\ In(t, "created") /\ th[th[t].of].pc \notin {"start", "start_again", "collect"}
  /\ Became(t, [With(t, "run") EXCEPT !.of = NULL, !.obj = NULL])
  /\ UNCHANGED <<table, stop, gc, mark_lock, heap, pm, lock>>

\* A thread that pthread_create did not make.
Appear(t) ==
  /\ May(t, "register") /\ In(t, "outside")
  /\ \E id \in FreeIds(t) :
       Became(t, [Thread("register", id) EXCEPT !.unregisters = TRUE, !.joinable = FALSE])
  /\ UNCHANGED <<table, stop, gc, mark_lock, heap, pm, lock>>

\* It registers itself, and so may, in a key destructor, a thread that is ending,
\* which then finds its entry again, unless that was deleted.
GC_register_my_thread(t) ==
  LET k == GC_lookup_thread(table, th[t].id)
  IN  /\ May(t, "register") /\ lock = NULL
      /\ In(t, "register") \/ In(t, "ending")
      /\ \/ k = 0 /\ GC_register_my_thread_inner(t)
         \/ /\ k # 0 /\ FINISHED \in table[k].flags
            /\ table' = [table EXCEPT ![k] = InitLocal([table[k] EXCEPT !.flags = @ \ {FINISHED}])]
            /\ Became(t, With(t, "run"))
            /\ UNCHANGED <<gc, lock>>
      /\ UNCHANGED <<stop, mark_lock, heap, pm>>

-----------------------------------------------------------------------------
\* Threads end.  The result is put where the collector finds it.
Return(t) ==
  /\ May(t, "return") /\ In(t, "run") /\ t # "Main" /\ ~th[t].unregisters /\ ~th[t].active
  /\ \E result \in th[t].held \cup {NULL} :
       /\ table' = [table EXCEPT ![Own(t)].status = result]
       /\ Became(t, [With(t, "exit") EXCEPT !.held = {}, !.result = result])
  /\ UNCHANGED <<stop, gc, mark_lock, heap, pm, lock>>

\* GC_unregister_my_thread_inner: the lists go back, and the entry stays for
\* the thread that joins this one.  If the thread gets another, it does so by
\* itself.
GC_destroy_thread_local(k) == [heap EXCEPT !.free = @ \cup table[k].tlfs.list]
GC_unregister_my_thread_inner(t) ==
  LET k == Own(t)
  IN  /\ heap' = GC_destroy_thread_local(k)
      /\ table' = IF DETACHED \in table[k].flags THEN GC_delete_thread(table, th[t].id)
                  ELSE [table EXCEPT ![k].flags = @ \cup {FINISHED}, ![k].tlfs.list = {}]
      /\ Became(t, [With(t, "ending") EXCEPT !.held = {}, !.unregisters = TRUE])
      /\ UNCHANGED <<stop, gc, mark_lock, pm, lock>>
GC_thread_exit_proc(t) == In(t, "exit") /\ lock = NULL /\ GC_unregister_my_thread_inner(t)
GC_unregister_my_thread(t) ==
  In(t, "run") /\ th[t].unregisters /\ ~th[t].active /\ lock = NULL /\ GC_unregister_my_thread_inner(t)
EndThread(t) ==
  /\ In(t, "ending")
  /\ Became(t, With(t, IF th[t].joinable THEN "dead" ELSE "gone"))
  /\ UNCHANGED <<table, stop, gc, mark_lock, heap, pm, lock>>

\* pthread_join and pthread_detach: the entry is looked up by id before the
\* call of the thread library, after which the id may be in use again.
LookUp(t, pc) ==
  /\ In(t, "run") /\ lock = NULL
  /\ \E u \in Threads \ {t} :
       /\ Alive(u) /\ th[u].joinable /\ GC_lookup_thread(table, th[u].id) # 0
       /\ \A v \in Threads : th[v].of # u
       /\ Became(t, [With(t, pc) EXCEPT !.of = u, !.entry = table[GC_lookup_thread(table, th[u].id)].of])
  /\ UNCHANGED <<table, stop, gc, mark_lock, heap, pm, lock>>

GC_pthread_join(t) ==
  \/ May(t, "join") /\ LookUp(t, "join")
  \/ /\ In(t, "join") /\ th[th[t].of].pc = "dead"
     /\ th' = [th EXCEPT ![t] = [With(t, "joined") EXCEPT !.of = NULL, !.held = @ \cup ({th[th[t].of].result} \ {NULL})],
                         ![th[t].of] = Thread("gone", th[th[t].of].id)]
     /\ UNCHANGED <<table, stop, gc, mark_lock, heap, pm, lock>>
  \/ /\ In(t, "joined") /\ lock = NULL
     /\ table' = GC_delete_gc_thread(table, th[t].entry)
     /\ Became(t, [With(t, "run") EXCEPT !.entry = NULL])
     /\ UNCHANGED <<stop, gc, mark_lock, heap, pm, lock>>

GC_pthread_detach(t) ==
  \/ May(t, "detach") /\ LookUp(t, "detach")
  \/ /\ In(t, "detach")
     /\ th' = [th EXCEPT ![t] = [With(t, "detached") EXCEPT !.of = NULL],
                         ![th[t].of].joinable = FALSE, ![th[t].of].pc = IF @ = "dead" THEN "gone" ELSE @]
     /\ UNCHANGED <<table, stop, gc, mark_lock, heap, pm, lock>>
  \/ LET k == EntryOf(table, th[t].entry)
     IN  /\ In(t, "detached") /\ lock = NULL
         /\ table' = IF FINISHED \in table[k].flags THEN GC_delete_gc_thread(table, th[t].entry)
                     ELSE [table EXCEPT ![k].flags = @ \cup {DETACHED}]
         /\ Became(t, [With(t, "run") EXCEPT !.entry = NULL])
         /\ UNCHANGED <<stop, gc, mark_lock, heap, pm, lock>>

-----------------------------------------------------------------------------
\* GC_do_blocking: until the function returns, the thread neither is stopped
\* nor touches the heap; the collector scans the stack as it was.
GC_do_blocking(t) ==
  /\ May(t, "block") /\ In(t, "run") /\ ~th[t].active /\ lock = NULL
  /\ table' = [table EXCEPT ![Mine(t)].stack = Stack(t), ![Mine(t)].thread_blocked = TRUE]
  /\ Became(t, [With(t, "blocked") EXCEPT !.saved = th[t].held])
  /\ UNCHANGED <<stop, gc, mark_lock, heap, pm, lock>>
Unblocked(t, active) ==
  /\ table' = [table EXCEPT ![Mine(t)].thread_blocked = FALSE]
  /\ Became(t, [With(t, "run") EXCEPT !.active = active])
  /\ UNCHANGED <<stop, gc, mark_lock, heap, pm, lock>>
EndBlocking_NoLock(t) == In(t, "blocked") /\ Unblocked(t, FALSE)
EndBlocking(t) == In(t, "blocked") /\ lock = NULL /\ Unblocked(t, FALSE)

\* GC_call_with_gc_active, called from there: what the function finds is not
\* held any more when it has returned.
GC_call_with_gc_active(t) ==
  \/ May(t, "gc_active") /\ In(t, "blocked") /\ lock = NULL /\ Unblocked(t, TRUE)
  \/ /\ In(t, "run") /\ th[t].active /\ lock = NULL
     /\ table' = [table EXCEPT ![Mine(t)].stack = th[t].saved, ![Mine(t)].thread_blocked = TRUE]
     /\ Became(t, [With(t, "blocked") EXCEPT !.active = FALSE, !.held = th[t].saved])
     /\ UNCHANGED <<stop, gc, mark_lock, heap, pm, lock>>

\* fork: the locks are taken before, and released in both processes; the model
\* goes on in one of them.
PrepareFork(t) ==
  /\ May(t, "fork") /\ In(t, "run") /\ lock = NULL
  /\ lock' = t /\ Became(t, With(t, "prepare_fork"))
  /\ UNCHANGED <<table, stop, gc, mark_lock, heap, pm>>
fork_prepare_proc(t) ==
  /\ In(t, "prepare_fork")
  /\ \/ ~pm.parallel /\ UNCHANGED <<gc, mark_lock>> /\ Became(t, With(t, "fork"))
     \/ pm.parallel /\ NoBuilders /\ WaitForReclaim(t, gc) /\ mark_lock' = t /\ Became(t, With(t, "fork"))
     \/ pm.parallel /\ ~NoBuilders /\ WaitForReclaim(t, gc) /\ UNCHANGED <<mark_lock, th>>
  /\ UNCHANGED <<table, stop, heap, pm, lock>>
fork_parent_proc(t) ==
  /\ In(t, "fork")
  /\ mark_lock' = NULL /\ lock' = NULL /\ Became(t, With(t, "run"))
  /\ UNCHANGED <<table, stop, gc, heap, pm>>
fork_child_proc(t) ==
  LET dead == {k \in Unfinished(table) : table[k].id # th[t].id}
  IN  /\ In(t, "fork")
      /\ mark_lock' = NULL /\ lock' = NULL
      /\ table' = GC_remove_all_threads_but_me(table, th[t].id)
      /\ heap' = [heap EXCEPT !.free = @ \cup UNION {table[k].tlfs.list : k \in dead}]
      /\ pm' = [pm EXCEPT !.parallel = FALSE, !.m = [i \in Markers |-> Marker("off")], !.asleep = {}]
      /\ th' = [u \in Threads |-> IF u = t THEN With(t, "run") ELSE Thread("gone", u)]
      /\ stop' = [stop EXCEPT !.pending = [u \in Threads |-> {}],
                              !.handler = [u \in Threads |-> Outside]]
      /\ UNCHANGED gc

Fork(t) == PrepareFork(t) \/ fork_prepare_proc(t) \/ fork_parent_proc(t) \/ fork_child_proc(t)

-----------------------------------------------------------------------------
Living(t) ==
  \/ GC_pthread_create(t) \/ GC_start_rtn_prepare_thread(t) \/ HasCollected(t) \/ Registered(t)
  \/ Appear(t) \/ GC_register_my_thread(t)
  \/ Return(t) \/ GC_thread_exit_proc(t) \/ GC_unregister_my_thread(t) \/ EndThread(t)
  \/ GC_pthread_join(t) \/ GC_pthread_detach(t)
  \/ GC_do_blocking(t) \/ EndBlocking(t) \/ GC_call_with_gc_active(t) \/ Fork(t)

Program(t) == Allocating(t) \/ Building(t) \/ Forget(t) \/ GC_gcollect(t) \/ Living(t)

Next ==
  /\ \/ Collecting
     \/ \E i \in Markers : Marking(i)
     \/ \E t \in Threads : Signal(t) \/ UserSignal(t) \/ Program(t)
  /\ UNCHANGED menu

\* The scheduler runs every thread that can run: signals are delivered, the
\* collector and its helpers go on, and so does a thread that builds a list.
\* What the program does is its own affair.
Fairness ==
  /\ WF_vars(Collecting /\ UNCHANGED menu)
  /\ \A i \in Markers : WF_vars(Marking(i) /\ UNCHANGED menu)
  /\ \A t \in Threads : WF_vars(Signal(t) /\ UNCHANGED menu) /\ WF_vars(Building(t) /\ UNCHANGED menu)

Spec == Init /\ [][Next]_vars /\ Fairness

-----------------------------------------------------------------------------
\* The threads that may touch objects just now.
Touching(t) == th[t].pc \in {"run", "take", "sweep", "store_list", "filled", "joined"}

\* While the world is stopped, every thread that could touch an object is in
\* its signal handler and has answered, and the collector is not lost: it finds
\* its own entry whenever it should.
WorldIsStopped ==
  /\ ~gc.aborted
  /\ gc.phase \in {"mark", "start"} =>
       \A t \in Threads \ {gc.by} : Touching(t) => stop.handler[t].pc \notin {"none", "entered"}

\* What is given out next is garbage: no free list, no block still to be swept
\* and no thread's own list has an object that some thread holds, that is the
\* result of a thread not joined yet, or that such an object leads to, and no
\* object is in two of them.
Held == (UNION {th[t].held : t \in Threads}) \cup ({th[t].result : t \in {u \in Threads : th[u].joinable}} \ {NULL})
InUse == Reached(heap.points, Held)
Waiting == UNION {Swept(b) : b \in heap.reclaimable}
Local == [t \in Threads |-> IF Own(t) # 0 THEN table[Own(t)].tlfs.list ELSE {}]
Built(t) == IF th[t].pc = "store_list" THEN th[t].build ELSE {}
Kept == UNION {Local[t] \cup Built(t) : t \in Threads}
Sweeping == gc.phase \in {"none", "wait_for_reclaim"}
HeldObjectsStay ==
  /\ (heap.free \cup Kept) \cap InUse = {}
  /\ heap.free \cap Kept = {}
  /\ \A t, u \in Threads : t # u => Local[t] \cap (Local[u] \cup Built(u)) = {}
  /\ Sweeping => Waiting \cap (InUse \cup heap.free \cup Kept) = {}

\* When the markers agree that they are done, everything in reach is marked.
MarkingIsComplete ==
  gc.phase = "start" => Reached(heap.points, Roots) \subseteq heap.marked

\* However the signals fall and the markers wait for each other, there is always
\* a time again when no collection is going on and no thread is in its handler.
CollectionsEnd == []<>(gc.phase = "none" /\ \A t \in Threads : InHandler(t, "none"))
=============================================================================
