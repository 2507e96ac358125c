---------------------------- MODULE GcStopWorld ----------------------------
(***************************************************************************)
(* How the threads are stopped for a collection (pthread_stop_world.c):    *)
(* the collector sends each a signal and counts the answers; a thread      *)
(* answers from its signal handler and stays there until the world goes    *)
(* on.  Signals are delivered at any time, user signals too.               *)
(***************************************************************************)
EXTENDS GcThreadTable, Integers

CONSTANTS Threads

SUSPEND == "GC_sig_suspend"
RESTART == "GC_sig_thr_restart"

VARIABLES
  th,       \* the threads of the program: pc, id, the objects held, ...
  table,    \* GC_threads
  stop,     \* GC_stop_count, GC_world_is_stopped, GC_suspend_ack_sem, and what
            \* each thread has pending and does in its handler
  gc        \* the collector: which thread it is, its phase and its locals

\* What a stack and registers show of thread t, with the section of the stack
\* from before it blocked if it is active again.
Stack(t) == th[t].held \cup ({th[t].obj} \ {NULL}) \cup {o \in th[t].saved : th[t].active}

Handler(pc, count) == [pc |-> pc, my_stop_count |-> count]
Outside == Handler("none", 0)

StopInit ==
  stop = [count |-> 0, world_is_stopped |-> FALSE, acks |-> 0,
          pending |-> [t \in Threads |-> {}], handler |-> [t \in Threads |-> Outside]]

InHandler(t, pc) == stop.handler[t].pc = pc
Mine(t) == GC_lookup_thread(table, th[t].id)

-----------------------------------------------------------------------------
\* The signal interrupts the thread and the handler reads GC_stop_count.
EnterHandler(t) ==
  /\ InHandler(t, "none") /\ SUSPEND \in stop.pending[t]
  /\ stop' = [stop EXCEPT !.pending[t] = @ \ {SUSPEND}, !.handler[t] = Handler("entered", stop.count)]
  /\ UNCHANGED table

\* The handler saves the stack pointer and answers, unless it did already ...
Answer(t) ==
  LET my == stop.handler[t].my_stop_count
  IN  /\ InHandler(t, "entered")
      /\ IF table[Mine(t)].last_stop_count = my
           THEN stop' = [stop EXCEPT !.handler[t] = Outside] /\ UNCHANGED table
           ELSE /\ table' = [table EXCEPT ![Mine(t)].stack = Stack(t)]
                /\ stop' = [stop EXCEPT !.acks = @ + 1, !.handler[t].pc = "answered"]

\* ... and then notes which stop it answered.
NoteStop(t) ==
  /\ InHandler(t, "answered")
  /\ table' = [table EXCEPT ![Mine(t)].last_stop_count = stop.handler[t].my_stop_count]
  /\ stop' = [stop EXCEPT !.handler[t].pc = "waiting"]

\* sigsuspend returns after the restart signal; it may also after another one.
Restarted(t) ==
  /\ InHandler(t, "waiting") /\ RESTART \in stop.pending[t]
  /\ stop' = [stop EXCEPT !.pending[t] = @ \ {RESTART}, !.handler[t].pc = "woken"]
  /\ UNCHANGED table
Disturbed(t) ==
  /\ InHandler(t, "waiting")
  /\ stop' = [stop EXCEPT !.handler[t].pc = "woken"]
  /\ UNCHANGED table

\* The loop round sigsuspend.
MustWait_WhileStopped(t) == stop.world_is_stopped
MustWait(t) == stop.world_is_stopped /\ stop.count = stop.handler[t].my_stop_count
Woken(t) ==
  /\ InHandler(t, "woken")
  /\ stop' = IF MustWait(t) THEN [stop EXCEPT !.handler[t].pc = "waiting"]
                            ELSE [stop EXCEPT !.handler[t] = Outside]
  /\ UNCHANGED table

\* A restart signal that comes too late does nothing.
GC_restart_handler(t) ==
  /\ InHandler(t, "none") /\ RESTART \in stop.pending[t]
  /\ stop' = [stop EXCEPT !.pending[t] = @ \ {RESTART}]
  /\ UNCHANGED table

GC_suspend_handler(t) ==
  EnterHandler(t) \/ Answer(t) \/ NoteStop(t) \/ Restarted(t) \/ Woken(t) \/ GC_restart_handler(t)

-----------------------------------------------------------------------------
\* The thread that pthread_kill(id) reaches.
Alive(t) == th[t].pc \notin {"none", "gone", "outside"}
Named(id) == CHOOSE t \in Threads : th[t].id = id /\ Alive(t)

Phase(p) == gc.phase = p
Others == {k \in Unfinished(table) : table[k].id # th[gc.by].id /\ ~table[k].thread_blocked}

\* GC_stop_world up to the first signal ...
BeginStop ==
  /\ stop' = [stop EXCEPT !.count = @ + 1, !.world_is_stopped = TRUE]
  /\ gc' = [gc EXCEPT !.phase = "suspend", !.next = 1, !.n_live = 0]

\* ... GC_suspend_all, one entry at a time ...
GC_suspend_all ==
  LET k == gc.next
      live == k \in Others /\ table[k].last_stop_count # stop.count
  IN  /\ Phase("suspend") /\ k <= Len(table)
      /\ gc' = [gc EXCEPT !.next = k + 1, !.n_live = @ + (IF live THEN 1 ELSE 0)]
      /\ stop' = IF live THEN [stop EXCEPT !.pending[Named(table[k].id)] = @ \cup {SUSPEND}] ELSE stop

\* ... and the answers.
AwaitAnswer ==
  /\ Phase("suspend") /\ gc.next > Len(table) /\ gc.n_live > 0 /\ stop.acks > 0
  /\ gc' = [gc EXCEPT !.n_live = @ - 1]
  /\ stop' = [stop EXCEPT !.acks = @ - 1]

AllAnswered == Phase("suspend") /\ gc.next > Len(table) /\ gc.n_live = 0

BeginStart ==
  /\ Phase("start")
  /\ stop' = [stop EXCEPT !.world_is_stopped = FALSE]
  /\ gc' = [gc EXCEPT !.phase = "restart", !.next = 1]

GC_start_world ==
  LET k == gc.next
  IN  /\ Phase("restart") /\ k <= Len(table)
      /\ gc' = [gc EXCEPT !.next = k + 1]
      /\ stop' = IF k \in Others THEN [stop EXCEPT !.pending[Named(table[k].id)] = @ \cup {RESTART}] ELSE stop

AllRestarted == Phase("restart") /\ gc.next > Len(table)
=============================================================================
