-------------------------- MODULE GcThreadsProofs --------------------------
(***************************************************************************)
(* That the world is stopped while the collector marks, and that nothing   *)
(* reachable is left unmarked when it reclaims, proved for any number of   *)
(* threads and markers, any programs and any finite heap; but a thread     *)
(* that registers itself or forks has an id for which the table has no     *)
(* entry when it begins (FreeIds).                                         *)
(*                                                                         *)
(* First the world: signals, the table of threads and the lock work        *)
(* together (WorldInv).                                                    *)
(*                                                                         *)
(* Then the marking, by the argument of tri-colour marking.  An object     *)
(* that is marked and on no mark stack has everything it points to marked, *)
(* or found by a marker that is about to mark it (ScanInv).  Marking ends  *)
(* when no marker is counted as active and no entry of the shared stack is *)
(* left, so the counts have to be those of the markers (CountInv) and no   *)
(* entry may lie below the place where the markers begin to look           *)
(* (PlaceInv).  Meanwhile the program changes neither the roots nor the    *)
(* heap, because the world is stopped (Frozen).                            *)
(***************************************************************************)
EXTENDS GcThreads, CommonLemmas

-----------------------------------------------------------------------------
\* Sequences, as the table of threads uses them.

\* Replacing an element keeps a sequence a sequence of the same length.
LEMMA Replaced ==
  ASSUME NEW E, NEW s \in Seq(E), NEW k, NEW v
  PROVE  LET q == [s EXCEPT ![k] = v]
         IN  (\E F : q \in Seq(F)) /\ Len(q) = Len(s) /\ DOMAIN q = DOMAIN s
<1> DEFINE F == E \cup {v}
           q == [s EXCEPT ![k] = v]
<1>1. DOMAIN q = 1..Len(s) /\ Len(s) \in Nat
  OBVIOUS
<1>2. \A i \in 1..Len(s) : q[i] \in F
  OBVIOUS
<1>3. q = [i \in 1..Len(s) |-> q[i]]
  OBVIOUS
<1>4. [i \in 1..Len(s) |-> q[i]] \in Seq(F)
  BY <1>1, <1>2
<1>5. q \in Seq(F)
  BY ONLY <1>3, <1>4
<1>6. Len(q) = Len(s)
  BY <1>1, <1>5
<1> QED
  BY <1>1, <1>5, <1>6

\* The least element of a set of numbers is one of them.
LEMMA MinIn ==
  ASSUME NEW S \in SUBSET Nat, S # {}
  PROVE  Min(S) \in S /\ \A m \in S : Min(S) <= m
BY HasLeast DEF Min

\* The most recent entry with an id.
LEMMA Found ==
  ASSUME NEW E, NEW s \in Seq(E), NEW id, NEW k, k = GC_lookup_thread(s, id)
  PROVE  \/ k = 0 /\ \A j \in DOMAIN s : s[j].id # id
         \/ k \in DOMAIN s /\ s[k].id = id /\ \A j \in DOMAIN s : j < k => s[j].id # id
<1> DEFINE I == {j \in 1..Len(s) : s[j].id = id}
<1>1. I \in SUBSET Nat /\ DOMAIN s = 1..Len(s) /\ Len(s) \in Nat
  OBVIOUS
<1>2. k = IF I # {} THEN Min(I) ELSE 0
  BY DEF GC_lookup_thread, SelectInSeq
<1>3. CASE I = {}
  BY <1>1, <1>2, <1>3
<1>4. CASE I # {}
  <2>1. Min(I) \in I /\ \A m \in I : Min(I) <= m
    BY ONLY <1>1, <1>4, MinIn
  <2>2. k \in I /\ \A m \in I : k <= m
    BY <1>2, <1>4, <2>1
  <2>3. ASSUME NEW j \in DOMAIN s, j < k PROVE s[j].id # id
    <3>1. j \in Nat /\ k \in Nat /\ j \notin I
      BY <1>1, <2>2, <2>3
    <3> QED
      BY <1>1, <3>1
  <2> QED
    BY <1>1, <2>2, <2>3
<1> QED
  BY <1>3, <1>4

\* The entry of a thread.
LEMMA FoundOwn ==
  ASSUME NEW E, NEW s \in Seq(E), NEW t, NEW k, k = EntryOf(s, t)
  PROVE  \/ k = 0 /\ \A j \in DOMAIN s : s[j].of # t
         \/ k \in DOMAIN s /\ s[k].of = t
<1> DEFINE I == {j \in 1..Len(s) : s[j].of = t}
<1>1. I \in SUBSET Nat /\ DOMAIN s = 1..Len(s) /\ Len(s) \in Nat
  OBVIOUS
<1>2. k = IF I # {} THEN Min(I) ELSE 0
  BY DEF EntryOf, SelectInSeq
<1>3. CASE I = {}
  BY <1>1, <1>2, <1>3
<1>4. CASE I # {}
  <2>1. Min(I) \in I
    BY ONLY <1>1, <1>4, MinIn
  <2> QED
    BY <1>1, <1>2, <1>4, <2>1
<1> QED
  BY <1>3, <1>4

\* Taking an entry out keeps the others in their order; there is nothing to
\* take out at 0.
Moved(k, j) == IF j < k THEN j ELSE j + 1

\* RemoveAt, by the positions that the other entries had before.
LEMMA Removed ==
  ASSUME NEW E, NEW s \in Seq(E), NEW k \in DOMAIN s \cup {0}, NEW q, q = RemoveAt(s, k)
  PROVE  /\ q \in Seq(E)
         /\ k = 0 => q = s
         /\ k # 0 => /\ Len(q) = Len(s) - 1
                     /\ \A j \in DOMAIN q : Moved(k, j) \in DOMAIN s \ {k} /\ q[j] = s[Moved(k, j)]
                     /\ \A j \in DOMAIN s \ {k} : \E i \in DOMAIN q : j = Moved(k, i)
<1>1. DOMAIN s = 1..Len(s) /\ Len(s) \in Nat
  OBVIOUS
<1>2. CASE k = 0
  <2>1. SubSeq(s, 1, k-1) = <<>> /\ SubSeq(s, k+1, Len(s)) = s
    BY <1>1, <1>2
  <2> QED
    BY <1>2, <2>1 DEF RemoveAt
<1>3. CASE k # 0
  <2>1. k \in 1..Len(s)
    BY <1>1, <1>3
  <2> DEFINE a == SubSeq(s, 1, k-1)
             b == SubSeq(s, k+1, Len(s))
  <2>2. a \in Seq(E) /\ Len(a) = k-1 /\ \A i \in 1..k-1 : a[i] = s[i]
    BY <1>1, <2>1
  <2>3. b \in Seq(E) /\ Len(b) = Len(s) - k /\ \A i \in 1..Len(s)-k : b[i] = s[k+i]
    BY <1>1, <2>1
  <2>4. q = a \o b
    BY DEF RemoveAt
  <2> HIDE DEF a, b
  <2>5. /\ q \in Seq(E) /\ Len(q) = Len(a) + Len(b) /\ DOMAIN q = 1..Len(q)
        /\ \A i \in 1..Len(a) : q[i] = a[i]
        /\ \A i \in 1..Len(b) : q[Len(a) + i] = b[i]
    <3>1. a \in Seq(E) /\ b \in Seq(E)
      BY ONLY <2>2, <2>3
    <3> QED
      BY ONLY <2>4, <3>1
  <2>6. Len(q) = Len(s) - 1 /\ DOMAIN q = 1..(Len(s) - 1)
    <3>1. Len(q) = Len(a) + Len(b) /\ DOMAIN q = 1..Len(q)
      BY ONLY <2>5
    <3>2. Len(a) = k - 1 /\ Len(b) = Len(s) - k
      BY ONLY <2>2, <2>3
    <3>3. (k - 1) + (Len(s) - k) = Len(s) - 1
      BY ONLY <1>1, <2>1
    <3> QED
      BY ONLY <3>1, <3>2, <3>3
  <2>7. ASSUME NEW j \in DOMAIN q PROVE Moved(k, j) \in DOMAIN s \ {k} /\ q[j] = s[Moved(k, j)]
    <3>1. j \in 1..Len(s)-1
      BY ONLY <2>6, <2>7
    <3>2. CASE j < k
      <4>1. j \in 1..k-1 /\ j \in 1..Len(a) /\ j \in DOMAIN s \ {k}
        BY <1>1, <2>1, <2>2, <3>1, <3>2
      <4>2. q[j] = s[j]
        BY ONLY <2>2, <2>5, <4>1
      <4> QED
        BY <3>2, <4>1, <4>2 DEF Moved
    <3>3. CASE ~(j < k)
      <4>1. PICK i \in Nat : i = j - (k-1)
        BY <1>1, <2>1, <3>1, <3>3
      <4>2. i \in 1..Len(s)-k /\ k + i = j + 1 /\ j = (k-1) + i
        BY <1>1, <2>1, <3>1, <3>3, <4>1
      <4>3. i \in 1..Len(b) /\ j = Len(a) + i
        BY ONLY <2>2, <2>3, <4>2
      <4>4. q[j] = b[i]
        BY ONLY <2>5, <4>3
      <4>5. b[i] = s[j + 1]
        BY ONLY <2>3, <4>2
      <4>6. Moved(k, j) = j + 1 /\ j + 1 \in DOMAIN s \ {k}
        BY <1>1, <2>1, <3>1, <3>3 DEF Moved
      <4> QED
        BY ONLY <4>4, <4>5, <4>6
    <3> QED
      BY <3>2, <3>3
  <2>8. ASSUME NEW j \in DOMAIN s \ {k} PROVE \E i \in DOMAIN q : j = Moved(k, i)
    <3>1. DOMAIN q = 1..Len(s)-1 /\ j \in 1..Len(s) /\ j # k
      BY ONLY <1>1, <2>6, <2>8
    <3>2. CASE j < k
      BY <1>1, <2>1, <3>1, <3>2 DEF Moved
    <3>3. CASE ~(j < k)
      <4>1. j - 1 \in DOMAIN q /\ j = Moved(k, j - 1)
        BY <1>1, <2>1, <3>1, <3>3 DEF Moved
      <4> QED
        BY <4>1
    <3> QED
      BY <3>2, <3>3
  <2> QED
    BY <1>3, <2>5, <2>6, <2>7, <2>8
<1> QED
  BY <1>2, <1>3

-----------------------------------------------------------------------------
\* The inductive invariant.

ThreadFields ==
  {"pc", "id", "held", "obj", "of", "entry", "saved", "build", "active", "joinable",
   "unregisters", "result"}
EntryFields ==
  {"of", "id", "flags", "thread_blocked", "last_stop_count", "stack", "status", "tlfs"}
StopFields == {"count", "world_is_stopped", "acks", "pending", "handler"}
HandlerFields == {"pc", "my_stop_count"}
CollectorFields ==
  {"by", "phase", "next", "n_live", "then", "builders", "asleep", "in_creation", "aborted"}

Index == DOMAIN table
Owner(k) == table[k].of

\* What the records are made of.
ShapeInv ==
  /\ menu \in Menus
  /\ DOMAIN th = Threads /\ \A t \in Threads : DOMAIN th[t] = ThreadFields
  /\ \E E : table \in Seq(E)
  /\ \A k \in Index : DOMAIN table[k] = EntryFields
  /\ DOMAIN stop = StopFields
  /\ DOMAIN stop.pending = Threads /\ DOMAIN stop.handler = Threads
  /\ \A t \in Threads : DOMAIN stop.handler[t] = HandlerFields
  /\ DOMAIN gc = CollectorFields

\* Where a thread is that the collector knows: it has been through
\* GC_register_my_thread_inner and not through GC_unregister_my_thread_inner.
Plain ==
  {"run", "take", "core", "core_again", "many", "many_again", "join_builders", "sweep",
   "store_list", "leave_builders", "filled", "created", "exit", "join", "joined", "detach",
   "detached", "prepare_fork", "fork"}
Known(t) ==
  \/ th[t].pc \in Plain \cup {"blocked"}
  \/ th[t].pc = "collect" /\ ~gc.in_creation
Past == {"ending", "dead", "gone"}

\* Every known thread has one entry, which says how the thread is and is the
\* most recent one with its id.  Other entries are those of threads that have
\* ended.  A signal for an id reaches one thread.
TableInv ==
  /\ \A k \in Index :
       /\ Owner(k) \in Threads
       /\ table[k].id = th[Owner(k)].id
       /\ Known(Owner(k)) \/ th[Owner(k)].pc \in Past
       /\ FINISHED \notin table[k].flags <=> Known(Owner(k))
       /\ table[k].thread_blocked <=> th[Owner(k)].pc = "blocked"
  /\ \A j, k \in Index : Owner(j) = Owner(k) => j = k
  /\ \A j, k \in Index : j < k /\ table[j].id = table[k].id => ~Alive(Owner(k))
  /\ \A t \in Threads : Known(t) => \E k \in Index : Owner(k) = t
  /\ \A t, u \in Threads : Alive(t) /\ Alive(u) /\ th[t].id = th[u].id => t = u

\* A thread that registers itself or forks shares its id with no entry but its own.
IdInv ==
  /\ \A t \in Threads : th[t].pc \in {"prepare_fork", "fork"} => May(t, "fork")
  /\ \A t \in Threads : KeepsId(t) /\ Alive(t) => \A k \in Index : table[k].id = th[t].id => Owner(k) = t

\* The entry that a join will delete is that of a thread that is gone.
JoinInv ==
  \A t \in Threads :
    /\ th[t].pc \in {"join", "detach"} => th[t].of \in Threads \ {t}
    /\ th[t].pc \in {"join", "joined"} => th[t].entry \in Threads
    /\ th[t].pc = "join" => th[t].entry = th[t].of \/ th[th[t].entry].pc = "gone"
    /\ th[t].pc = "joined" => th[th[t].entry].pc = "gone"

Phases == {"none", "wait_for_reclaim", "clear", "stop", "suspend", "mark", "start", "restart"}
Stopped == {"suspend", "mark", "start"}

\* Where a thread is that keeps the lock.
Locking ==
  {"join_builders", "prepare_fork", "fork", "core_again", "many_again", "start_again"}

\* A collection keeps the lock from its first step to its last.
LockInv ==
  /\ gc.phase \in Phases
  /\ gc.phase # "none" =>
       /\ gc.by \in Threads /\ lock = gc.by /\ th[gc.by].pc = "collect"
       /\ gc.then \in {"run", "core_again", "many_again", "start_again"}
       /\ gc.in_creation <=> gc.then = "start_again"
  /\ \A t \in Threads : th[t].pc = "collect" => gc.phase # "none" /\ gc.by = t
  /\ \A t \in Threads : th[t].pc \in Locking => lock = t

\* The thread has saved its stack for this stop, or is about to leave the
\* handler of an earlier one.
Answered(t) ==
  /\ stop.handler[t].pc \in {"answered", "waiting", "woken"}
  /\ stop.handler[t].my_stop_count = stop.count

\* The entries that a signal was sent for and whose threads have not answered.
Unanswered == {k \in Others : k < gc.next /\ ~Answered(Owner(k))}

\* A thread is in its handler, or has a signal pending, for good reasons, and
\* the semaphore counts the answers that the collector has yet to take.
SignalInv ==
  /\ stop.world_is_stopped <=> gc.phase \in Stopped
  /\ \A k \in Index : table[k].last_stop_count \in 0..stop.count
  /\ \A t \in Threads :
       /\ stop.handler[t].pc \in {"none", "entered", "answered", "waiting", "woken"}
       /\ stop.handler[t].my_stop_count \in 0..stop.count
       /\ stop.handler[t].pc # "none" => Known(t)
       /\ SUSPEND \in stop.pending[t] \/ stop.handler[t].pc = "entered" =>
            gc.phase = "suspend" /\ \E k \in Unanswered : Owner(k) = t
       /\ SUSPEND \in stop.pending[t] => stop.handler[t].pc # "entered"
       /\ stop.handler[t].pc = "entered" => stop.handler[t].my_stop_count = stop.count

AnswerInv ==
  /\ stop.count \in Nat /\ stop.acks \in Nat /\ gc.n_live \in Nat /\ gc.next \in Nat \ {0}
  /\ gc.phase = "suspend" =>
       /\ gc.n_live = stop.acks + Cardinality(Unanswered)
       /\ \A k \in Others : ~Answered(Owner(k)) => table[k].last_stop_count # stop.count
       /\ \A k \in Others : k >= gc.next => ~Answered(Owner(k))
  /\ gc.phase # "suspend" => stop.acks = 0
  /\ gc.phase \in {"mark", "start"} => \A k \in Others : Answered(Owner(k))

WorldInv ==
  /\ ShapeInv /\ TableInv /\ IdInv /\ JoinInv /\ LockInv /\ SignalInv /\ AnswerInv
  /\ ~gc.aborted

-----------------------------------------------------------------------------
\* What the invariant says where it is used.

\* The entries are numbered from 1.
LEMMA Entries ==
  ASSUME ShapeInv
  PROVE  Len(table) \in Nat /\ Index = 1..Len(table)
BY DEF ShapeInv, Index

\* A known thread has begun and has not ended.
LEMMA KnownIsAlive ==
  ASSUME NEW t, Known(t)
  PROVE  Alive(t) /\ th[t].pc \notin Past \cup {"none", "outside", "register", "start", "start_again"}
BY DEF Known, Alive, Plain, Past

\* A known thread finds its own entry, by itself and by its id.
LEMMA OwnEntry ==
  ASSUME ShapeInv, TableInv, NEW t \in Threads, Known(t)
  PROVE  /\ Own(t) \in Index /\ Owner(Own(t)) = t
         /\ Mine(t) = Own(t)
         /\ \A k \in Index : Owner(k) = t => k = Own(t)
<1>1. PICK E : table \in Seq(E)
  BY DEF ShapeInv
<1>2. PICK k \in Index : Owner(k) = t
  BY DEF TableInv
<1>3. Own(t) \in Index /\ Owner(Own(t)) = t
  BY <1>1, <1>2, FoundOwn DEF Own, Index, Owner
<1>4. Own(t) = k
  BY <1>2, <1>3 DEF TableInv
<1>5. table[k].id = th[t].id /\ Alive(t)
  BY <1>2, KnownIsAlive DEF TableInv
<1> DEFINE m == Mine(t)
<1>6. m = GC_lookup_thread(table, th[t].id)
  BY DEF Mine
<1> HIDE DEF m
<1>7. m \in Index /\ table[m].id = th[t].id /\ \A j \in Index : j < m => table[j].id # th[t].id
  BY <1>1, <1>2, <1>5, <1>6, Found DEF Index
<1>8. m = k
  <2>1. m \in Nat /\ k \in Nat
    BY <1>1, <1>2, <1>7 DEF Index
  <2>2. ~(k < m)
    BY <1>2, <1>5, <1>7
  <2>3. ~(m < k)
    BY <1>2, <1>5, <1>7 DEF TableInv
  <2> QED
    BY <2>1, <2>2, <2>3
<1> QED
  BY <1>3, <1>4, <1>8, <1>2 DEF m, TableInv

\* A signal reaches the thread of the entry.
LEMMA SignalReaches ==
  ASSUME ShapeInv, TableInv, NEW k \in Index, Known(Owner(k))
  PROVE  Named(table[k].id) = Owner(k) /\ Owner(k) \in Threads
<1>1. Owner(k) \in Threads /\ th[Owner(k)].id = table[k].id /\ Alive(Owner(k))
  BY KnownIsAlive DEF TableInv
<1>2. ASSUME NEW u \in Threads, th[u].id = table[k].id, Alive(u) PROVE u = Owner(k)
  BY <1>1, <1>2 DEF TableInv
<1> QED
  BY <1>1, <1>2 DEF Named

\* Who may have the lock without collecting knows that nobody collects.
LEMMA NobodyCollects ==
  ASSUME LockInv, NEW t \in Threads, lock \in {NULL, t}, th[t].pc # "collect"
  PROVE  gc.phase = "none"
BY Nobody DEF LockInv

-----------------------------------------------------------------------------
\* Steps that leave alone what the invariant is about.

SameKeys ==
  /\ \E E : table' \in Seq(E)
  /\ Len(table') = Len(table) /\ DOMAIN table' = DOMAIN table
  /\ \A k \in Index :
       /\ DOMAIN table'[k] = EntryFields
       /\ table'[k].of = table[k].of /\ table'[k].id = table[k].id
       /\ FINISHED \in table'[k].flags <=> FINISHED \in table[k].flags
       /\ table'[k].thread_blocked <=> table[k].thread_blocked
       /\ table'[k].last_stop_count = table[k].last_stop_count

SameLives ==
  \A u \in Threads :
    /\ th'[u].id = th[u].id
    /\ Known(u)' <=> Known(u)
    /\ Alive(u)' => Alive(u)
    /\ th[u].pc \in Past /\ (\E k \in Index : Owner(k) = u) => th'[u].pc \in Past
    /\ th'[u].pc = "blocked" <=> th[u].pc = "blocked"

SameCollector ==
  /\ DOMAIN gc' = CollectorFields
  /\ gc'.by = gc.by /\ gc'.phase = gc.phase /\ gc'.next = gc.next /\ gc'.n_live = gc.n_live
  /\ gc'.then = gc.then
  /\ gc'.in_creation <=> gc.in_creation
  /\ gc'.aborted <=> gc.aborted

\* A step that leaves the table alone keeps what the invariant reads of it.
LEMMA SameTable ==
  ASSUME ShapeInv, UNCHANGED table
  PROVE  SameKeys
BY DEF ShapeInv, SameKeys, Index

\* A step that leaves the collector alone keeps what the invariant reads of it.
LEMMA SameGc ==
  ASSUME ShapeInv, UNCHANGED gc
  PROVE  SameCollector
BY DEF ShapeInv, SameCollector

\* One entry gets new contents, but not those that the invariant reads.
LEMMA SameEntry ==
  ASSUME ShapeInv, NEW k, NEW e, table' = [table EXCEPT ![k] = e],
         k \in Index =>
           /\ DOMAIN e = EntryFields
           /\ e.of = table[k].of /\ e.id = table[k].id
           /\ FINISHED \in e.flags <=> FINISHED \in table[k].flags
           /\ e.thread_blocked <=> table[k].thread_blocked
           /\ e.last_stop_count = table[k].last_stop_count
  PROVE  SameKeys
<1>1. PICK E : table \in Seq(E)
  BY DEF ShapeInv
<1>2. /\ \E F : table' \in Seq(F)
      /\ Len(table') = Len(table) /\ DOMAIN table' = DOMAIN table
  BY ONLY <1>1, Replaced, table' = [table EXCEPT ![k] = e]
<1>3. ASSUME NEW j \in Index PROVE table'[j] = IF j = k THEN e ELSE table[j]
  BY <1>1 DEF Index
<1>4. ASSUME NEW j \in Index
      PROVE /\ DOMAIN table'[j] = EntryFields
            /\ table'[j].of = table[j].of /\ table'[j].id = table[j].id
            /\ FINISHED \in table'[j].flags <=> FINISHED \in table[j].flags
            /\ table'[j].thread_blocked <=> table[j].thread_blocked
            /\ table'[j].last_stop_count = table[j].last_stop_count
  BY <1>3 DEF ShapeInv
<1> QED
  BY <1>2, <1>4 DEF SameKeys

\* The table stays as it should be while entries and threads keep what it is about.
LEMMA TableKept ==
  ASSUME ShapeInv, TableInv, SameKeys, SameLives
  PROVE  TableInv'
<1>1. Index' = Index /\ \A k \in Index : Owner(k)' = Owner(k)
  BY DEF SameKeys, Index, Owner
<1>2. ASSUME NEW k \in Index
      PROVE (/\ Owner(k) \in Threads
             /\ table[k].id = th[Owner(k)].id
             /\ Known(Owner(k)) \/ th[Owner(k)].pc \in Past
             /\ FINISHED \notin table[k].flags <=> Known(Owner(k))
             /\ table[k].thread_blocked <=> th[Owner(k)].pc = "blocked")'
  <2>1. PICK u \in Threads : Owner(k) = u
    BY DEF TableInv
  <2>2. (Known(u)' <=> Known(u)) /\ Owner(k)' = u
    BY <1>1, <2>1 DEF SameLives
  <2> QED
    BY <2>1, <2>2 DEF TableInv, SameKeys, SameLives
<1>3. (\A j, k \in Index : Owner(j) = Owner(k) => j = k)'
  BY <1>1 DEF TableInv
<1>4. ASSUME NEW j \in Index, NEW k \in Index, j < k, (table[j].id = table[k].id)'
      PROVE ~Alive(Owner(k))'
  <2>1. PICK u \in Threads : Owner(k) = u
    BY DEF TableInv
  <2>2. table[j].id = table[k].id
    BY <1>4 DEF SameKeys
  <2>3. ~Alive(u)
    BY <2>1, <2>2, <1>4 DEF TableInv
  <2>4. Owner(k)' = u /\ (Alive(u)' => Alive(u))
    BY <1>1, <2>1 DEF SameLives
  <2>5. ~Alive(u)'
    BY <2>3, <2>4
  <2> QED
    BY <2>4, <2>5 DEF Alive
<1>5. ASSUME NEW u \in Threads, Known(u)' PROVE \E k \in Index : Owner(k)' = u
  BY <1>1, <1>5 DEF TableInv, SameLives
<1>6. ASSUME NEW u \in Threads, NEW v \in Threads, Alive(u)', Alive(v)', (th[u].id = th[v].id)'
      PROVE u = v
  BY <1>6 DEF TableInv, SameLives
<1> QED
  BY <1>1, <1>2, <1>3, <1>4, <1>5, <1>6 DEF TableInv

\* So do the signals and their answers.
LEMMA SignalsStay ==
  ASSUME ShapeInv, TableInv, LockInv, SignalInv, AnswerInv,
         SameKeys, SameCollector, UNCHANGED stop,
         \A u \in Threads : Known(u)' <=> Known(u),
         gc.phase # "none" => th'[gc.by].id = th[gc.by].id
  PROVE  SignalInv' /\ AnswerInv'
<1>1. Index' = Index /\ \A k \in Index : Owner(k)' = Owner(k)
  BY DEF SameKeys, Index, Owner
<1>2. \A u : Answered(u)' <=> Answered(u)
  BY DEF Answered
<1>3. CASE gc.phase \in {"suspend", "mark", "start"}
  <2>1. th'[gc'.by].id = th[gc.by].id /\ gc'.next = gc.next
    BY <1>3 DEF SameCollector
  <2>2. Others' = Others
    BY <1>1, <2>1 DEF SameKeys, Others, Unfinished, Index
  <2>3. Others \subseteq Index
    BY DEF Others, Unfinished, Index
  <2>4. Unanswered' = Unanswered /\ Unanswered \subseteq Index
    BY <1>1, <1>2, <2>1, <2>2, <2>3 DEF Unanswered
  <2>5. \A u \in Threads : (\E k \in Unanswered : Owner(k) = u)' <=> (\E k \in Unanswered : Owner(k) = u)
    BY <1>1, <2>4
  <2>6. SignalInv'
    BY <1>1, <2>5, <1>3 DEF SignalInv, SameKeys, SameCollector
  <2>7. AnswerInv'
    <3>1. \A k \in Others : (Answered(Owner(k)) <=> Answered(Owner(k))') /\ (table'[k].last_stop_count = table[k].last_stop_count)
      BY <1>1, <1>2, <2>3 DEF SameKeys
    <3> QED
      BY <2>1, <2>2, <2>4, <3>1 DEF AnswerInv, SameCollector
  <2> QED
    BY <2>6, <2>7
<1>4. CASE gc.phase \notin {"suspend", "mark", "start"}
  <2>1. SignalInv'
    BY <1>1, <1>4 DEF SignalInv, SameKeys, SameCollector
  <2>2. AnswerInv'
    BY <1>4 DEF AnswerInv, SameCollector
  <2> QED
    BY <2>1, <2>2
<1> QED
  BY <1>3, <1>4

\* The same, with the lives of the threads as they were.
LEMMA SignalsKept ==
  ASSUME ShapeInv, TableInv, LockInv, SignalInv, AnswerInv,
         SameKeys, SameLives, SameCollector, UNCHANGED stop
  PROVE  SignalInv' /\ AnswerInv'
<1>1. \A u \in Threads : Known(u)' <=> Known(u)
  BY DEF SameLives
<1>2. gc.phase # "none" => th'[gc.by].id = th[gc.by].id
  BY DEF SameLives, LockInv
<1> QED
  BY <1>1, <1>2, SignalsStay

\* Between two stops nothing depends on which threads have answered.
LEMMA NoSignals ==
  ASSUME SignalInv, AnswerInv, UNCHANGED stop,
         gc.phase \notin Stopped, gc'.phase \notin Stopped,
         gc'.n_live \in Nat, gc'.next \in Nat \ {0},
         \A k \in Index' : table'[k].last_stop_count \in 0..stop.count,
         \A u \in Threads : stop.handler[u].pc # "none" => Known(u)'
  PROVE  SignalInv' /\ AnswerInv'
<1>1. SignalInv'
  BY DEF SignalInv, Stopped
<1>2. AnswerInv'
  BY DEF AnswerInv, Stopped
<1> QED
  BY <1>1, <1>2

\* No entry gets an id, and nobody else forks.
LEMMA IdsKept ==
  ASSUME IdInv, SameKeys, SameLives, UNCHANGED menu,
         \A u \in Threads : th'[u].pc \in {"prepare_fork", "fork"} => May(u, "fork")
  PROVE  IdInv'
<1>1. \A u \in Threads : (May(u, "fork")' <=> May(u, "fork")) /\ (KeepsId(u)' <=> KeepsId(u))
  BY DEF May, KeepsId
<1>2. Index' = Index /\ \A k \in Index : table'[k].id = table[k].id /\ Owner(k)' = Owner(k)
  BY DEF SameKeys, Index, Owner
<1> QED
  BY <1>1, <1>2 DEF IdInv, SameLives

\* ... in particular where the threads stay.
LEMMA IdsStay ==
  ASSUME IdInv, UNCHANGED <<th, menu>>, Index' = Index,
         \A k \in Index : table'[k].id = table[k].id /\ Owner(k)' = Owner(k)
  PROVE  IdInv'
<1>1. \A u \in Threads : (May(u, "fork")' <=> May(u, "fork")) /\ (KeepsId(u)' <=> KeepsId(u)) /\ (Alive(u)' <=> Alive(u))
  BY DEF May, KeepsId, Alive
<1> QED
  BY <1>1 DEF IdInv

\* Nothing that the invariant reads changes.
LEMMA Stutter ==
  ASSUME WorldInv, SameCollector, UNCHANGED <<th, table, stop, lock, menu>>
  PROVE  WorldInv'
<1>1. ShapeInv'
  BY DEF WorldInv, ShapeInv, Index, SameCollector
<1>2. SameKeys
  BY SameTable DEF WorldInv
<1>3. \A u \in Threads : Known(u)' <=> Known(u)
  BY DEF Known, SameCollector
<1>4. SameLives
  BY <1>3 DEF SameLives, Alive
<1>5. TableInv' /\ SignalInv' /\ AnswerInv'
  BY <1>2, <1>4, TableKept, SignalsKept DEF WorldInv
<1>6. IdInv'
  BY <1>2, <1>4, IdsKept DEF WorldInv, IdInv
<1>7. JoinInv'
  BY DEF WorldInv, JoinInv
<1>8. LockInv' /\ ~gc'.aborted
  BY DEF WorldInv, LockInv, SameCollector
<1> QED
  BY <1>1, <1>5, <1>6, <1>7, <1>8 DEF WorldInv

\* A known thread goes on, and stays known: it neither blocks nor collects.
Continues(t, r) ==
  /\ th' = [th EXCEPT ![t] = r]
  /\ DOMAIN r = ThreadFields
  /\ r.pc \in Plain /\ r.id = th[t].id /\ r.unregisters = th[t].unregisters
  /\ r.pc \in {"prepare_fork", "fork"} => May(t, "fork")
  /\ r.pc \in {"join", "detach"} => r.of \in Threads \ {t}
  /\ r.pc \in {"join", "joined"} => r.entry \in Threads
  /\ r.pc = "join" => r.entry = r.of \/ th[r.entry].pc = "gone"
  /\ r.pc = "joined" => th[r.entry].pc = "gone"

\* A thread that does not collect takes the lock only if it is free.
Locks(t) ==
  \/ lock' = lock /\ (th'[t].pc \in Locking => lock = t)
  \/ lock \in {NULL, t} /\ (th'[t].pc \in Locking => lock' = t)

\* Such a step preserves the invariant.
LEMMA PlainStep ==
  ASSUME WorldInv, NEW t \in Threads, th[t].pc \in Plain, NEW r, Continues(t, r), Locks(t),
         SameKeys, SameCollector, UNCHANGED <<stop, menu>>
  PROVE  WorldInv'
<1> USE DEF WorldInv
<1>1. th'[t] = r /\ \A u \in Threads : u # t => th'[u] = th[u]
  BY DEF ShapeInv, Continues
<1>2. ShapeInv'
  <2>1. DOMAIN th' = Threads /\ \A u \in Threads : DOMAIN th'[u] = ThreadFields
    BY <1>1 DEF ShapeInv, Continues
  <2> QED
    BY <2>1 DEF ShapeInv, SameKeys, SameCollector, Index
<1>3. SameLives
  <2>1. SUFFICES ASSUME NEW u \in Threads
                 PROVE  /\ th'[u].id = th[u].id
                        /\ Known(u)' <=> Known(u)
                        /\ Alive(u)' => Alive(u)
                        /\ th[u].pc \in Past => th'[u].pc \in Past
                        /\ th'[u].pc = "blocked" <=> th[u].pc = "blocked"
    BY DEF SameLives
  <2>2. CASE u = t
    <3>1. Known(t) /\ Known(t)' /\ th'[t].id = th[t].id
      BY <1>1 DEF Known, Continues
    <3>2. th[t].pc \notin Past /\ th'[t].pc # "blocked" /\ th[t].pc # "blocked" /\ Alive(t)
      BY <1>1 DEF Plain, Past, Continues, Alive
    <3> QED
      BY <2>2, <3>1, <3>2
  <2>3. CASE u # t
    <3>1. th'[u] = th[u] /\ (gc'.in_creation <=> gc.in_creation)
      BY <1>1, <2>3 DEF SameCollector
    <3> QED
      BY <3>1 DEF Known, Alive
  <2> QED
    BY <2>2, <2>3
<1>4. TableInv' /\ SignalInv' /\ AnswerInv'
  BY <1>3, TableKept, SignalsKept
<1>5. IdInv'
  <2>1. \A u \in Threads : th'[u].pc \in {"prepare_fork", "fork"} => May(u, "fork")
    BY <1>1 DEF IdInv, Continues
  <2> QED
    BY <1>3, <2>1, IdsKept
<1>6. JoinInv'
  <2>1. \A u \in Threads : th[u].pc = "gone" => th'[u].pc = "gone"
    BY <1>1 DEF Plain
  <2> QED
    BY <1>1, <2>1 DEF JoinInv, Continues
<1>7. LockInv'
  <2>1. th[t].pc # "collect" /\ th'[t].pc # "collect"
    BY <1>1 DEF Plain, Continues
  <2>2. CASE lock' = lock /\ (th'[t].pc \in Locking => lock = t)
    <3>1. gc.phase # "none" => gc.by # t
      BY <2>1 DEF LockInv
    <3> QED
      BY <1>1, <2>1, <2>2, <3>1 DEF LockInv, SameCollector
  <2>3. CASE lock \in {NULL, t} /\ (th'[t].pc \in Locking => lock' = t)
    <3>1. gc.phase = "none"
      BY <2>1, <2>3, NobodyCollects
    <3>2. \A u \in Threads : th[u].pc \in Locking => u = t
      BY <2>3, Nobody DEF LockInv
    <3> QED
      BY <1>1, <2>1, <2>3, <3>1, <3>2 DEF LockInv, SameCollector
  <2> QED
    BY <2>2, <2>3 DEF Locks
<1>8. ~gc'.aborted
  BY DEF SameCollector
<1> QED
  BY <1>2, <1>4, <1>5, <1>6, <1>7, <1>8

\* A thread that has run, or one without an entry, starts to collect.
LEMMA StartsGC ==
  ASSUME WorldInv, NEW t \in Threads, lock \in {NULL, t},
         NEW then, NEW in_creation \in BOOLEAN, StartGC(t, then, in_creation),
         \/ th[t].pc \in Plain /\ then \in {"run", "core_again", "many_again"} /\ ~in_creation
         \/ /\ th[t].pc \in {"start", "register", "ending"} /\ then = "start_again" /\ in_creation
            /\ \A k \in Index : Owner(k) # t,
         SameKeys, UNCHANGED <<stop, menu>>
  PROVE  WorldInv'
<1> USE DEF WorldInv
<1>1. /\ th' = [th EXCEPT ![t] = [th[t] EXCEPT !.pc = "collect"]]
      /\ lock' = t
      /\ gc' = [gc EXCEPT !.by = t, !.phase = "wait_for_reclaim", !.then = then, !.in_creation = in_creation]
  BY DEF StartGC, Became, With
<1>2. /\ DOMAIN th' = Threads
      /\ th'[t].pc = "collect" /\ th'[t].id = th[t].id /\ th'[t].unregisters = th[t].unregisters
      /\ DOMAIN th'[t] = ThreadFields
      /\ \A u \in Threads : u # t => th'[u] = th[u]
  BY <1>1 DEF ShapeInv, ThreadFields
<1>3. /\ DOMAIN gc' = CollectorFields
      /\ gc'.by = t /\ gc'.phase = "wait_for_reclaim" /\ gc'.then = then
      /\ gc'.in_creation = in_creation
      /\ gc'.next = gc.next /\ gc'.n_live = gc.n_live /\ (gc'.aborted <=> gc.aborted)
  BY <1>1 DEF ShapeInv, CollectorFields
<1>4. /\ th[t].pc # "collect" /\ th[t].pc # "blocked" /\ th[t].pc # "gone"
      /\ th[t].pc \in Past => \A k \in Index : Owner(k) # t
  BY DEF Plain, Past
<1>5. gc.phase = "none"
  BY <1>4, NobodyCollects
<1>6. ShapeInv'
  BY <1>2, <1>3 DEF ShapeInv, SameKeys, Index
<1>7. SameLives
  <2>1. Known(t)' <=> Known(t)
    BY <1>2, <1>3 DEF Known, Plain
  <2>2. Alive(t)
    BY DEF Alive, Plain
  <2>3. ASSUME NEW u \in Threads, u # t PROVE Known(u)' <=> Known(u)
    <3>1. th[u].pc # "collect"
      BY <1>5 DEF LockInv
    <3> QED
      BY <1>2, <2>3, <3>1 DEF Known
  <2> QED
    BY <1>2, <1>4, <2>1, <2>2, <2>3 DEF SameLives, Alive
<1>8. TableInv'
  BY <1>7, TableKept
<1>9. SignalInv' /\ AnswerInv'
  <2>1. \A k \in Index' : table'[k].last_stop_count \in 0..stop.count
    BY DEF SignalInv, SameKeys, Index
  <2>2. \A u \in Threads : stop.handler[u].pc # "none" => Known(u)'
    BY <1>7 DEF SignalInv, SameLives
  <2> QED
    BY <1>3, <1>5, <2>1, <2>2, NoSignals DEF AnswerInv, Stopped
<1>10. IdInv'
  <2>1. \A u \in Threads : th'[u].pc \in {"prepare_fork", "fork"} => May(u, "fork")
    BY <1>2 DEF IdInv
  <2> QED
    BY <1>7, <2>1, IdsKept
<1>11. JoinInv'
  <2>1. \A u \in Threads : th[u].pc = "gone" => th'[u].pc = "gone"
    BY <1>2, <1>4
  <2> QED
    BY <1>2, <2>1 DEF JoinInv
<1>12. LockInv'
  <2>1. \A u \in Threads : th[u].pc \in Locking => u = t
    BY Nobody DEF LockInv
  <2> QED
    BY <1>1, <1>2, <1>3, <1>5, <2>1 DEF LockInv, Phases, Locking
<1> QED
  BY <1>3, <1>6, <1>8, <1>9, <1>10, <1>11, <1>12

-----------------------------------------------------------------------------
\* Threads allocate.

\* Where a thread goes that does nothing but work on its own.
Ordinary == Plain \ {"exit", "prepare_fork", "fork", "join", "joined", "detach"}

\* A thread that goes on with its own work continues.
LEMMA GoesOn ==
  ASSUME ShapeInv, NEW t \in Threads, NEW r, Became(t, r),
         DOMAIN r = DOMAIN th[t], r.pc \in Ordinary,
         r.id = th[t].id, r.unregisters = th[t].unregisters
  PROVE  Continues(t, r) /\ th'[t] = r
BY DEF Continues, Became, ShapeInv, Ordinary

\* Going to another place changes nothing else of a thread.
LEMMA Stays ==
  ASSUME ShapeInv, NEW t \in Threads, NEW pc
  PROVE  LET r == With(t, pc)
         IN  DOMAIN r = DOMAIN th[t] /\ r.pc = pc /\ r.id = th[t].id /\ r.unregisters = th[t].unregisters
BY DEF With, ShapeInv, ThreadFields

\* Steps that only change where a thread is and what it works on.
LEMMA OwnStep ==
  ASSUME WorldInv, NEW t \in Threads, th[t].pc \in Plain, NEW r, Became(t, r),
         DOMAIN r = DOMAIN th[t], r.pc \in Ordinary \ Locking,
         r.id = th[t].id, r.unregisters = th[t].unregisters,
         lock' = lock \/ (lock \in {NULL, t} /\ lock' = NULL),
         SameKeys, SameCollector, UNCHANGED <<stop, menu>>
  PROVE  WorldInv'
<1>1. Continues(t, r) /\ th'[t] = r
  BY GoesOn DEF WorldInv
<1>2. Locks(t)
  BY <1>1 DEF Locks
<1> QED
  BY <1>1, <1>2, PlainStep

\* The lists of a thread, and its result, are nothing to the invariant.
LEMMA NewLists ==
  ASSUME ShapeInv, NEW k, NEW tlfs, table' = [table EXCEPT ![k].tlfs = tlfs]
  PROVE  SameKeys
<1> DEFINE e == [table[k] EXCEPT !.tlfs = tlfs]
<1>1. table' = [table EXCEPT ![k] = e]
  OBVIOUS
<1>2. k \in Index =>
        /\ DOMAIN e = EntryFields
        /\ e.of = table[k].of /\ e.id = table[k].id
        /\ FINISHED \in e.flags <=> FINISHED \in table[k].flags
        /\ e.thread_blocked <=> table[k].thread_blocked
        /\ e.last_stop_count = table[k].last_stop_count
  BY DEF ShapeInv, EntryFields
<1> QED
  BY ONLY ShapeInv, <1>1, <1>2, SameEntry

\* The same of a list alone.
LEMMA NewList ==
  ASSUME ShapeInv, NEW k, NEW list, table' = [table EXCEPT ![k].tlfs.list = list]
  PROVE  SameKeys
<1>1. table' = [table EXCEPT ![k].tlfs = [table[k].tlfs EXCEPT !.list = list]]
  OBVIOUS
<1> QED
  BY <1>1, NewLists

\* The same of the result that a thread leaves in its entry.
LEMMA NewStatus ==
  ASSUME ShapeInv, NEW k, NEW status, table' = [table EXCEPT ![k].status = status]
  PROVE  SameKeys
<1> DEFINE e == [table[k] EXCEPT !.status = status]
<1>1. table' = [table EXCEPT ![k] = e]
  OBVIOUS
<1>2. k \in Index =>
        /\ DOMAIN e = EntryFields
        /\ e.of = table[k].of /\ e.id = table[k].id
        /\ FINISHED \in e.flags <=> FINISHED \in table[k].flags
        /\ e.thread_blocked <=> table[k].thread_blocked
        /\ e.last_stop_count = table[k].last_stop_count
  BY DEF ShapeInv, EntryFields
<1> QED
  BY ONLY ShapeInv, <1>1, <1>2, SameEntry

\* GC_malloc: the thread reads the head of its list or goes to the collector for more.
LEMMA Malloc ==
  ASSUME WorldInv, NEW t \in Threads, GC_malloc(t), UNCHANGED menu
  PROVE  WorldInv'
<1> USE DEF WorldInv
<1>1. th[t].pc \in Plain /\ lock' = lock /\ UNCHANGED stop /\ SameCollector
  BY SameGc DEF GC_malloc, In, Plain
<1>2. SameKeys
  <2>1. CASE UNCHANGED table
    BY <2>1, SameTable
  <2>2. CASE table' = [table EXCEPT ![Own(t)].tlfs.counting = FALSE]
    <3>1. table' = [table EXCEPT ![Own(t)].tlfs = [table[Own(t)].tlfs EXCEPT !.counting = FALSE]]
      BY <2>2
    <3> QED
      BY <3>1, NewLists
  <2> QED
    BY <2>1, <2>2 DEF GC_malloc
<1>3. PICK r : /\ Became(t, r) /\ DOMAIN r = DOMAIN th[t] /\ r.pc \in {"core", "many", "take", "run"}
               /\ r.id = th[t].id /\ r.unregisters = th[t].unregisters
  <2>1. CASE Became(t, With(t, "core"))
    BY <2>1, Stays
  <2>2. CASE Became(t, With(t, "many"))
    BY <2>2, Stays
  <2>3. CASE ReadHead(t)
    BY <2>3, Stays DEF ReadHead, ShapeInv, ThreadFields
  <2> QED
    BY <2>1, <2>2, <2>3 DEF GC_malloc
<1>4. r.pc \in Ordinary \ Locking
  BY <1>3 DEF Ordinary, Plain, Locking
<1> QED
  BY <1>1, <1>2, <1>3, <1>4, OwnStep

\* The head of the list is taken.
LEMMA TakesHead ==
  ASSUME WorldInv, NEW t \in Threads, TakeHead(t), UNCHANGED menu
  PROVE  WorldInv'
<1> DEFINE r == [With(t, "run") EXCEPT !.held = @ \cup {th[t].obj}, !.obj = NULL]
<1>1. th[t].pc \in Plain /\ lock' = lock /\ UNCHANGED stop /\ SameCollector
  BY SameGc DEF TakeHead, In, Plain, WorldInv
<1>2. SameKeys
  BY NewList DEF TakeHead, WorldInv
<1>3. Became(t, r)
  BY DEF TakeHead
<1>4. ShapeInv
  BY DEF WorldInv
<1>5. DOMAIN r = DOMAIN th[t] /\ r.pc = "run" /\ r.id = th[t].id /\ r.unregisters = th[t].unregisters
  BY ONLY <1>4, t \in Threads DEF With, ShapeInv, ThreadFields
<1>6. r.pc \in Ordinary \ Locking
  BY <1>5 DEF Ordinary, Plain, Locking
<1> HIDE DEF r
<1> QED
  BY <1>1, <1>2, <1>3, <1>5, <1>6, OwnStep

\* GC_core_malloc: an object under the lock, after a collection if need be.
LEMMA CoreMalloc ==
  ASSUME WorldInv, NEW t \in Threads, GC_core_malloc(t), UNCHANGED menu
  PROVE  WorldInv'
<1> USE DEF WorldInv
<1>1. th[t].pc \in Plain /\ lock \in {NULL, t} /\ SameKeys /\ UNCHANGED stop
  BY SameTable DEF GC_core_malloc, In, Plain, GetsLock
<1>2. CASE StartGC(t, "core_again", FALSE)
  BY <1>1, <1>2, StartsGC
<1>3. CASE /\ lock' = NULL /\ UNCHANGED gc
           /\ \/ Became(t, [With(t, "run") EXCEPT !.held = @ \cup {Min(GC_allocobj)}])
              \/ Became(t, With(t, "run"))
  <2>1. PICK r : /\ Became(t, r) /\ DOMAIN r = DOMAIN th[t] /\ r.pc = "run"
                 /\ r.id = th[t].id /\ r.unregisters = th[t].unregisters
    <3>1. CASE Became(t, With(t, "run"))
      BY <3>1, Stays
    <3>2. CASE Became(t, [With(t, "run") EXCEPT !.held = @ \cup {Min(GC_allocobj)}])
      BY <3>2, Stays DEF ShapeInv, ThreadFields
    <3> QED
      BY <1>3, <3>1, <3>2
  <2>2. r.pc \in Ordinary \ Locking
    BY <2>1 DEF Ordinary, Plain, Locking
  <2>3. SameCollector
    BY <1>3, SameGc
  <2> QED
    BY <1>1, <1>3, <2>1, <2>2, <2>3, OwnStep
<1> QED
  BY <1>2, <1>3 DEF GC_core_malloc

\* GC_generic_malloc_many: a list under the lock, or a block to sweep without it.
LEMMA MallocMany ==
  ASSUME WorldInv, NEW t \in Threads, GC_generic_malloc_many(t), UNCHANGED menu
  PROVE  WorldInv'
<1> USE DEF WorldInv
<1>1. th[t].pc \in Plain /\ lock \in {NULL, t} /\ UNCHANGED stop
  BY DEF GC_generic_malloc_many, In, Plain, GetsLock
<1>2. CASE StartGC(t, "many_again", FALSE) /\ UNCHANGED table
  BY <1>1, <1>2, SameTable, StartsGC
<1>3. ASSUME NEW r, Became(t, r), DOMAIN r = DOMAIN th[t], r.pc \in {"run", "filled", "join_builders"},
             r.id = th[t].id, r.unregisters = th[t].unregisters,
             lock' = t \/ (lock' = NULL /\ r.pc # "join_builders"), UNCHANGED gc, SameKeys
      PROVE  WorldInv'
  <2>1. Continues(t, r) /\ th'[t] = r
    BY <1>3, GoesOn DEF Ordinary, Plain
  <2>2. Locks(t)
    BY <1>1, <1>3, <2>1 DEF Locks, Locking
  <2>3. SameCollector
    BY <1>3, SameGc
  <2> QED
    BY <1>1, <1>3, <2>1, <2>2, <2>3, PlainStep
<1>4. ASSUME NEW list, ManyInOneGo(t, list), UNCHANGED gc PROVE WorldInv'
  <2>1. SameKeys
    BY <1>4, NewList DEF ManyInOneGo
  <2>2. /\ Became(t, With(t, "filled")) /\ lock' = NULL
        /\ DOMAIN With(t, "filled") = DOMAIN th[t] /\ With(t, "filled").pc = "filled"
        /\ With(t, "filled").id = th[t].id /\ With(t, "filled").unregisters = th[t].unregisters
    BY <1>4, Stays DEF ManyInOneGo
  <2> QED
    BY <1>3, <1>4, <2>1, <2>2
<1>5. CASE FillFromBlock(t)
  <2>1. CASE pm.parallel
    <3> DEFINE r == [With(t, "join_builders") EXCEPT !.build = NextBlock]
    <3>1. Became(t, r) /\ lock' = t /\ UNCHANGED <<table, gc>>
      BY <1>5, <2>1 DEF FillFromBlock
    <3>2. /\ DOMAIN r = DOMAIN th[t] /\ r.pc = "join_builders"
          /\ r.id = th[t].id /\ r.unregisters = th[t].unregisters
      BY Stays DEF ShapeInv, ThreadFields
    <3>3. SameKeys
      BY <3>1, SameTable
    <3> HIDE DEF r
    <3> QED
      BY <1>3, <3>1, <3>2, <3>3
  <2> QED
    BY <1>4, <1>5, <2>1 DEF FillFromBlock
<1>6. CASE FillFromFreeList(t)
  BY <1>4, <1>6 DEF FillFromFreeList
<1>7. CASE FillWithOne(t)
  <2>1. CASE Became(t, With(t, "run")) /\ lock' = NULL /\ UNCHANGED <<table, gc, heap>>
    <3>1. SameKeys
      BY <2>1, SameTable
    <3>2. /\ DOMAIN With(t, "run") = DOMAIN th[t] /\ With(t, "run").pc = "run"
          /\ With(t, "run").id = th[t].id /\ With(t, "run").unregisters = th[t].unregisters
      BY Stays
    <3> QED
      BY <1>3, <2>1, <3>1, <3>2
  <2> QED
    BY <1>2, <1>4, <1>7, <2>1 DEF FillWithOne
<1> QED
  BY <1>5, <1>6, <1>7 DEF GC_generic_malloc_many

\* All that a thread does to allocate, and to ask for a collection.
LEMMA Allocates ==
  ASSUME WorldInv, NEW t \in Threads, Allocating(t) \/ Building(t) \/ Forget(t) \/ GC_gcollect(t),
         UNCHANGED menu
  PROVE  WorldInv'
<1> USE DEF WorldInv
<1>1. CASE JoinBuilders(t)
  <2>1. /\ th[t].pc = "join_builders" /\ Became(t, With(t, "sweep")) /\ lock' = NULL
        /\ gc' = [gc EXCEPT !.builders = @ + 1] /\ UNCHANGED <<table, stop>>
    BY <1>1 DEF JoinBuilders, In
  <2>2. lock = t
    BY <2>1 DEF LockInv, Locking
  <2>3. SameCollector /\ SameKeys
    BY <2>1, SameTable DEF ShapeInv, SameCollector, CollectorFields
  <2>4. th[t].pc \in Plain /\ "sweep" \in Ordinary \ Locking
    BY <2>1 DEF Plain, Ordinary, Locking
  <2> QED
    BY <2>1, <2>2, <2>3, <2>4, Stays, OwnStep
<1>2. CASE SweepBlock(t)
  <2>1. /\ th[t].pc \in Plain /\ UNCHANGED <<table, stop, gc, lock>>
        /\ Became(t, [With(t, "store_list") EXCEPT !.build = Swept(@)])
    BY <1>2 DEF SweepBlock, In, Plain
  <2>2. PICK r : /\ Became(t, r) /\ DOMAIN r = DOMAIN th[t] /\ r.pc = "store_list"
                 /\ r.id = th[t].id /\ r.unregisters = th[t].unregisters
    BY <2>1, Stays DEF ShapeInv, ThreadFields
  <2>3. SameCollector /\ SameKeys /\ r.pc \in Ordinary \ Locking
    BY <2>1, <2>2, SameTable, SameGc DEF Ordinary, Plain, Locking
  <2> QED
    BY <2>1, <2>2, <2>3, OwnStep
<1>3. CASE StoreList(t)
  <2>1. /\ th[t].pc \in Plain /\ UNCHANGED <<stop, gc, lock>>
        /\ Became(t, [With(t, "leave_builders") EXCEPT !.build = {}])
    BY <1>3 DEF StoreList, In, Plain
  <2>2. PICK r : /\ Became(t, r) /\ DOMAIN r = DOMAIN th[t] /\ r.pc = "leave_builders"
                 /\ r.id = th[t].id /\ r.unregisters = th[t].unregisters
    BY <2>1, Stays DEF ShapeInv, ThreadFields
  <2>3. SameCollector /\ SameKeys /\ r.pc \in Ordinary \ Locking
    BY <1>3, <2>1, <2>2, NewList, SameGc DEF Ordinary, Plain, Locking, StoreList
  <2> QED
    BY <2>1, <2>2, <2>3, OwnStep
<1>4. CASE LeaveBuilders(t)
  <2>1. /\ th[t].pc \in Plain /\ UNCHANGED <<table, stop, lock>>
        /\ Became(t, With(t, "filled"))
        /\ gc' = [gc EXCEPT !.builders = @ - 1, !.asleep = IF gc.builders = 1 THEN {} ELSE @]
    BY <1>4 DEF LeaveBuilders, In, Plain
  <2>2. SameCollector /\ SameKeys /\ "filled" \in Ordinary \ Locking
    BY <2>1, SameTable DEF ShapeInv, SameCollector, CollectorFields, Ordinary, Plain, Locking
  <2> QED
    BY <2>1, <2>2, Stays, OwnStep
<1>5. CASE TakeFilled(t)
  <2>1. th[t].pc \in Plain /\ UNCHANGED <<table, stop, gc, lock>> /\ ReadHead(t)
    BY <1>5 DEF TakeFilled, In, Plain
  <2>2. PICK r : /\ Became(t, r) /\ DOMAIN r = DOMAIN th[t] /\ r.pc \in {"take", "run"}
                 /\ r.id = th[t].id /\ r.unregisters = th[t].unregisters
    BY <2>1, Stays DEF ReadHead, ShapeInv, ThreadFields
  <2>3. SameCollector /\ SameKeys /\ r.pc \in Ordinary \ Locking
    BY <2>1, <2>2, SameTable, SameGc DEF Ordinary, Plain, Locking
  <2> QED
    BY <2>1, <2>2, <2>3, OwnStep
<1>6. CASE Forget(t)
  <2>1. th[t].pc = "run" /\ UNCHANGED <<table, stop, gc, lock>>
    BY <1>6 DEF Forget, In
  <2>2. PICK r : /\ Became(t, r) /\ DOMAIN r = DOMAIN th[t] /\ r.pc = "run"
                 /\ r.id = th[t].id /\ r.unregisters = th[t].unregisters
    BY <1>6, <2>1 DEF Forget, ShapeInv, ThreadFields
  <2>3. SameCollector /\ SameKeys /\ r.pc \in Ordinary \ Locking /\ th[t].pc \in Plain
    BY <2>1, <2>2, SameTable, SameGc DEF Ordinary, Plain, Locking
  <2> QED
    BY <2>1, <2>2, <2>3, OwnStep
<1>7. CASE GC_gcollect(t)
  <2>1. /\ th[t].pc \in Plain /\ lock = NULL /\ UNCHANGED <<table, stop>>
        /\ StartGC(t, "run", FALSE)
    BY <1>7 DEF GC_gcollect, In, Plain
  <2> QED
    BY <2>1, SameTable, StartsGC
<1> QED
  BY <1>1, <1>2, <1>3, <1>4, <1>5, <1>6, <1>7, Malloc, TakesHead, CoreMalloc, MallocMany
     DEF Allocating, Building

-----------------------------------------------------------------------------
\* Signals.

\* The handler of one thread goes on, and answers nothing.
\* Its answer to this stop, if it has given one, counts as before.
Handles(t, pending, h) ==
  /\ DOMAIN stop' = StopFields /\ stop'.count = stop.count /\ stop'.acks = stop.acks
  /\ stop'.world_is_stopped = stop.world_is_stopped
  /\ DOMAIN stop'.pending = Threads /\ DOMAIN stop'.handler = Threads
  /\ \A u \in Threads : /\ stop'.pending[u] = IF u = t THEN pending ELSE stop.pending[u]
                        /\ stop'.handler[u] = IF u = t THEN h ELSE stop.handler[u]
  /\ SUSPEND \in pending => SUSPEND \in stop.pending[t] /\ h.pc # "entered"
  /\ DOMAIN h = HandlerFields /\ h.pc \in {"none", "entered", "answered", "waiting", "woken"}
  /\ h.my_stop_count \in 0..stop.count
  /\ h.pc # "none" => Known(t)
  /\ h.pc = "entered" => /\ SUSPEND \in stop.pending[t] \/ stop.handler[t].pc = "entered"
                         /\ h.my_stop_count = stop.count
  /\ gc.phase \in Stopped =>
       (h.pc \in {"answered", "waiting", "woken"} /\ h.my_stop_count = stop.count <=> Answered(t))

\* Whether a thread has answered stays, if the handler moves on within its answer.
LEMMA HandlerGoesOn ==
  ASSUME WorldInv, NEW t \in Threads, NEW pending, NEW h, Handles(t, pending, h),
         UNCHANGED <<th, table, gc, lock, menu>>
  PROVE  WorldInv'
<1> USE DEF Handles
<1>1. /\ DOMAIN stop'.pending = Threads /\ DOMAIN stop'.handler = Threads
      /\ stop'.handler[t] = h /\ stop'.pending[t] = pending
      /\ \A u \in Threads : u # t => stop'.handler[u] = stop.handler[u] /\ stop'.pending[u] = stop.pending[u]
  BY DEF WorldInv, ShapeInv
<1>2. ShapeInv'
  <2>1. \A u \in Threads : DOMAIN stop'.handler[u] = HandlerFields
    BY <1>1 DEF WorldInv, ShapeInv
  <2> QED
    BY <1>1, <2>1 DEF WorldInv, ShapeInv, Index
<1>3. TableInv' /\ IdInv' /\ JoinInv' /\ LockInv' /\ ~gc'.aborted
  BY IdsStay DEF WorldInv, TableInv, JoinInv, LockInv, Known, Alive, Index, Owner
<1>4. \A u : Known(u)' <=> Known(u)
  BY DEF Known
<1>5. Index' = Index /\ Others' = Others /\ \A k : Owner(k)' = Owner(k)
  BY DEF Index, Others, Unfinished, Owner
<1>6. Others \subseteq Index /\ \A k \in Index : Owner(k) \in Threads
  BY DEF Others, Unfinished, Index, WorldInv, TableInv
<1>7. CASE gc.phase \in Stopped
  <2>1. \A u \in Threads : Answered(u)' <=> Answered(u)
    BY <1>1, <1>7 DEF Answered
  <2>2. Unanswered' = Unanswered
    BY <1>5, <1>6, <2>1 DEF Unanswered
  <2>3. SignalInv'
    <3>1. \A u \in Threads : SUSPEND \in stop'.pending[u] \/ stop'.handler[u].pc = "entered" =>
                            SUSPEND \in stop.pending[u] \/ stop.handler[u].pc = "entered"
      BY <1>1
    <3>2. \A u \in Threads : SUSPEND \in stop'.pending[u] \/ stop'.handler[u].pc = "entered" =>
                            gc'.phase = "suspend" /\ (\E k \in Unanswered : Owner(k) = u)'
      BY <3>1, <1>5, <2>2 DEF WorldInv, SignalInv
    <3>3. \A u \in Threads :
             /\ stop'.handler[u].pc \in {"none", "entered", "answered", "waiting", "woken"}
             /\ stop'.handler[u].my_stop_count \in 0..stop'.count
             /\ stop'.handler[u].pc # "none" => Known(u)'
             /\ SUSPEND \in stop'.pending[u] => stop'.handler[u].pc # "entered"
             /\ stop'.handler[u].pc = "entered" => stop'.handler[u].my_stop_count = stop'.count
      BY <1>1, <1>4 DEF WorldInv, SignalInv
    <3> QED
      BY <3>2, <3>3, <1>5 DEF WorldInv, SignalInv
  <2>4. AnswerInv'
    BY <1>5, <1>6, <2>1, <2>2 DEF WorldInv, AnswerInv
  <2> QED
    BY <1>2, <1>3, <2>3, <2>4 DEF WorldInv
<1>8. CASE gc.phase \notin Stopped
  <2>1. SignalInv'
    BY <1>1, <1>4, <1>5, <1>8 DEF WorldInv, SignalInv, Stopped
  <2>2. AnswerInv'
    BY <1>8 DEF WorldInv, AnswerInv, Stopped
  <2> QED
    BY <1>2, <1>3, <2>1, <2>2 DEF WorldInv
<1> QED
  BY <1>7, <1>8

\* Such a step of a handler preserves the invariant.
LEMMA Quietly ==
  ASSUME WorldInv, NEW t \in Threads,
         EnterHandler(t) \/ Restarted(t) \/ Disturbed(t) \/ Woken(t) \/ GC_restart_handler(t),
         UNCHANGED <<th, gc, lock, menu>>
  PROVE  WorldInv'
<1>1. /\ DOMAIN stop = StopFields /\ DOMAIN stop.pending = Threads /\ DOMAIN stop.handler = Threads
      /\ DOMAIN stop.handler[t] = HandlerFields
  BY DEF WorldInv, ShapeInv
<1>2. /\ stop.handler[t].my_stop_count \in 0..stop.count
      /\ stop.handler[t].pc # "none" => Known(t)
      /\ SUSPEND \in stop.pending[t] => stop.handler[t].pc # "entered"
      /\ stop.count \in Nat
  BY DEF WorldInv, SignalInv, AnswerInv
<1>3. SUSPEND # RESTART
  BY DEF SUSPEND, RESTART
<1>4. CASE EnterHandler(t)
  <2> DEFINE h == [pc |-> "entered", my_stop_count |-> stop.count]
  <2>1. /\ stop' = [stop EXCEPT !.pending[t] = @ \ {SUSPEND}, !.handler[t] = h]
        /\ stop.handler[t].pc = "none" /\ SUSPEND \in stop.pending[t] /\ UNCHANGED table
    BY <1>4 DEF EnterHandler, Handler, InHandler
  <2>2. /\ DOMAIN stop' = StopFields /\ stop'.count = stop.count /\ stop'.acks = stop.acks
        /\ stop'.world_is_stopped = stop.world_is_stopped
        /\ DOMAIN stop'.pending = Threads /\ DOMAIN stop'.handler = Threads
        /\ \A u \in Threads : /\ stop'.pending[u] = IF u = t THEN stop.pending[t] \ {SUSPEND} ELSE stop.pending[u]
                              /\ stop'.handler[u] = IF u = t THEN h ELSE stop.handler[u]
    BY <1>1, <2>1 DEF StopFields
  <2>3. Known(t)
    BY <2>1 DEF WorldInv, SignalInv, Unanswered, Others, Unfinished, TableInv, Index
  <2>4. DOMAIN h = HandlerFields /\ h.pc = "entered" /\ h.my_stop_count = stop.count
    BY DEF HandlerFields
  <2>5. ~Answered(t)
    BY <2>1 DEF Answered
  <2>6. stop.count \in 0..stop.count
    BY <1>2
  <2> HIDE DEF h
  <2>7. Handles(t, stop.pending[t] \ {SUSPEND}, h)
    BY <2>1, <2>2, <2>3, <2>4, <2>5, <2>6 DEF Handles
  <2> QED
    BY <2>1, <2>7, HandlerGoesOn
<1>5. CASE Restarted(t)
  <2> DEFINE h == [stop.handler[t] EXCEPT !.pc = "woken"]
  <2>1. /\ stop' = [stop EXCEPT !.pending[t] = @ \ {RESTART}, !.handler[t] = h]
        /\ stop.handler[t].pc = "waiting" /\ UNCHANGED table
    BY <1>5 DEF Restarted, InHandler
  <2>2. /\ DOMAIN stop' = StopFields /\ stop'.count = stop.count /\ stop'.acks = stop.acks
        /\ stop'.world_is_stopped = stop.world_is_stopped
        /\ DOMAIN stop'.pending = Threads /\ DOMAIN stop'.handler = Threads
        /\ \A u \in Threads : /\ stop'.pending[u] = IF u = t THEN stop.pending[t] \ {RESTART} ELSE stop.pending[u]
                              /\ stop'.handler[u] = IF u = t THEN h ELSE stop.handler[u]
    BY <1>1, <2>1 DEF StopFields
  <2>3. DOMAIN h = HandlerFields /\ h.pc = "woken" /\ h.my_stop_count = stop.handler[t].my_stop_count
    BY <1>1 DEF HandlerFields
  <2> HIDE DEF h
  <2>4. Handles(t, stop.pending[t] \ {RESTART}, h)
    BY <1>2, <2>1, <2>2, <2>3 DEF Handles, Answered
  <2> QED
    BY <2>1, <2>4, HandlerGoesOn
<1>6. ASSUME NEW h, DOMAIN h = HandlerFields, h.pc \in {"none", "waiting", "woken"},
             stop.handler[t].pc \in {"waiting", "woken"}, UNCHANGED table,
             stop' = [stop EXCEPT !.handler[t] = h], h.my_stop_count \in 0..stop.count,
             gc.phase \in Stopped =>
               (h.pc \in {"answered", "waiting", "woken"} /\ h.my_stop_count = stop.count <=> Answered(t))
      PROVE  WorldInv'
  <2>1. /\ DOMAIN stop' = StopFields /\ stop'.count = stop.count /\ stop'.acks = stop.acks
        /\ stop'.world_is_stopped = stop.world_is_stopped
        /\ DOMAIN stop'.pending = Threads /\ DOMAIN stop'.handler = Threads
        /\ \A u \in Threads : /\ stop'.pending[u] = IF u = t THEN stop.pending[t] ELSE stop.pending[u]
                              /\ stop'.handler[u] = IF u = t THEN h ELSE stop.handler[u]
    BY <1>1, <1>6 DEF StopFields
  <2>2. Handles(t, stop.pending[t], h)
    BY <1>2, <1>6, <2>1 DEF Handles
  <2> QED
    BY <1>6, <2>2, HandlerGoesOn
<1>7. CASE Disturbed(t)
  <2> DEFINE h == [stop.handler[t] EXCEPT !.pc = "woken"]
  <2>1. /\ stop' = [stop EXCEPT !.handler[t] = h]
        /\ stop.handler[t].pc = "waiting" /\ UNCHANGED table
    BY <1>7 DEF Disturbed, InHandler
  <2>2. DOMAIN h = HandlerFields /\ h.pc = "woken" /\ h.my_stop_count = stop.handler[t].my_stop_count
    BY <1>1 DEF HandlerFields
  <2> HIDE DEF h
  <2> QED
    BY <1>2, <2>1, <2>2, <1>6 DEF Answered
<1>8. CASE Woken(t)
  <2>1. stop.handler[t].pc = "woken" /\ UNCHANGED table
    BY <1>8 DEF Woken, InHandler
  <2>2. CASE MustWait(t)
    <3> DEFINE h == [stop.handler[t] EXCEPT !.pc = "waiting"]
    <3>1. stop' = [stop EXCEPT !.handler[t] = h]
      BY <1>8, <2>2 DEF Woken
    <3>2. DOMAIN h = HandlerFields /\ h.pc = "waiting" /\ h.my_stop_count = stop.handler[t].my_stop_count
      BY <1>1 DEF HandlerFields
    <3> HIDE DEF h
    <3> QED
      BY <1>2, <2>1, <3>1, <3>2, <1>6 DEF Answered
  <2>3. CASE ~MustWait(t)
    <3>1. stop' = [stop EXCEPT !.handler[t] = Outside]
      BY <1>8, <2>3 DEF Woken
    <3>2. DOMAIN Outside = HandlerFields /\ Outside.pc = "none" /\ Outside.my_stop_count = 0
      BY DEF HandlerFields, Outside, Handler
    <3>3. gc.phase \in Stopped => ~Answered(t)
      BY <2>3 DEF MustWait, Answered, WorldInv, SignalInv
    <3>4. 0 \in 0..stop.count
      BY <1>2
    <3> QED
      BY <2>1, <3>1, <3>2, <3>3, <3>4, <1>6
  <2> QED
    BY <2>2, <2>3
<1>9. CASE GC_restart_handler(t)
  <2>1. stop' = [stop EXCEPT !.pending[t] = @ \ {RESTART}] /\ stop.handler[t].pc = "none" /\ UNCHANGED table
    BY <1>9 DEF GC_restart_handler, InHandler
  <2>2. /\ DOMAIN stop' = StopFields /\ stop'.count = stop.count /\ stop'.acks = stop.acks
        /\ stop'.world_is_stopped = stop.world_is_stopped
        /\ DOMAIN stop'.pending = Threads /\ DOMAIN stop'.handler = Threads
        /\ \A u \in Threads : /\ stop'.pending[u] = IF u = t THEN stop.pending[t] \ {RESTART} ELSE stop.pending[u]
                              /\ stop'.handler[u] = IF u = t THEN stop.handler[t] ELSE stop.handler[u]
    BY <1>1, <2>1 DEF StopFields
  <2>3. Handles(t, stop.pending[t] \ {RESTART}, stop.handler[t])
    BY <1>1, <1>2, <2>1, <2>2 DEF Handles, Answered
  <2> QED
    BY <2>1, <2>3, HandlerGoesOn
<1> QED
  BY <1>4, <1>5, <1>7, <1>8, <1>9

\* An entry gets new contents in the middle of a stop.
LEMMA EntryNoted ==
  ASSUME ShapeInv, TableInv, IdInv, NEW k \in Index, NEW e, table' = [table EXCEPT ![k] = e],
         DOMAIN e = EntryFields, e.of = table[k].of, e.id = table[k].id, e.flags = table[k].flags,
         e.thread_blocked = table[k].thread_blocked,
         UNCHANGED <<th, gc, menu>>
  PROVE  /\ \E E : table' \in Seq(E)
         /\ Index' = Index /\ Len(table') = Len(table)
         /\ \A j \in Index : DOMAIN table'[j] = EntryFields /\ Owner(j)' = Owner(j)
         /\ \A j \in Index : table'[j] = IF j = k THEN e ELSE table[j]
         /\ Others' = Others /\ TableInv' /\ IdInv'
<1>1. PICK E : table \in Seq(E)
  BY DEF ShapeInv
<1>2. /\ \E F : table' \in Seq(F)
      /\ Len(table') = Len(table) /\ DOMAIN table' = DOMAIN table
  BY ONLY <1>1, Replaced, table' = [table EXCEPT ![k] = e]
<1>3. \A j \in Index : table'[j] = IF j = k THEN e ELSE table[j]
  BY <1>1 DEF Index
<1>4. \A j \in Index : /\ DOMAIN table'[j] = EntryFields
                       /\ table'[j].of = table[j].of /\ table'[j].id = table[j].id
                       /\ table'[j].flags = table[j].flags
                       /\ table'[j].thread_blocked = table[j].thread_blocked
  BY <1>3 DEF ShapeInv
<1>5. Index' = Index /\ \A j \in Index : Owner(j)' = Owner(j)
  BY <1>2, <1>4 DEF Index, Owner
<1>6. Others' = Others
  BY <1>4, <1>5 DEF Others, Unfinished, Index
<1>7. TableInv' /\ IdInv'
  BY <1>4, <1>5, IdsStay DEF TableInv, Known, Alive
<1> QED
  BY <1>2, <1>3, <1>4, <1>5, <1>6, <1>7

\* The threads still to answer can be counted.
LEMMA FiniteUnanswered ==
  ASSUME ShapeInv
  PROVE  IsFiniteSet(Unanswered) /\ Cardinality(Unanswered) \in Nat /\ Unanswered \subseteq Index
<1>1. PICK n \in Nat : n = Len(table) /\ Index = 1..n
  BY Entries
<1>2. IsFiniteSet(1..n)
  BY UpTo
<1>3. Unanswered \subseteq Index /\ Unanswered \in SUBSET (1..n)
  BY <1>1 DEF Unanswered, Others, Unfinished, Index
<1>4. IsFiniteSet(Unanswered)
  BY ONLY <1>2, <1>3, FS_Subset
<1>5. Cardinality(Unanswered) \in Nat
  BY ONLY <1>4, FS_CardinalityType
<1> QED
  BY <1>3, <1>4, <1>5

\* A thread answers: one more on the semaphore, one fewer to answer.
LEMMA Answers ==
  ASSUME WorldInv, NEW t \in Threads, Answer(t), UNCHANGED <<th, gc, lock, menu>>
  PROVE  WorldInv'
<1>1. stop.handler[t].pc = "entered"
  BY DEF Answer, InHandler
<1>2. PICK k \in Unanswered : Owner(k) = t
  BY <1>1 DEF WorldInv, SignalInv
<1>3. gc.phase = "suspend" /\ stop.handler[t].my_stop_count = stop.count
  BY <1>1 DEF WorldInv, SignalInv
<1>4. k \in Others /\ k \in Index /\ k < gc.next /\ FINISHED \notin table[k].flags /\ ~Answered(t)
  BY <1>2 DEF Unanswered, Others, Unfinished, Index
<1>5. Known(t)
  BY <1>2, <1>4 DEF WorldInv, TableInv
<1>6. Mine(t) = k
  BY <1>2, <1>4, <1>5, OwnEntry DEF WorldInv
<1>7. table[k].last_stop_count # stop.count
  BY <1>2, <1>3, <1>4 DEF WorldInv, AnswerInv
<1> DEFINE e == [table[k] EXCEPT !.stack = Stack(t)]
<1>8. /\ table' = [table EXCEPT ![k] = e]
      /\ stop' = [stop EXCEPT !.acks = @ + 1, !.handler[t].pc = "answered"]
  BY <1>3, <1>6, <1>7 DEF Answer
<1>9. /\ DOMAIN e = EntryFields /\ e.of = table[k].of /\ e.id = table[k].id /\ e.flags = table[k].flags
      /\ e.thread_blocked = table[k].thread_blocked /\ e.last_stop_count = table[k].last_stop_count
  BY <1>4 DEF WorldInv, ShapeInv, EntryFields
<1> HIDE DEF e
<1>10. /\ \E E : table' \in Seq(E)
       /\ Index' = Index /\ Len(table') = Len(table)
       /\ \A j \in Index : DOMAIN table'[j] = EntryFields /\ Owner(j)' = Owner(j)
       /\ \A j \in Index : table'[j] = IF j = k THEN e ELSE table[j]
       /\ Others' = Others /\ TableInv' /\ IdInv'
  BY <1>4, <1>8, <1>9, EntryNoted DEF WorldInv
<1>11. /\ DOMAIN stop' = StopFields /\ stop'.count = stop.count /\ stop'.acks = stop.acks + 1
       /\ stop'.world_is_stopped = stop.world_is_stopped /\ stop'.pending = stop.pending
       /\ DOMAIN stop'.handler = Threads
       /\ DOMAIN stop'.handler[t] = HandlerFields
       /\ stop'.handler[t].pc = "answered" /\ stop'.handler[t].my_stop_count = stop.count
       /\ \A u \in Threads : u # t => stop'.handler[u] = stop.handler[u]
  BY <1>3, <1>8 DEF WorldInv, ShapeInv, StopFields, HandlerFields
<1>12. ShapeInv'
  <2>1. \A u \in Threads : DOMAIN stop'.handler[u] = HandlerFields
    BY <1>11 DEF WorldInv, ShapeInv
  <2> QED
    BY <1>10, <1>11, <2>1 DEF WorldInv, ShapeInv
<1>13. JoinInv' /\ LockInv' /\ ~gc'.aborted
  BY DEF WorldInv, JoinInv, LockInv
<1>14. Answered(t)' /\ \A u \in Threads : u # t => (Answered(u)' <=> Answered(u))
  BY <1>11 DEF Answered
<1>15. \A j \in Index : Owner(j) \in Threads /\ (Owner(j) = t => j = k)
  BY <1>2, <1>4 DEF WorldInv, TableInv
<1>16. Others \subseteq Index
  BY DEF Others, Unfinished, Index
<1>17. Unanswered' = Unanswered \ {k}
  BY <1>2, <1>10, <1>14, <1>15, <1>16 DEF Unanswered
<1>18. Cardinality(Unanswered') = Cardinality(Unanswered) - 1 /\ Cardinality(Unanswered) \in Nat
  <2>1. IsFiniteSet(Unanswered) /\ Cardinality(Unanswered) \in Nat
    BY FiniteUnanswered DEF WorldInv
  <2>2. Cardinality(Unanswered \ {k}) = Cardinality(Unanswered) - 1
    BY ONLY k \in Unanswered, <2>1, FS_RemoveElement
  <2> QED
    BY ONLY <1>17, <2>1, <2>2
<1>19. SignalInv'
  <2>1. \A j \in Index : table'[j].last_stop_count = table[j].last_stop_count
    BY <1>9, <1>10
  <2>2. \A u \in Threads :
          SUSPEND \in stop'.pending[u] \/ stop'.handler[u].pc = "entered" =>
            u # t /\ (SUSPEND \in stop.pending[u] \/ stop.handler[u].pc = "entered")
    BY <1>1, <1>11 DEF WorldInv, SignalInv
  <2>3. \A u \in Threads :
          SUSPEND \in stop'.pending[u] \/ stop'.handler[u].pc = "entered" =>
            gc'.phase = "suspend" /\ (\E j \in Unanswered : Owner(j) = u)'
    <3>1. \A j \in Unanswered : Owner(j) # t => j \in Unanswered \ {k} /\ j \in Index
      BY <1>2, <1>16 DEF Unanswered
    <3> QED
      BY <2>2, <3>1, <1>10, <1>17 DEF WorldInv, SignalInv
  <2>4. \A u \in Threads :
             /\ stop'.handler[u].pc \in {"none", "entered", "answered", "waiting", "woken"}
             /\ stop'.handler[u].my_stop_count \in 0..stop'.count
             /\ stop'.handler[u].pc # "none" => Known(u)'
             /\ SUSPEND \in stop'.pending[u] => stop'.handler[u].pc # "entered"
             /\ stop'.handler[u].pc = "entered" => stop'.handler[u].my_stop_count = stop'.count
    <3>1. \A u : Known(u)' <=> Known(u)
      BY DEF Known
    <3>2. stop.count \in 0..stop.count
      BY DEF WorldInv, AnswerInv
    <3> QED
      BY <1>5, <1>11, <3>1, <3>2 DEF WorldInv, SignalInv
  <2> QED
    BY <1>10, <1>11, <2>1, <2>3, <2>4 DEF WorldInv, SignalInv
<1>20. AnswerInv'
  <2>1. stop'.acks \in Nat /\ gc'.n_live = stop'.acks + Cardinality(Unanswered')
    BY <1>3, <1>11, <1>18 DEF WorldInv, AnswerInv
  <2>2. \A j \in Others : j # k => (Answered(Owner(j))' <=> Answered(Owner(j)))
                                /\ table'[j].last_stop_count = table[j].last_stop_count
    BY <1>10, <1>14, <1>15, <1>16
  <2>3. Owner(k)' = t /\ ~(k >= gc.next)
    BY <1>2, <1>4, <1>10 DEF WorldInv, AnswerInv, Index
  <2>4. \A j \in Others : ~Answered(Owner(j))' => table'[j].last_stop_count # stop'.count
    BY <1>3, <1>11, <1>14, <2>2, <2>3 DEF WorldInv, AnswerInv
  <2>5. \A j \in Others : j >= gc'.next => ~Answered(Owner(j))'
    BY <1>3, <2>2, <2>3 DEF WorldInv, AnswerInv
  <2> QED
    BY <1>3, <1>10, <1>11, <2>1, <2>4, <2>5 DEF WorldInv, AnswerInv
<1> QED
  BY <1>10, <1>12, <1>13, <1>19, <1>20 DEF WorldInv

\* A thread notes which stop it answered; it does so once.
LEMMA Notes ==
  ASSUME WorldInv, NEW t \in Threads, NoteStop(t), UNCHANGED <<th, gc, lock, menu>>
  PROVE  WorldInv'
<1>1. stop.handler[t].pc = "answered" /\ Known(t)
  BY DEF NoteStop, InHandler, WorldInv, SignalInv
<1> DEFINE my == stop.handler[t].my_stop_count
<1>2. my \in 0..stop.count
  BY DEF WorldInv, SignalInv
<1>3. PICK k \in Index : k = Mine(t) /\ Owner(k) = t
  BY <1>1, OwnEntry DEF WorldInv
<1> DEFINE e == [table[k] EXCEPT !.last_stop_count = my]
<1>4. /\ table' = [table EXCEPT ![k] = e]
      /\ stop' = [stop EXCEPT !.handler[t].pc = "waiting"]
  BY <1>3 DEF NoteStop
<1>5. /\ DOMAIN e = EntryFields /\ e.of = table[k].of /\ e.id = table[k].id /\ e.flags = table[k].flags
      /\ e.thread_blocked = table[k].thread_blocked /\ e.last_stop_count = my
  BY <1>3 DEF WorldInv, ShapeInv, EntryFields
<1> HIDE DEF e
<1>6. /\ \E E : table' \in Seq(E)
      /\ Index' = Index /\ Len(table') = Len(table)
      /\ \A j \in Index : DOMAIN table'[j] = EntryFields /\ Owner(j)' = Owner(j)
      /\ \A j \in Index : table'[j] = IF j = k THEN e ELSE table[j]
      /\ Others' = Others /\ TableInv' /\ IdInv'
  BY <1>3, <1>4, <1>5, EntryNoted DEF WorldInv
<1>7. /\ DOMAIN stop' = StopFields /\ stop'.count = stop.count /\ stop'.acks = stop.acks
      /\ stop'.world_is_stopped = stop.world_is_stopped /\ stop'.pending = stop.pending
      /\ DOMAIN stop'.handler = Threads
      /\ DOMAIN stop'.handler[t] = HandlerFields
      /\ stop'.handler[t].pc = "waiting" /\ stop'.handler[t].my_stop_count = my
      /\ \A u \in Threads : u # t => stop'.handler[u] = stop.handler[u]
  BY <1>4 DEF WorldInv, ShapeInv, StopFields, HandlerFields
<1>8. ShapeInv'
  <2>1. \A u \in Threads : DOMAIN stop'.handler[u] = HandlerFields
    BY <1>7 DEF WorldInv, ShapeInv
  <2> QED
    BY <1>6, <1>7, <2>1 DEF WorldInv, ShapeInv
<1>9. JoinInv' /\ LockInv' /\ ~gc'.aborted
  BY DEF WorldInv, JoinInv, LockInv
<1>10. \A u \in Threads : Answered(u)' <=> Answered(u)
  BY <1>1, <1>7 DEF Answered
<1>11. Others \subseteq Index /\ \A j \in Index : Owner(j) \in Threads
  BY DEF Others, Unfinished, Index, WorldInv, TableInv
<1>12. Unanswered' = Unanswered
  BY <1>6, <1>10, <1>11 DEF Unanswered
<1>13. SignalInv'
  <2>1. \A j \in Index : table'[j].last_stop_count \in 0..stop'.count
    BY <1>2, <1>5, <1>6, <1>7 DEF WorldInv, SignalInv
  <2>2. \A u \in Threads :
          SUSPEND \in stop'.pending[u] \/ stop'.handler[u].pc = "entered" =>
            SUSPEND \in stop.pending[u] \/ stop.handler[u].pc = "entered"
    BY <1>7
  <2>3. \A u \in Threads :
          SUSPEND \in stop'.pending[u] \/ stop'.handler[u].pc = "entered" =>
            gc'.phase = "suspend" /\ (\E j \in Unanswered : Owner(j) = u)'
    BY <2>2, <1>6, <1>11, <1>12 DEF WorldInv, SignalInv, Unanswered
  <2>4. \A u \in Threads :
             /\ stop'.handler[u].pc \in {"none", "entered", "answered", "waiting", "woken"}
             /\ stop'.handler[u].my_stop_count \in 0..stop'.count
             /\ stop'.handler[u].pc # "none" => Known(u)'
             /\ SUSPEND \in stop'.pending[u] => stop'.handler[u].pc # "entered"
             /\ stop'.handler[u].pc = "entered" => stop'.handler[u].my_stop_count = stop'.count
    <3>1. \A u : Known(u)' <=> Known(u)
      BY DEF Known
    <3> QED
      BY <1>1, <1>7, <3>1 DEF WorldInv, SignalInv
  <2> QED
    BY <1>6, <1>7, <2>1, <2>3, <2>4 DEF WorldInv, SignalInv
<1>14. AnswerInv'
  <2>1. \A j \in Others : Answered(Owner(j))' <=> Answered(Owner(j))
    BY <1>6, <1>10, <1>11
  <2>2. Owner(k)' = t /\ (my = stop.count => Answered(t))
    BY <1>1, <1>3, <1>6 DEF Answered
  <2>3. \A j \in Others : ~Answered(Owner(j))' =>
           (table[j].last_stop_count # stop.count => table'[j].last_stop_count # stop'.count)
    BY <1>3, <1>5, <1>6, <1>7, <1>11, <2>1, <2>2
  <2> QED
    BY <1>6, <1>7, <1>12, <2>1, <2>3 DEF WorldInv, AnswerInv
<1> QED
  BY <1>6, <1>8, <1>9, <1>13, <1>14 DEF WorldInv

\* All that the signal handlers do.
LEMMA Signals ==
  ASSUME WorldInv, NEW t \in Threads, Signal(t) \/ UserSignal(t), UNCHANGED menu
  PROVE  WorldInv'
BY Quietly, Answers, Notes DEF Signal, UserSignal, GC_suspend_handler

-----------------------------------------------------------------------------
\* The collector.

\* It goes from one phase to another.
LEMMA CollectorGoesOn ==
  ASSUME WorldInv, UNCHANGED <<th, table, lock, menu>>,
         DOMAIN stop' = StopFields, stop'.handler = stop.handler, DOMAIN stop'.pending = Threads,
         DOMAIN gc' = CollectorFields, gc'.by = gc.by, gc'.then = gc.then,
         gc'.in_creation = gc.in_creation, gc'.aborted = gc.aborted,
         gc.phase # "none", gc'.phase \in Phases \ {"none"},
         SignalInv', AnswerInv'
  PROVE  WorldInv'
<1>1. ShapeInv'
  BY DEF WorldInv, ShapeInv, Index
<1>2. TableInv' /\ IdInv' /\ JoinInv'
  BY IdsStay DEF WorldInv, TableInv, JoinInv, Known, Alive, Index, Owner
<1>3. LockInv'
  BY DEF WorldInv, LockInv
<1> QED
  BY <1>1, <1>2, <1>3 DEF WorldInv

\* Between two stops.
LEMMA CollectorWaits ==
  ASSUME WorldInv, UNCHANGED <<th, table, stop, lock, menu>>,
         DOMAIN gc' = CollectorFields, gc'.by = gc.by, gc'.then = gc.then,
         gc'.in_creation = gc.in_creation, gc'.aborted = gc.aborted,
         gc'.n_live = gc.n_live, gc'.next = gc.next,
         gc.phase \notin Stopped \cup {"none"}, gc'.phase \in Phases \ (Stopped \cup {"none"})
  PROVE  WorldInv'
<1>1. DOMAIN stop' = StopFields /\ stop'.handler = stop.handler /\ DOMAIN stop'.pending = Threads
  BY DEF WorldInv, ShapeInv
<1>2. SignalInv' /\ AnswerInv'
  <2>1. \A u : Known(u)' <=> Known(u)
    BY DEF Known
  <2>2. \A k \in Index' : table'[k].last_stop_count \in 0..stop.count
    BY DEF WorldInv, SignalInv, Index
  <2>3. \A u \in Threads : stop.handler[u].pc # "none" => Known(u)'
    BY <2>1 DEF WorldInv, SignalInv
  <2>4. gc'.n_live \in Nat /\ gc'.next \in Nat \ {0} /\ SignalInv /\ AnswerInv
    BY DEF WorldInv, AnswerInv
  <2> QED
    BY <2>2, <2>3, <2>4, NoSignals
<1> QED
  BY <1>1, <1>2, CollectorGoesOn

\* The collector waits for the lists being built and clears the marks.
LEMMA Waits ==
  ASSUME WorldInv, WaitBeforeMarking \/ GC_clear_marks, UNCHANGED menu
  PROVE  WorldInv'
<1>1. DOMAIN gc = CollectorFields /\ UNCHANGED <<th, table, stop, lock, menu>>
  BY DEF WorldInv, ShapeInv, WaitBeforeMarking, GC_clear_marks
<1>2. gc.phase \in {"wait_for_reclaim", "clear"}
  BY DEF WaitBeforeMarking, GC_clear_marks, Phase
<1>3. \/ gc' = [gc EXCEPT !.phase = "clear"]
      \/ gc' = [gc EXCEPT !.asleep = @ \cup {gc.by}]
      \/ gc' = [gc EXCEPT !.phase = "stop"]
  BY DEF WaitBeforeMarking, GC_clear_marks, WaitForReclaim
<1>4. /\ DOMAIN gc' = CollectorFields /\ gc'.by = gc.by /\ gc'.then = gc.then
      /\ gc'.in_creation = gc.in_creation /\ gc'.aborted = gc.aborted
      /\ gc'.n_live = gc.n_live /\ gc'.next = gc.next
      /\ gc'.phase \in {"wait_for_reclaim", "clear", "stop"}
  BY <1>1, <1>2, <1>3 DEF CollectorFields
<1>5. gc.phase \notin Stopped \cup {"none"} /\ gc'.phase \in Phases \ (Stopped \cup {"none"})
  BY <1>2, <1>4 DEF Phases, Stopped
<1> QED
  BY <1>1, <1>4, <1>5, CollectorWaits

\* A new stop begins: nobody has answered it.
LEMMA BeginsStop ==
  ASSUME WorldInv, Phase("stop"), BeginStop, UNCHANGED <<th, table, lock, menu>>
  PROVE  WorldInv'
<1>1. gc.phase = "stop"
  BY DEF Phase
<1>2. /\ DOMAIN stop' = StopFields /\ stop'.count = stop.count + 1 /\ stop'.world_is_stopped = TRUE
      /\ stop'.acks = stop.acks /\ stop'.handler = stop.handler /\ stop'.pending = stop.pending
  BY DEF BeginStop, WorldInv, ShapeInv, StopFields
<1>3. /\ DOMAIN gc' = CollectorFields /\ gc'.by = gc.by /\ gc'.then = gc.then
      /\ gc'.in_creation = gc.in_creation /\ gc'.aborted = gc.aborted
      /\ gc'.phase = "suspend" /\ gc'.next = 1 /\ gc'.n_live = 0
  BY DEF BeginStop, WorldInv, ShapeInv, CollectorFields
<1>4. stop.count \in Nat /\ stop.acks = 0 /\ \A n \in 0..stop.count : n \in 0..stop.count + 1 /\ n # stop.count + 1
  BY <1>1 DEF WorldInv, AnswerInv
<1>5. \A u \in Threads : ~Answered(u)'
  BY <1>2, <1>4 DEF WorldInv, SignalInv, Answered
<1>6. \A u \in Threads : SUSPEND \notin stop'.pending[u] /\ stop'.handler[u].pc # "entered"
  BY <1>1, <1>2 DEF WorldInv, SignalInv
<1>7. \A k \in Others' : k \in Index /\ Owner(k)' \in Threads
  BY DEF Others, Unfinished, Index, Owner, WorldInv, TableInv
<1>8. Unanswered' = {}
  <2>1. ASSUME NEW k \in Unanswered' PROVE FALSE
    <3>1. PICK n \in Nat : n = Len(table) /\ Index = 1..n
      BY Entries DEF WorldInv
    <3>2. k \in 1..n /\ k < 1
      BY <1>3, <1>7, <2>1, <3>1 DEF Unanswered
    <3> QED
      BY <3>2
  <2> QED
    BY <2>1
<1>9. SignalInv'
  <2>1. \A u : Known(u)' <=> Known(u)
    BY <1>3 DEF Known
  <2> QED
    BY <1>2, <1>3, <1>4, <1>6, <2>1 DEF WorldInv, SignalInv, Stopped, Index
<1>10. AnswerInv'
  <2>1. Cardinality(Unanswered') = 0
    BY <1>8, FS_EmptySet
  <2>2. \A k \in Others' : table'[k].last_stop_count # stop'.count /\ ~Answered(Owner(k))'
    <3>1. \A k \in Others' : ~Answered(Owner(k))'
      BY <1>5, <1>7 DEF Answered
    <3>2. \A k \in Index : table[k].last_stop_count # stop'.count
      BY <1>2, <1>4 DEF WorldInv, SignalInv
    <3> QED
      BY <1>7, <3>1, <3>2
  <2> QED
    BY <1>2, <1>3, <1>4, <2>1, <2>2 DEF AnswerInv
<1> QED
  BY <1>1, <1>2, <1>3, <1>9, <1>10, CollectorGoesOn DEF Phases, WorldInv, ShapeInv

\* One entry is looked at: its thread gets a signal, or needs none.
LEMMA Suspends ==
  ASSUME WorldInv, GC_suspend_all, UNCHANGED <<th, table, lock, menu>>
  PROVE  WorldInv'
<1> DEFINE k == gc.next
           live == k \in Others /\ table[k].last_stop_count # stop.count
           id == table[k].id
           pending == stop.pending[Named(id)] \cup {SUSPEND}
<1>1. gc.phase = "suspend" /\ k <= Len(table) /\ k \in Nat \ {0} /\ gc.n_live \in Nat
  BY DEF GC_suspend_all, Phase, WorldInv, AnswerInv
<1>2. k \in Index
  BY <1>1, Entries DEF WorldInv
<1>3. gc' = [gc EXCEPT !.next = k + 1, !.n_live = @ + (IF live THEN 1 ELSE 0)]
  BY DEF GC_suspend_all
<1>4. stop' = IF live THEN [stop EXCEPT !.pending[Named(id)] = pending] ELSE stop
  BY DEF GC_suspend_all
<1>5. /\ DOMAIN gc' = CollectorFields /\ gc'.by = gc.by /\ gc'.then = gc.then
      /\ gc'.in_creation = gc.in_creation /\ gc'.aborted = gc.aborted
      /\ gc'.phase = "suspend" /\ gc'.next = k + 1
      /\ gc'.n_live = gc.n_live + (IF live THEN 1 ELSE 0)
  BY <1>1, <1>3 DEF WorldInv, ShapeInv, CollectorFields
<1>6. /\ DOMAIN stop' = StopFields /\ stop'.count = stop.count /\ stop'.acks = stop.acks
      /\ stop'.world_is_stopped = stop.world_is_stopped /\ stop'.handler = stop.handler
      /\ DOMAIN stop'.pending = Threads
      /\ \A u \in Threads :
           stop'.pending[u] = IF live /\ u = Named(id) THEN pending ELSE stop.pending[u]
  BY <1>4 DEF WorldInv, ShapeInv, StopFields
<1>7. k \in Others => Named(id) = Owner(k) /\ Known(Owner(k)) /\ Owner(k) \in Threads
  <2>1. k \in Others => Known(Owner(k))
    BY <1>2 DEF Others, Unfinished, WorldInv, TableInv
  <2> QED
    BY <1>2, <2>1, SignalReaches DEF WorldInv
<1>8. /\ Others' = Others /\ \A j : Owner(j)' = Owner(j)
      /\ \A u : (Answered(u)' <=> Answered(u)) /\ (Known(u)' <=> Known(u))
  BY <1>5, <1>6 DEF Others, Unfinished, Owner, Answered, Known
<1>9. k \in Others => ~Answered(Owner(k)) /\ live
  BY <1>1 DEF WorldInv, AnswerInv
<1> HIDE DEF live, pending
<1>10. \A j \in Others : j \in Nat
  BY Entries DEF WorldInv, Others, Unfinished, Index
<1>11. Unanswered' = Unanswered \cup (IF k \in Others THEN {k} ELSE {})
  <2>1. \A j \in Others : j < k + 1 <=> j < k \/ j = k
    BY <1>1, <1>10
  <2> QED
    BY <1>5, <1>8, <1>9, <2>1 DEF Unanswered
<1>12. gc'.n_live = stop'.acks + Cardinality(Unanswered')
  <2>1. IsFiniteSet(Unanswered) /\ Cardinality(Unanswered) \in Nat
    BY FiniteUnanswered DEF WorldInv
  <2>2. stop.acks \in Nat /\ gc.n_live = stop.acks + Cardinality(Unanswered)
    BY <1>1 DEF WorldInv, AnswerInv
  <2>3. CASE k \in Others
    <3>1. k \notin Unanswered
      BY <1>1 DEF Unanswered
    <3>2. Cardinality(Unanswered \cup {k}) = Cardinality(Unanswered) + 1
      BY ONLY <2>1, <3>1, FS_AddElement
    <3>3. Unanswered' = Unanswered \cup {k} /\ live
      BY <1>9, <1>11, <2>3
    <3> QED
      BY <1>5, <1>6, <2>1, <2>2, <3>2, <3>3
  <2>4. CASE k \notin Others
    <3>1. Unanswered' = Unanswered /\ ~live
      BY <1>11, <2>4 DEF live
    <3> QED
      BY <1>1, <1>5, <1>6, <2>2, <3>1
  <2> QED
    BY <2>3, <2>4
<1>13. SignalInv'
  <2>1. ASSUME NEW u \in Threads, SUSPEND \in stop'.pending[u] \/ stop'.handler[u].pc = "entered"
        PROVE  \E j \in Unanswered' : Owner(j)' = u
    <3>1. CASE SUSPEND \in stop.pending[u] \/ stop.handler[u].pc = "entered"
      BY <1>8, <1>11, <3>1 DEF WorldInv, SignalInv
    <3>2. CASE ~(SUSPEND \in stop.pending[u] \/ stop.handler[u].pc = "entered")
      <4>1. live /\ u = Named(id)
        BY <1>6, <2>1, <3>2
      <4>2. k \in Others /\ u = Owner(k)
        BY <1>7, <4>1 DEF live
      <4> QED
        BY <1>8, <1>11, <4>2
    <3> QED
      BY <3>1, <3>2
  <2>2. ASSUME NEW u \in Threads, SUSPEND \in stop'.pending[u]
        PROVE  stop'.handler[u].pc # "entered"
    <3>1. CASE SUSPEND \in stop.pending[u]
      BY <1>6, <3>1 DEF WorldInv, SignalInv
    <3>2. CASE SUSPEND \notin stop.pending[u]
      <4>1. live /\ u = Named(id)
        BY <1>6, <2>2, <3>2
      <4>2. k \in Others /\ u = Owner(k)
        BY <1>7, <4>1 DEF live
      <4>3. ASSUME stop.handler[u].pc = "entered" PROVE FALSE
        <5>1. PICK j \in Unanswered : Owner(j) = u
          BY <4>3 DEF WorldInv, SignalInv
        <5>2. j = k
          BY <1>2, <4>2, <5>1 DEF WorldInv, TableInv, Unanswered, Others, Unfinished, Index
        <5> QED
          BY <1>1, <5>1, <5>2 DEF Unanswered
      <4> QED
        BY <1>6, <4>3
    <3> QED
      BY <3>1, <3>2
  <2>3. \A u \in Threads :
             /\ stop'.handler[u].pc \in {"none", "entered", "answered", "waiting", "woken"}
             /\ stop'.handler[u].my_stop_count \in 0..stop'.count
             /\ stop'.handler[u].pc # "none" => Known(u)'
             /\ stop'.handler[u].pc = "entered" => stop'.handler[u].my_stop_count = stop'.count
    BY <1>6, <1>8 DEF WorldInv, SignalInv
  <2>4. (stop'.world_is_stopped <=> gc'.phase \in Stopped) /\ \A j \in Index' : table'[j].last_stop_count \in 0..stop'.count
    BY <1>1, <1>5, <1>6 DEF WorldInv, SignalInv, Index
  <2> QED
    BY <1>5, <2>1, <2>2, <2>3, <2>4 DEF SignalInv
<1>14. AnswerInv'
  <2>1. stop'.count \in Nat /\ stop'.acks \in Nat /\ gc'.n_live \in Nat /\ gc'.next \in Nat \ {0}
    BY <1>1, <1>5, <1>6 DEF WorldInv, AnswerInv
  <2>2. \A j \in Others : j >= k + 1 => j >= k
    BY <1>1, <1>10
  <2>3. \A j \in Others :
          /\ ~Answered(Owner(j)) => table[j].last_stop_count # stop.count
          /\ j >= k + 1 => ~Answered(Owner(j))
    BY <1>1, <2>2 DEF WorldInv, AnswerInv
  <2> QED
    BY <1>5, <1>6, <1>8, <1>12, <2>1, <2>3 DEF AnswerInv
<1> QED
  BY <1>1, <1>5, <1>6, <1>13, <1>14, CollectorGoesOn DEF Phases

\* An answer is taken from the semaphore.
LEMMA Awaits ==
  ASSUME WorldInv, AwaitAnswer, UNCHANGED <<th, table, lock, menu>>
  PROVE  WorldInv'
<1>1. gc.phase = "suspend" /\ gc.n_live > 0 /\ stop.acks > 0
  BY DEF AwaitAnswer, Phase
<1>2. /\ DOMAIN stop' = StopFields /\ stop'.count = stop.count /\ stop'.acks = stop.acks - 1
      /\ stop'.world_is_stopped = stop.world_is_stopped /\ stop'.handler = stop.handler
      /\ stop'.pending = stop.pending /\ DOMAIN stop'.pending = Threads
  BY DEF AwaitAnswer, WorldInv, ShapeInv, StopFields
<1>3. /\ DOMAIN gc' = CollectorFields /\ gc'.by = gc.by /\ gc'.then = gc.then
      /\ gc'.in_creation = gc.in_creation /\ gc'.aborted = gc.aborted
      /\ gc'.phase = "suspend" /\ gc'.next = gc.next /\ gc'.n_live = gc.n_live - 1
  BY <1>1 DEF AwaitAnswer, WorldInv, ShapeInv, CollectorFields
<1>4. /\ Others' = Others /\ Index' = Index /\ \A j : Owner(j)' = Owner(j)
      /\ \A u : (Answered(u)' <=> Answered(u)) /\ (Known(u)' <=> Known(u))
  BY <1>2, <1>3 DEF Others, Unfinished, Index, Owner, Answered, Known
<1>5. Unanswered' = Unanswered
  BY <1>3, <1>4 DEF Unanswered
<1>6. SignalInv'
  BY <1>1, <1>2, <1>3, <1>4, <1>5 DEF WorldInv, SignalInv
<1>7. AnswerInv'
  <2>1. Cardinality(Unanswered) \in Nat
    BY FiniteUnanswered DEF WorldInv
  <2>2. stop'.acks \in Nat /\ gc'.n_live \in Nat /\ gc'.n_live = stop'.acks + Cardinality(Unanswered')
    BY <1>1, <1>2, <1>3, <1>5, <2>1 DEF WorldInv, AnswerInv
  <2> QED
    BY <1>1, <1>2, <1>3, <1>4, <2>2 DEF WorldInv, AnswerInv
<1> QED
  BY <1>1, <1>2, <1>3, <1>6, <1>7, CollectorGoesOn DEF Phases

\* When all have answered, there is no signal under way.
LEMMA AllHaveAnswered ==
  ASSUME WorldInv, AllAnswered
  PROVE  /\ stop.acks = 0 /\ \A k \in Others : Answered(Owner(k))
         /\ \A u \in Threads : SUSPEND \notin stop.pending[u] /\ stop.handler[u].pc # "entered"
<1>1. gc.phase = "suspend" /\ gc.next > Len(table) /\ gc.n_live = 0 /\ gc.next \in Nat
  BY DEF AllAnswered, Phase, WorldInv, AnswerInv
<1>2. IsFiniteSet(Unanswered) /\ Cardinality(Unanswered) \in Nat
  BY FiniteUnanswered DEF WorldInv
<1>3. stop.acks = 0 /\ Cardinality(Unanswered) = 0
  BY <1>1, <1>2 DEF WorldInv, AnswerInv
<1>4. Unanswered = {}
  BY ONLY <1>2, <1>3, FS_EmptySet
<1>5. \A k \in Others : k < gc.next
  <2>1. PICK n \in Nat : n = Len(table) /\ Index = 1..n
    BY Entries DEF WorldInv
  <2>2. Others \subseteq 1..n
    BY <2>1 DEF Others, Unfinished, Index
  <2> QED
    BY <1>1, <2>1, <2>2
<1> QED
  BY <1>3, <1>4, <1>5 DEF Unanswered, WorldInv, SignalInv

\* The collector finds its own entry unless it has none yet.
LEMMA FindsItself ==
  ASSUME WorldInv, gc.phase # "none"
  PROVE  FoundMe \/ gc.in_creation
<1>1. gc.by \in Threads /\ th[gc.by].pc = "collect"
  BY DEF WorldInv, LockInv
<1>2. CASE ~gc.in_creation
  <2>1. Known(gc.by)
    BY <1>1, <1>2 DEF Known
  <2>2. PICK k \in Index : Owner(k) = gc.by
    BY <1>1, <2>1 DEF WorldInv, TableInv
  <2>3. table[k].id = th[gc.by].id /\ FINISHED \notin table[k].flags
    BY <2>1, <2>2 DEF WorldInv, TableInv
  <2> QED
    BY <2>3 DEF FoundMe, Unfinished, Index
<1> QED
  BY <1>2

\* While nobody is left to answer.
LEMMA CollectorMarks ==
  ASSUME WorldInv, UNCHANGED <<th, table, stop, lock, menu>>,
         \A k \in Others : Answered(Owner(k)),
         \A u \in Threads : SUSPEND \notin stop.pending[u] /\ stop.handler[u].pc # "entered",
         stop.acks = 0, gc.phase \in Stopped,
         gc' = [gc EXCEPT !.phase = "mark"] \/ gc' = [gc EXCEPT !.phase = "start"]
  PROVE  WorldInv'
<1>1. /\ DOMAIN gc' = CollectorFields /\ gc'.by = gc.by /\ gc'.then = gc.then
      /\ gc'.in_creation = gc.in_creation /\ gc'.aborted = gc.aborted
      /\ gc'.phase \in {"mark", "start"} /\ gc'.next = gc.next /\ gc'.n_live = gc.n_live
  BY DEF WorldInv, ShapeInv, CollectorFields
<1>2. DOMAIN stop' = StopFields /\ stop'.handler = stop.handler /\ DOMAIN stop'.pending = Threads
  BY DEF WorldInv, ShapeInv
<1>3. /\ Others' = Others /\ Index' = Index /\ \A j : Owner(j)' = Owner(j)
      /\ \A u : (Answered(u)' <=> Answered(u)) /\ (Known(u)' <=> Known(u))
  BY <1>1 DEF Others, Unfinished, Index, Owner, Answered, Known
<1>4. SignalInv'
  BY <1>1, <1>3 DEF WorldInv, SignalInv, Stopped
<1>5. AnswerInv'
  BY <1>1, <1>3 DEF WorldInv, AnswerInv
<1> QED
  BY <1>1, <1>2, <1>4, <1>5, CollectorGoesOn DEF Phases, Stopped

\* The collector marks: everybody has answered.
LEMMA Marks ==
  ASSUME WorldInv, Mark \/ AfterParallelMark, UNCHANGED menu
  PROVE  WorldInv'
<1>1. CASE Mark
  <2>1. AllAnswered /\ UNCHANGED <<th, table, stop, lock>> /\ gc.phase = "suspend"
    BY <1>1 DEF Mark, AllAnswered, Phase
  <2>2. FoundMe \/ gc.in_creation
    BY <2>1, FindsItself
  <2>3. gc' = [gc EXCEPT !.phase = "mark"] \/ gc' = [gc EXCEPT !.phase = "start"]
    BY <1>1, <2>2 DEF Mark
  <2> QED
    BY <2>1, <2>3, AllHaveAnswered, CollectorMarks DEF Stopped
<1>2. CASE AfterParallelMark
  <2>1. UNCHANGED <<th, table, stop, lock>> /\ gc.phase = "mark"
    BY <1>2 DEF AfterParallelMark, Phase
  <2>2. CASE UNCHANGED gc
    BY <2>1, <2>2, SameGc, Stutter DEF WorldInv
  <2>3. CASE gc' = [gc EXCEPT !.phase = "start"]
    <3>1. /\ \A k \in Others : Answered(Owner(k))
          /\ \A u \in Threads : SUSPEND \notin stop.pending[u] /\ stop.handler[u].pc # "entered"
          /\ stop.acks = 0
      BY <2>1 DEF WorldInv, AnswerInv, SignalInv
    <3> QED
      BY <2>1, <2>3, <3>1, CollectorMarks DEF Stopped
  <2> QED
    BY <1>2, <2>2, <2>3 DEF AfterParallelMark
<1> QED
  BY <1>1, <1>2

\* The world starts, and signals that say so are sent.
LEMMA Starts ==
  ASSUME WorldInv, BeginStart \/ GC_start_world, UNCHANGED <<th, table, lock, menu>>
  PROVE  WorldInv'
<1>1. gc.phase \in {"start", "restart"}
  BY DEF BeginStart, GC_start_world, Phase
<1>2. /\ DOMAIN stop' = StopFields /\ stop'.count = stop.count /\ stop'.acks = stop.acks
      /\ stop'.world_is_stopped = FALSE /\ stop'.handler = stop.handler
      /\ DOMAIN stop'.pending = Threads
      /\ \A u \in Threads : SUSPEND \in stop'.pending[u] => SUSPEND \in stop.pending[u]
  <2>1. CASE BeginStart
    BY <2>1 DEF BeginStart, WorldInv, ShapeInv, StopFields
  <2>2. CASE GC_start_world
    <3>1. stop.world_is_stopped = FALSE
      BY <2>2 DEF GC_start_world, Phase, WorldInv, SignalInv, Stopped
    <3>2. SUSPEND # RESTART
      BY DEF SUSPEND, RESTART
    <3>3. CASE stop' = stop
      BY <3>1, <3>3 DEF WorldInv, ShapeInv
    <3>4. CASE \E v : stop' = [stop EXCEPT !.pending[v] = @ \cup {RESTART}]
      BY <3>1, <3>2, <3>4 DEF WorldInv, ShapeInv, StopFields
    <3> QED
      BY <2>2, <3>3, <3>4 DEF GC_start_world
  <2> QED
    BY <2>1, <2>2
<1>3. /\ DOMAIN gc' = CollectorFields /\ gc'.by = gc.by /\ gc'.then = gc.then
      /\ gc'.in_creation = gc.in_creation /\ gc'.aborted = gc.aborted
      /\ gc'.phase = "restart" /\ gc'.n_live = gc.n_live /\ gc'.next \in Nat \ {0}
  <2>1. DOMAIN gc = CollectorFields /\ gc.next \in Nat \ {0}
    BY DEF WorldInv, ShapeInv, AnswerInv
  <2>2. CASE BeginStart
    BY <2>1, <2>2 DEF BeginStart, CollectorFields
  <2>3. CASE GC_start_world
    BY <2>1, <2>3 DEF GC_start_world, Phase, CollectorFields
  <2> QED
    BY <2>2, <2>3
<1>4. SignalInv'
  <2>1. \A u : Known(u)' <=> Known(u)
    BY <1>3 DEF Known
  <2> QED
    BY <1>1, <1>2, <1>3, <2>1 DEF WorldInv, SignalInv, Stopped, Index
<1>5. AnswerInv'
  BY <1>1, <1>2, <1>3 DEF WorldInv, AnswerInv
<1> QED
  BY <1>1, <1>2, <1>3, <1>4, <1>5, CollectorGoesOn DEF Phases

\* The collection ends, and the collecting thread goes on.
LEMMA Finishes ==
  ASSUME WorldInv, GC_finish_collection, gc.phase # "none", UNCHANGED menu
  PROVE  WorldInv'
<1>1. PICK t \in Threads :
        /\ t = gc.by /\ lock = t /\ th[t].pc = "collect" /\ gc.phase = "restart"
        /\ gc.then \in {"run", "core_again", "many_again", "start_again"}
        /\ gc.in_creation <=> gc.then = "start_again"
  BY DEF GC_finish_collection, AllRestarted, Phase, WorldInv, LockInv
<1>2. UNCHANGED <<table, stop>>
  BY DEF GC_finish_collection
<1>3. /\ DOMAIN gc' = CollectorFields /\ gc'.phase = "none" /\ gc'.in_creation = FALSE
      /\ gc'.aborted = gc.aborted /\ gc'.n_live = gc.n_live /\ gc'.next = gc.next
  BY DEF GC_finish_collection, WorldInv, ShapeInv, CollectorFields
<1>4. /\ DOMAIN th' = Threads /\ DOMAIN th'[t] = ThreadFields
      /\ th'[t].pc = gc.then /\ th'[t].id = th[t].id /\ th'[t].unregisters = th[t].unregisters
      /\ \A u \in Threads : u # t => th'[u] = th[u]
  BY <1>1 DEF GC_finish_collection, Became, With, WorldInv, ShapeInv, ThreadFields
<1>5. lock' = IF gc.then = "run" THEN NULL ELSE t
  BY <1>1 DEF GC_finish_collection
<1>6. \A u \in Threads : u # t => th[u].pc # "collect" /\ th[u].pc \notin Locking
  BY <1>1 DEF WorldInv, LockInv
<1>7. SameLives
  <2>1. Known(t)' <=> Known(t)
    BY <1>1, <1>3, <1>4 DEF Known, Plain
  <2>2. \A u \in Threads : u # t => (Known(u)' <=> Known(u))
    BY <1>4, <1>6 DEF Known
  <2>3. th'[t].pc \notin Past \cup {"blocked"} /\ th[t].pc \notin Past \cup {"blocked"} /\ Alive(t)
    BY <1>1, <1>4 DEF Past, Alive
  <2>4. \A u \in Threads : u # t => (Alive(u)' => Alive(u))
    BY <1>4 DEF Alive
  <2> QED
    BY <1>4, <2>1, <2>2, <2>3, <2>4 DEF SameLives
<1>8. TableInv'
  BY <1>2, <1>7, SameTable, TableKept DEF WorldInv
<1>9. SignalInv' /\ AnswerInv'
  <2>1. \A k \in Index' : table'[k].last_stop_count \in 0..stop.count
    BY <1>2 DEF WorldInv, SignalInv, Index
  <2>2. \A u \in Threads : stop.handler[u].pc # "none" => Known(u)'
    BY <1>7 DEF WorldInv, SignalInv, SameLives
  <2>3. gc'.n_live \in Nat /\ gc'.next \in Nat \ {0} /\ SignalInv /\ AnswerInv
    BY <1>3 DEF WorldInv, AnswerInv
  <2> QED
    BY <1>1, <1>2, <1>3, <2>1, <2>2, <2>3, NoSignals DEF Stopped
<1>10. ShapeInv'
  BY <1>2, <1>3, <1>4 DEF WorldInv, ShapeInv, Index
<1>11. IdInv'
  <2>1. \A u \in Threads : th'[u].pc \in {"prepare_fork", "fork"} => May(u, "fork")
    BY <1>1, <1>4 DEF WorldInv, IdInv
  <2> QED
    BY <1>2, <1>7, <2>1, SameTable, IdsKept DEF WorldInv
<1>12. JoinInv'
  <2>1. \A u \in Threads : th[u].pc = "gone" => th'[u].pc = "gone"
    BY <1>1, <1>4
  <2>2. \A u \in Threads : th'[u].pc \in {"join", "joined", "detach"} => th'[u] = th[u]
    BY <1>1, <1>4
  <2> QED
    BY <2>1, <2>2 DEF WorldInv, JoinInv
<1>13. LockInv'
  BY <1>1, <1>3, <1>4, <1>5, <1>6 DEF LockInv, Phases, Locking
<1> QED
  BY <1>3, <1>8, <1>9, <1>10, <1>11, <1>12, <1>13 DEF WorldInv

\* All that a collection does.
LEMMA Collects ==
  ASSUME WorldInv, Collecting, UNCHANGED menu
  PROVE  WorldInv'
<1>1. CASE GC_stop_world
  <2>1. UNCHANGED <<th, table, lock>>
    BY <1>1 DEF GC_stop_world
  <2> QED
    BY <1>1, <2>1, BeginsStop, Suspends, Awaits DEF GC_stop_world
<1>2. CASE StartWorld
  BY <1>2, Starts DEF StartWorld
<1> QED
  BY <1>1, <1>2, Waits, Marks, Finishes DEF Collecting

-----------------------------------------------------------------------------
\* Threads begin and end.

\* Threads that the collector does not know end, a join or a detach goes on.
Drifts(u) ==
  /\ DOMAIN th'[u] = ThreadFields /\ th'[u].id = th[u].id
  /\ \/ /\ th'[u].pc = th[u].pc /\ th'[u].unregisters = th[u].unregisters
        /\ th'[u].of = th[u].of /\ th'[u].entry = th[u].entry
     \/ th[u].pc \in {"ending", "dead"} /\ th'[u].pc \in {"dead", "gone"}
     \/ /\ th[u].pc \in {"join", "detach"} /\ th'[u].unregisters = th[u].unregisters
        /\ \/ th'[u].pc = "detached"
           \/ th'[u].pc = "joined" /\ th'[u].entry \in Threads /\ th'[th'[u].entry].pc = "gone"

\* Such a step preserves the invariant.
LEMMA Drift ==
  ASSUME WorldInv, UNCHANGED <<table, stop, gc, lock, menu>>,
         DOMAIN th' = Threads, \A u \in Threads : Drifts(u)
  PROVE  WorldInv'
<1>1. SameKeys /\ SameCollector
  BY SameTable, SameGc DEF WorldInv
<1>2. ShapeInv'
  BY DEF WorldInv, ShapeInv, Index, Drifts
<1>3. SameLives
  <2>1. ASSUME NEW u \in Threads
        PROVE  /\ th'[u].id = th[u].id
               /\ Known(u)' <=> Known(u)
               /\ Alive(u)' => Alive(u)
               /\ th[u].pc \in Past => th'[u].pc \in Past
               /\ th'[u].pc = "blocked" <=> th[u].pc = "blocked"
    <3>1. Drifts(u) /\ gc' = gc
      OBVIOUS
    <3>2. CASE th'[u].pc = th[u].pc
      BY <3>1, <3>2 DEF Drifts, Known, Alive
    <3>3. CASE th[u].pc \in {"ending", "dead"} /\ th'[u].pc \in {"dead", "gone"}
      BY <3>1, <3>3 DEF Drifts, Known, Alive, Past, Plain
    <3>4. CASE th[u].pc \in {"join", "detach"} /\ th'[u].pc \in {"joined", "detached"}
      BY <3>1, <3>4 DEF Drifts, Known, Alive, Past, Plain
    <3> QED
      BY <3>1, <3>2, <3>3, <3>4 DEF Drifts
  <2> QED
    BY <2>1 DEF SameLives
<1>4. TableInv' /\ SignalInv' /\ AnswerInv'
  BY <1>1, <1>3, TableKept, SignalsKept DEF WorldInv
<1>5. IdInv'
  <2>1. \A u \in Threads : th'[u].pc \in {"prepare_fork", "fork"} => May(u, "fork")
    BY DEF WorldInv, IdInv, Drifts
  <2> QED
    BY <1>1, <1>3, <2>1, IdsKept DEF WorldInv
<1>6. JoinInv'
  <2>1. \A u \in Threads : th[u].pc = "gone" => th'[u].pc = "gone"
    BY DEF Drifts
  <2>2. ASSUME NEW u \in Threads
        PROVE  /\ th'[u].pc \in {"join", "detach"} => th'[u].of \in Threads \ {u}
               /\ th'[u].pc \in {"join", "joined"} => th'[u].entry \in Threads
               /\ th'[u].pc = "join" => th'[u].entry = th'[u].of \/ th'[th'[u].entry].pc = "gone"
               /\ th'[u].pc = "joined" => th'[th'[u].entry].pc = "gone"
    BY <2>1 DEF Drifts, WorldInv, JoinInv
  <2> QED
    BY <2>2 DEF JoinInv
<1>7. LockInv'
  <2>1. \A u \in Threads : /\ th'[u].pc = "collect" <=> th[u].pc = "collect"
                           /\ th'[u].pc \in Locking => th[u].pc \in Locking
    BY DEF Drifts, Locking
  <2> QED
    BY <2>1 DEF WorldInv, LockInv
<1> QED
  BY <1>2, <1>4, <1>5, <1>6, <1>7 DEF WorldInv

\* Nobody collects, and one thread goes to do nothing in particular.
Reckless == Locking \cup {"collect", "prepare_fork", "fork", "join", "joined", "detach", "exit"}
Calm(t, r) ==
  /\ gc.phase = "none" /\ lock \in {NULL, t} /\ lock' = NULL
  /\ Became(t, r) /\ DOMAIN r = ThreadFields
  /\ th[t].pc \notin {"collect", "gone"} /\ r.pc \notin Reckless
  /\ UNCHANGED <<stop, gc, menu>>

\* Such a step preserves the invariant if it leaves the table in order.
LEMMA CalmStep ==
  ASSUME WorldInv, NEW t \in Threads, NEW r, Calm(t, r),
         \E E : table' \in Seq(E),
         \A k \in Index' : DOMAIN table'[k] = EntryFields /\ table'[k].last_stop_count \in 0..stop.count,
         stop.handler[t].pc # "none" => Known(t)',
         TableInv',
         \A u \in Threads : KeepsId(u) /\ Alive(u)' =>
           \A k \in Index' : (table[k].id = th[u].id => Owner(k) = u)'
  PROVE  WorldInv'
<1>1. /\ DOMAIN th' = Threads /\ th'[t] = r /\ \A u \in Threads : u # t => th'[u] = th[u]
      /\ DOMAIN r = ThreadFields
  BY DEF WorldInv, ShapeInv, Calm, Became
<1>2. ShapeInv'
  <2>1. \A u \in Threads : DOMAIN th'[u] = ThreadFields
    BY <1>1 DEF WorldInv, ShapeInv
  <2> QED
    BY <1>1, <2>1 DEF WorldInv, ShapeInv, Calm
<1>3. \A u \in Threads : u # t => (Known(u)' <=> Known(u))
  BY <1>1 DEF Calm, Known
<1>4. SignalInv' /\ AnswerInv'
  <2>1. \A u \in Threads : stop.handler[u].pc # "none" => Known(u)'
    BY <1>3 DEF WorldInv, SignalInv
  <2>2. gc'.n_live \in Nat /\ gc'.next \in Nat \ {0} /\ SignalInv /\ AnswerInv
        /\ gc.phase \notin Stopped /\ gc'.phase \notin Stopped /\ UNCHANGED stop
    BY DEF WorldInv, AnswerInv, Calm, Stopped
  <2> QED
    BY <2>1, <2>2, NoSignals
<1>5. IdInv'
  <2>1. \A u \in Threads : th'[u].pc \in {"prepare_fork", "fork"} => May(u, "fork")
    BY <1>1 DEF WorldInv, IdInv, Calm, Reckless
  <2>2. \A u \in Threads : (May(u, "fork")' <=> May(u, "fork")) /\ (KeepsId(u)' <=> KeepsId(u))
    BY DEF Calm, May, KeepsId
  <2> QED
    BY <2>1, <2>2 DEF IdInv
<1>6. JoinInv'
  <2>1. \A u \in Threads : th[u].pc = "gone" => th'[u].pc = "gone"
    BY <1>1 DEF Calm
  <2> QED
    BY <1>1, <2>1 DEF WorldInv, JoinInv, Calm, Reckless
<1>7. LockInv'
  <2>1. \A u \in Threads : u # t => th[u].pc \notin Locking \cup {"collect"}
    BY Nobody DEF WorldInv, LockInv, Calm
  <2>2. \A u \in Threads : th'[u].pc \notin Locking \cup {"collect"}
    BY <1>1, <2>1 DEF Calm, Reckless
  <2> QED
    BY <2>2 DEF WorldInv, LockInv, Calm
<1> QED
  BY <1>2, <1>4, <1>5, <1>6, <1>7 DEF WorldInv, Calm

\* A thread changes its own entry.
LEMMA EntryChanges ==
  ASSUME WorldInv, NEW t \in Threads, NEW r, Calm(t, r),
         NEW k \in Index, Owner(k) = t, NEW e, table' = [table EXCEPT ![k] = e],
         DOMAIN e = EntryFields, e.of = t, e.id = table[k].id,
         e.last_stop_count = table[k].last_stop_count,
         th[t].pc \in {"run", "blocked", "exit", "ending"}, r.pc \in {"run", "blocked", "ending"},
         r.id = th[t].id,
         FINISHED \notin e.flags <=> r.pc # "ending",
         e.thread_blocked <=> r.pc = "blocked",
         r.pc = "ending" => stop.handler[t].pc = "none"
  PROVE  WorldInv'
<1>1. PICK E : table \in Seq(E)
  BY DEF WorldInv, ShapeInv
<1>2. /\ \E F : table' \in Seq(F)
      /\ Len(table') = Len(table) /\ DOMAIN table' = DOMAIN table
  BY ONLY <1>1, Replaced, table' = [table EXCEPT ![k] = e]
<1>3. \A j \in Index : table'[j] = IF j = k THEN e ELSE table[j]
  BY <1>1 DEF Index
<1>4. /\ Index' = Index
      /\ \A j \in Index :
           /\ Owner(j)' = Owner(j) /\ Owner(j) \in Threads /\ table'[j].id = table[j].id
           /\ DOMAIN table'[j] = EntryFields /\ table'[j].last_stop_count = table[j].last_stop_count
           /\ Owner(j) = t => j = k
  <2>1. Index' = Index
    BY <1>2 DEF Index
  <2>2. ASSUME NEW j \in Index
        PROVE  /\ table'[j].of = table[j].of /\ table'[j].id = table[j].id
               /\ DOMAIN table'[j] = EntryFields /\ table'[j].last_stop_count = table[j].last_stop_count
    BY <1>3 DEF WorldInv, ShapeInv, Owner
  <2> QED
    BY <2>1, <2>2 DEF Owner, WorldInv, TableInv
<1>5. /\ DOMAIN th' = Threads /\ th'[t] = r /\ \A u \in Threads : u # t => th'[u] = th[u]
      /\ UNCHANGED gc
  BY DEF WorldInv, ShapeInv, Calm, Became
<1>6. \A u \in Threads : u # t => (Known(u)' <=> Known(u)) /\ (Alive(u)' <=> Alive(u))
  BY <1>5 DEF Known, Alive
<1>7. Alive(t) /\ (Known(t)' <=> r.pc # "ending") /\ \A u \in Threads : th'[u].id = th[u].id
  BY <1>5 DEF Known, Alive, Plain
<1>8. TableInv'
  <2>1. ASSUME NEW j \in Index
        PROVE  (/\ Owner(j) \in Threads
                /\ table[j].id = th[Owner(j)].id
                /\ Known(Owner(j)) \/ th[Owner(j)].pc \in Past
                /\ FINISHED \notin table[j].flags <=> Known(Owner(j))
                /\ table[j].thread_blocked <=> th[Owner(j)].pc = "blocked")'
    <3>1. PICK u \in Threads : u = Owner(j) /\ Owner(j)' = u /\ table'[j].id = th'[u].id
      BY <1>4, <1>7 DEF WorldInv, TableInv
    <3>2. CASE u = t
      <4>1. table'[j] = e /\ th'[u] = r
        BY <1>3, <1>4, <1>5, <3>1, <3>2
      <4> QED
        BY <1>7, <3>1, <3>2, <4>1 DEF Past
    <3>3. CASE u # t
      <4>1. table'[j] = table[j] /\ th'[u] = th[u]
        BY <1>3, <1>5, <3>1, <3>3
      <4> QED
        BY <1>6, <3>1, <3>3, <4>1 DEF WorldInv, TableInv
    <3> QED
      BY <3>2, <3>3
  <2>2. (\A i, j \in Index : Owner(i) = Owner(j) => i = j)'
    BY <1>4 DEF WorldInv, TableInv
  <2>3. ASSUME NEW i \in Index, NEW j \in Index, i < j, (table[i].id = table[j].id)'
        PROVE ~Alive(Owner(j))'
    <3>1. PICK u \in Threads : u = Owner(j) /\ Owner(j)' = u
      BY <1>4
    <3>2. ~Alive(u)
      BY <1>4, <2>3, <3>1 DEF WorldInv, TableInv
    <3> QED
      BY <1>6, <1>7, <3>1, <3>2 DEF Alive
  <2>4. ASSUME NEW u \in Threads, Known(u)' PROVE \E j \in Index : Owner(j)' = u
    BY <1>4, <1>6, <2>4 DEF WorldInv, TableInv
  <2>5. ASSUME NEW u \in Threads, NEW v \in Threads, Alive(u)', Alive(v)', (th[u].id = th[v].id)'
        PROVE u = v
    BY <1>6, <1>7, <2>5 DEF WorldInv, TableInv
  <2> QED
    BY <1>4, <2>1, <2>2, <2>3, <2>4, <2>5 DEF TableInv
<1>9. \A j \in Index' : DOMAIN table'[j] = EntryFields /\ table'[j].last_stop_count \in 0..stop.count
  BY <1>4 DEF WorldInv, SignalInv
<1>10. ASSUME NEW u \in Threads, KeepsId(u), Alive(u)', NEW j \in Index', (table[j].id = th[u].id)'
       PROVE  (Owner(j) = u)'
  <2>1. Alive(u)
    BY <1>6, <1>7, <1>10
  <2> QED
    BY <1>4, <1>7, <1>10, <2>1 DEF WorldInv, IdInv
<1>11. stop.handler[t].pc # "none" => Known(t)'
  BY <1>7
<1> QED
  BY <1>2, <1>8, <1>9, <1>10, <1>11, CalmStep

\* An entry is taken out, of a thread that is no longer known.
LEMMA EntryRemoved ==
  ASSUME WorldInv, NEW t \in Threads, NEW r, Calm(t, r), r.id = th[t].id,
         NEW k \in Index \cup {0}, table' = RemoveAt(table, k),
         \/ /\ th[t].pc \in {"joined", "detached"} /\ r.pc = "run"
            /\ k # 0 => ~Known(Owner(k))
         \/ /\ th[t].pc \in {"run", "exit"} /\ r.pc = "ending"
            /\ k # 0 /\ Owner(k) = t /\ stop.handler[t].pc = "none"
  PROVE  WorldInv'
<1>1. PICK E : table \in Seq(E)
  BY DEF WorldInv, ShapeInv
<1>2. /\ table' \in Seq(E)
      /\ k = 0 => table' = table
      /\ k # 0 => /\ \A j \in DOMAIN table' : Moved(k, j) \in DOMAIN table \ {k} /\ table'[j] = table[Moved(k, j)]
                  /\ \A j \in DOMAIN table \ {k} : \E i \in DOMAIN table' : j = Moved(k, i)
  BY ONLY <1>1, Removed, k \in Index \cup {0}, table' = RemoveAt(table, k) DEF Index
<1> DEFINE at(j) == IF k = 0 THEN j ELSE Moved(k, j)
<1>3. \A j \in Index' : at(j) \in Index \ {k} /\ table'[j] = table[at(j)] /\ Owner(j)' = Owner(at(j))
  <2>1. 0 \notin Index /\ Index \subseteq Nat
    BY Entries DEF WorldInv
  <2> QED
    BY <1>2, <2>1 DEF Index, Owner
<1>4. \A j \in Index \ {k} : \E i \in Index' : j = at(i)
  BY <1>2 DEF Index
<1>5. \A i, j \in Index' : /\ at(i) = at(j) => i = j
                           /\ i < j => at(i) < at(j)
  <2>1. Index \subseteq Nat /\ k \in Nat
    BY Entries DEF WorldInv
  <2>2. Index' \subseteq Nat
    BY <1>2 DEF Index
  <2>3. \A i, j \in Nat : /\ Moved(k, i) = Moved(k, j) => i = j
                          /\ i < j => Moved(k, i) < Moved(k, j)
    BY <2>1 DEF Moved
  <2> QED
    BY <2>2, <2>3
<1> HIDE DEF at
<1>6. /\ DOMAIN th' = Threads /\ th'[t] = r /\ \A u \in Threads : u # t => th'[u] = th[u]
      /\ UNCHANGED gc
  BY DEF WorldInv, ShapeInv, Calm, Became
<1>7. \A u \in Threads : u # t => (Known(u)' <=> Known(u)) /\ (Alive(u)' <=> Alive(u))
  BY <1>6 DEF Known, Alive
<1>8. Alive(t) /\ Known(t) /\ \A u \in Threads : th'[u].id = th[u].id
  BY <1>6 DEF Known, Alive, Plain
<1>9. \A u \in Threads : /\ Known(u)' => Known(u) /\ (k = 0 \/ u # Owner(k))
                         /\ u # t \/ r.pc = "run" => (Known(u)' <=> Known(u))
  BY <1>6, <1>7, <1>8 DEF Known, Plain
<1>10. /\ r.pc = "run" \/ (k \in Index /\ Owner(k) = t)
       /\ th[t].pc # "blocked"
  OBVIOUS
<1>11. \A i, j \in Index : Owner(i) = Owner(j) => i = j
  BY DEF WorldInv, TableInv
<1>12. TableInv'
  <2>1. ASSUME NEW j \in Index'
        PROVE  (/\ Owner(j) \in Threads
                /\ table[j].id = th[Owner(j)].id
                /\ Known(Owner(j)) \/ th[Owner(j)].pc \in Past
                /\ FINISHED \notin table[j].flags <=> Known(Owner(j))
                /\ table[j].thread_blocked <=> th[Owner(j)].pc = "blocked")'
    <3>1. PICK i \in Index \ {k} : i = at(j)
      BY <1>3
    <3>2. PICK u \in Threads : u = Owner(i) /\ Owner(j)' = u /\ table'[j] = table[i]
      BY <1>3, <3>1 DEF WorldInv, TableInv
    <3>3. /\ table[i].id = th[u].id
          /\ Known(u) \/ th[u].pc \in Past
          /\ FINISHED \notin table[i].flags <=> Known(u)
          /\ table[i].thread_blocked <=> th[u].pc = "blocked"
      BY <3>1, <3>2 DEF WorldInv, TableInv
    <3>4. u = t => r.pc = "run" /\ th[t].pc # "blocked"
      BY ONLY <1>10, <1>11, <3>1, <3>2
    <3>5. /\ th'[u].id = th[u].id /\ (Known(u)' <=> Known(u))
          /\ th[u].pc \in Past /\ ~Known(u) => th'[u].pc \in Past
          /\ th'[u].pc = "blocked" <=> th[u].pc = "blocked"
      BY <1>6, <1>8, <1>9, <3>4
    <3> QED
      BY <3>2, <3>3, <3>5
  <2>2. (\A i, j \in Index : Owner(i) = Owner(j) => i = j)'
    BY <1>3, <1>5 DEF WorldInv, TableInv
  <2>3. ASSUME NEW i \in Index', NEW j \in Index', i < j, (table[i].id = table[j].id)'
        PROVE ~Alive(Owner(j))'
    <3>1. PICK a \in Index, b \in Index : a = at(i) /\ b = at(j)
      BY <1>3
    <3>2. a < b /\ table[a].id = table[b].id /\ Owner(j)' = Owner(b)
      BY <1>3, <1>5, <2>3, <3>1
    <3>3. PICK u \in Threads : u = Owner(b) /\ ~Alive(u)
      BY <3>2 DEF WorldInv, TableInv
    <3>4. Owner(j)' = u /\ ~Alive(u)'
      BY <1>7, <1>8, <3>2, <3>3
    <3> QED
      BY <3>4 DEF Alive
  <2>4. ASSUME NEW u \in Threads, Known(u)' PROVE \E j \in Index' : Owner(j)' = u
    <3>1. Known(u) /\ (k = 0 \/ u # Owner(k))
      BY <1>9, <2>4
    <3>2. PICK i \in Index : Owner(i) = u
      BY <3>1 DEF WorldInv, TableInv
    <3>3. i # k
      <4>1. 0 \notin Index
        BY Entries DEF WorldInv
      <4> QED
        BY ONLY <3>1, <3>2, <4>1
    <3> QED
      BY <1>3, <1>4, <3>2, <3>3
  <2>5. ASSUME NEW u \in Threads, NEW v \in Threads, Alive(u)', Alive(v)', (th[u].id = th[v].id)'
        PROVE u = v
    BY <1>7, <1>8, <2>5 DEF WorldInv, TableInv
  <2> QED
    BY <2>1, <2>2, <2>3, <2>4, <2>5 DEF TableInv
<1>13. \A j \in Index' : DOMAIN table'[j] = EntryFields /\ table'[j].last_stop_count \in 0..stop.count
  BY <1>3 DEF WorldInv, ShapeInv, SignalInv
<1>14. ASSUME NEW u \in Threads, KeepsId(u), Alive(u)', NEW j \in Index', (table[j].id = th[u].id)'
       PROVE  (Owner(j) = u)'
  <2>1. Alive(u) /\ at(j) \in Index /\ table[at(j)].id = th[u].id /\ Owner(j)' = Owner(at(j))
    BY <1>3, <1>7, <1>8, <1>14
  <2> QED
    BY <1>14, <2>1 DEF WorldInv, IdInv
<1>15. stop.handler[t].pc # "none" => Known(t)'
  BY <1>8, <1>9
<1> QED
  BY <1>2, <1>12, <1>13, <1>14, <1>15, CalmStep

\* A thread that lives gets an entry.
LEMMA EntryAdded ==
  ASSUME WorldInv, NEW t \in Threads, NEW r, Calm(t, r), r.pc = "run",
         Alive(t), r.id = th[t].id,
         NEW e, table' = <<e>> \o table,
         DOMAIN e = EntryFields, e.of = t, e.id = r.id, e.last_stop_count = 0,
         FINISHED \notin e.flags, e.thread_blocked = FALSE,
         \A k \in Index : Owner(k) # t
  PROVE  WorldInv'
<1>1. PICK E : table \in Seq(E)
  BY DEF WorldInv, ShapeInv
<1>2. PICK n \in Nat : n = Len(table) /\ Index = 1..n
  BY Entries DEF WorldInv
<1>3. /\ table' \in Seq(E \cup {e}) /\ Index' = 1..n+1
      /\ table'[1] = e /\ \A k \in 1..n : table'[k+1] = table[k]
  <2> DEFINE F == E \cup {e}
  <2>1. <<e>> \in Seq(F) /\ table \in Seq(F) /\ Len(<<e>>) = 1 /\ <<e>>[1] = e
    BY <1>1
  <2> HIDE DEF F
  <2>2. <<e>> \o table \in Seq(F) /\ Len(<<e>> \o table) = 1 + n
    BY <1>2, <2>1
  <2>3. DOMAIN table' = 1..n+1
    BY <1>2, <2>2
  <2>4. (<<e>> \o table)[1] = e
    BY <1>2, <2>1
  <2>5. \A k \in 1..n : (<<e>> \o table)[k+1] = table[k]
    BY <1>2, <2>1
  <2> QED
    BY <2>2, <2>3, <2>4, <2>5 DEF Index, F
<1>4. ASSUME NEW j \in Index', j # 1
      PROVE  j - 1 \in Index /\ table'[j] = table[j-1] /\ Owner(j)' = Owner(j-1) /\ Owner(j-1) \in Threads \ {t}
  <2>1. j \in 1..n+1
    BY <1>3
  <2>2. PICK i \in 1..n : i = j - 1 /\ j = i + 1
    BY <2>1, <1>4
  <2>3. table'[j] = table[i] /\ i \in Index
    BY <1>2, <1>3, <2>2
  <2>4. Owner(i) \in Threads \ {t}
    BY <2>3 DEF WorldInv, TableInv
  <2> QED
    BY <2>2, <2>3, <2>4 DEF Owner
<1>5. 1 \in Index' /\ Owner(1)' = t /\ table'[1] = e
  BY <1>2, <1>3 DEF Owner
<1>6. /\ DOMAIN th' = Threads /\ th'[t] = r /\ \A u \in Threads : u # t => th'[u] = th[u]
      /\ UNCHANGED gc
  BY DEF WorldInv, ShapeInv, Calm, Became
<1>7. \A u \in Threads : u # t => (Known(u)' <=> Known(u)) /\ (Alive(u)' <=> Alive(u))
  BY <1>6 DEF Known, Alive
<1>8. Known(t)' /\ Alive(t)' /\ \A u \in Threads \ {t} : Alive(u) => th[u].id # r.id
  BY <1>6 DEF Known, Alive, Plain, WorldInv, TableInv
<1>9. TableInv'
  <2>1. ASSUME NEW j \in Index'
        PROVE  (/\ Owner(j) \in Threads
                /\ table[j].id = th[Owner(j)].id
                /\ Known(Owner(j)) \/ th[Owner(j)].pc \in Past
                /\ FINISHED \notin table[j].flags <=> Known(Owner(j))
                /\ table[j].thread_blocked <=> th[Owner(j)].pc = "blocked")'
    <3>1. CASE j = 1
      BY <1>5, <1>6, <1>8, <3>1
    <3>2. CASE j # 1
      <4>1. PICK i \in Index, u \in Threads :
              u = Owner(i) /\ Owner(j)' = u /\ u # t /\ table'[j] = table[i]
        BY <1>4, <3>2
      <4>2. /\ table[i].id = th[u].id
            /\ Known(u) \/ th[u].pc \in Past
            /\ FINISHED \notin table[i].flags <=> Known(u)
            /\ table[i].thread_blocked <=> th[u].pc = "blocked"
        BY <4>1 DEF WorldInv, TableInv
      <4> QED
        BY <1>6, <1>7, <4>1, <4>2
    <3> QED
      BY <3>1, <3>2
  <2>2. ASSUME NEW i \in Index', NEW j \in Index', (Owner(i) = Owner(j))' PROVE i = j
    <3>1. CASE i = 1 \/ j = 1
      BY <1>4, <1>5, <2>2, <3>1
    <3>2. CASE i # 1 /\ j # 1
      <4>1. i \in Nat /\ j \in Nat
        BY <1>3
      <4>2. i - 1 = j - 1
        BY <1>4, <2>2, <3>2 DEF WorldInv, TableInv
      <4> QED
        BY <4>1, <4>2
    <3> QED
      BY <3>1, <3>2
  <2>3. ASSUME NEW i \in Index', NEW j \in Index', i < j, (table[i].id = table[j].id)'
        PROVE ~Alive(Owner(j))'
    <3>1. i \in 1..n+1 /\ j \in 1..n+1 /\ j # 1
      BY <1>3, <2>3
    <3>2. PICK b \in Index, u \in Threads :
            b = j - 1 /\ u = Owner(b) /\ Owner(j)' = u /\ u # t /\ table'[j] = table[b]
      BY <1>4, <3>1
    <3>3. ~Alive(u)
      <4>1. CASE i = 1
        <5>1. th[u].id = r.id
          BY <1>5, <2>3, <3>2, <4>1 DEF WorldInv, TableInv
        <5> QED
          BY <1>8, <3>2, <5>1
      <4>2. CASE i # 1
        <5>1. PICK a \in Index : a = i - 1 /\ table'[i] = table[a]
          BY <1>4, <4>2
        <5>2. a < b
          BY <2>3, <3>1, <3>2, <5>1
        <5>3. table[a].id = table[b].id
          BY ONLY <2>3, <3>2, <5>1
        <5>4. \A k, l \in Index : k < l /\ table[k].id = table[l].id => ~Alive(Owner(l))
          BY DEF WorldInv, TableInv
        <5> QED
          BY ONLY <3>2, <5>1, <5>2, <5>3, <5>4
      <4> QED
        BY <4>1, <4>2
    <3>4. ~Alive(u)'
      BY <1>7, <3>2, <3>3
    <3> QED
      BY <3>2, <3>4 DEF Alive
  <2>4. ASSUME NEW u \in Threads, Known(u)' PROVE \E j \in Index' : Owner(j)' = u
    <3>1. CASE u = t
      BY <1>5, <3>1
    <3>2. CASE u # t
      <4>1. PICK i \in Index : Owner(i) = u
        BY <1>7, <2>4, <3>2 DEF WorldInv, TableInv
      <4>2. i + 1 \in Index' /\ table'[i+1] = table[i]
        BY <1>2, <1>3
      <4> QED
        BY <4>1, <4>2 DEF Owner
    <3> QED
      BY <3>1, <3>2
  <2>5. ASSUME NEW u \in Threads, NEW v \in Threads, Alive(u)', Alive(v)', (th[u].id = th[v].id)'
        PROVE u = v
    BY <1>6, <1>7, <1>8, <2>5 DEF WorldInv, TableInv
  <2> QED
    BY <2>1, <2>2, <2>3, <2>4, <2>5 DEF TableInv
<1>10. \A j \in Index' : DOMAIN table'[j] = EntryFields /\ table'[j].last_stop_count \in 0..stop.count
  <2>1. 0 \in 0..stop.count
    BY DEF WorldInv, AnswerInv
  <2>2. \A i \in Index : DOMAIN table[i] = EntryFields /\ table[i].last_stop_count \in 0..stop.count
    BY DEF WorldInv, ShapeInv, SignalInv
  <2> QED
    BY <1>4, <1>5, <2>1, <2>2, ZenonT(30)
<1>11. ASSUME NEW u \in Threads, KeepsId(u), Alive(u)', NEW j \in Index', (table[j].id = th[u].id)'
       PROVE  (Owner(j) = u)'
  <2>1. Alive(u) /\ th'[u].id = th[u].id
    BY <1>6, <1>7, <1>11
  <2>2. CASE j = 1
    BY <1>5, <1>8, <1>11, <2>1, <2>2
  <2>3. CASE j # 1
    <3>1. PICK i \in Index : table'[j] = table[i] /\ Owner(j)' = Owner(i)
      BY <1>4, <2>3
    <3> QED
      BY <1>11, <2>1, <3>1 DEF WorldInv, IdInv
  <2> QED
    BY <2>2, <2>3
<1> QED
  BY <1>3, <1>8, <1>9, <1>10, <1>11, CalmStep

\* The first of a sequence is replaced.
LEMMA Newest ==
  ASSUME NEW E, NEW s \in Seq(E), NEW a, NEW b
  PROVE  [<<a>> \o s EXCEPT ![1] = b] = <<b>> \o s
<1> DEFINE F == E \cup {a, b}
           n == Len(s)
           q == <<b>> \o s
<1>1. <<a>> \in Seq(F) /\ <<b>> \in Seq(F) /\ s \in Seq(F) /\ n \in Nat
  OBVIOUS
<1>2. PICK p : p = <<a>> \o s
  OBVIOUS
<1>3. p \in Seq(F) /\ q \in Seq(F) /\ Len(p) = n + 1 /\ Len(q) = n + 1
  BY <1>1, <1>2
<1>4. q[1] = b /\ \A i \in 2..n+1 : p[i] = s[i-1] /\ q[i] = s[i-1]
  BY <1>1, <1>2
<1>5. DOMAIN p = 1..n+1 /\ \A i \in 1..n+1 : p[i] \in F
  BY <1>1, <1>3
<1> DEFINE x == [p EXCEPT ![1] = b]
<1>6. \A i \in 1..n+1 : x[i] = IF i = 1 THEN b ELSE p[i]
  BY <1>5
<1>7. (\E G : x \in Seq(G)) /\ Len(x) = n + 1 /\ DOMAIN x = 1..n+1
  <2>1. (\E G : x \in Seq(G)) /\ Len(x) = Len(p) /\ DOMAIN x = DOMAIN p
    BY ONLY <1>3, Replaced
  <2> QED
    BY ONLY <1>3, <1>5, <2>1
<1>8. b \in F
  OBVIOUS
<1> HIDE DEF x, q, F, n
<1>9. x \in Seq(F)
  <2>1. \A i \in 1..n+1 : x[i] \in F
    BY <1>5, <1>6, <1>8
  <2>2. x = [i \in 1..n+1 |-> x[i]]
    BY <1>7
  <2>3. [i \in 1..n+1 |-> x[i]] \in Seq(F)
    BY <1>1, <2>1
  <2> QED
    BY ONLY <2>2, <2>3
<1>10. \A i \in 1..n+1 : x[i] = q[i]
  <2>1. \A i \in 1..n+1 : i = 1 \/ i \in 2..n+1
    BY <1>1
  <2> QED
    BY <1>4, <1>6, <2>1
<1>11. x = q
  BY <1>3, <1>7, <1>9, <1>10, SeqEqual
<1> QED
  BY <1>2, <1>11 DEF x, q

\* A thread begins, with an id that no living thread has, and another may wait
\* for it.
LEMMA ThreadBegins ==
  ASSUME WorldInv, UNCHANGED <<table, stop, gc, lock, menu>>, NEW n \in Threads, NEW id \in FreeIds(n),
         th[n].pc \in {"none", "outside"}, th'[n].pc \in {"start", "register"}, th'[n].id = id,
         DOMAIN th' = Threads, DOMAIN th'[n] = ThreadFields,
         \A u \in Threads \ {n} :
           \/ th'[u] = th[u]
           \/ /\ th[u].pc = "run" /\ th'[u].pc = "created"
              /\ DOMAIN th'[u] = ThreadFields /\ th'[u].id = th[u].id
  PROVE  WorldInv'
<1>1. /\ \A u \in Threads : Known(u)' <=> Known(u)
      /\ \A u \in Threads : u # n => (Alive(u)' <=> Alive(u)) /\ th'[u].id = th[u].id
      /\ \A u \in Threads : Alive(u) => th[u].id # id
      /\ ~Known(n) /\ th[n].pc \notin Past
  <2>1. \A u \in Threads : Alive(u) => th[u].id # id
    BY DEF FreeIds
  <2>2. ~Known(n) /\ ~Known(n)' /\ th[n].pc \notin Past
    BY DEF Known, Plain, Past
  <2>3. \A u \in Threads : u # n => (Known(u)' <=> Known(u)) /\ (Alive(u)' <=> Alive(u)) /\ th'[u].id = th[u].id
    BY DEF Known, Alive, Plain
  <2> QED
    BY <2>1, <2>2, <2>3
<1>2. \A k \in Index : Owner(k) \in Threads \ {n}
  BY <1>1 DEF WorldInv, TableInv
<1>3. ShapeInv'
  <2>1. \A u \in Threads : DOMAIN th'[u] = ThreadFields
    BY DEF WorldInv, ShapeInv
  <2> QED
    BY <2>1 DEF WorldInv, ShapeInv, Index
<1>4. TableInv'
  <2>1. ASSUME NEW k \in Index
        PROVE  (/\ Owner(k) \in Threads
                /\ table[k].id = th[Owner(k)].id
                /\ Known(Owner(k)) \/ th[Owner(k)].pc \in Past
                /\ FINISHED \notin table[k].flags <=> Known(Owner(k))
                /\ table[k].thread_blocked <=> th[Owner(k)].pc = "blocked")'
    <3>1. PICK u \in Threads \ {n} : u = Owner(k) /\ Owner(k)' = u
      BY <1>2 DEF Owner
    <3>2. /\ th'[u].id = th[u].id /\ (Known(u)' <=> Known(u))
          /\ th'[u].pc \in Past <=> th[u].pc \in Past
          /\ th'[u].pc = "blocked" <=> th[u].pc = "blocked"
      BY <1>1, <3>1 DEF Past
    <3> QED
      BY <3>1, <3>2 DEF WorldInv, TableInv
  <2>2. (\A i, j \in Index : Owner(i) = Owner(j) => i = j)'
    BY DEF WorldInv, TableInv, Index, Owner
  <2>3. ASSUME NEW i \in Index, NEW j \in Index, i < j, (table[i].id = table[j].id)'
        PROVE ~Alive(Owner(j))'
    <3>1. PICK u \in Threads \ {n} : u = Owner(j) /\ Owner(j)' = u
      BY <1>2 DEF Owner
    <3>2. ~Alive(u)'
      BY <1>1, <2>3, <3>1 DEF WorldInv, TableInv
    <3> QED
      BY <3>1, <3>2 DEF Alive
  <2>4. ASSUME NEW u \in Threads, Known(u)' PROVE \E j \in Index : Owner(j)' = u
    BY <1>1, <2>4 DEF WorldInv, TableInv, Owner
  <2>5. ASSUME NEW u \in Threads, NEW v \in Threads, Alive(u)', Alive(v)', (th[u].id = th[v].id)'
        PROVE u = v
    BY <1>1, <2>5 DEF WorldInv, TableInv
  <2> QED
    BY <2>1, <2>2, <2>3, <2>4, <2>5 DEF TableInv, Index
<1>5. SignalInv' /\ AnswerInv'
  <2>1. SameKeys /\ SameCollector /\ UNCHANGED stop
    BY SameTable, SameGc DEF WorldInv
  <2>2. gc.phase # "none" => th'[gc.by].id = th[gc.by].id
    BY <1>1 DEF WorldInv, LockInv
  <2> QED
    BY <1>1, <2>1, <2>2, SignalsStay DEF WorldInv
<1>6. IdInv'
  <2>1. ASSUME NEW u \in Threads, KeepsId(u), Alive(u)', NEW k \in Index, table[k].id = th'[u].id
        PROVE  Owner(k) = u
    <3>1. CASE u = n
      BY <2>1, <3>1 DEF FreeIds, Index
    <3>2. CASE u # n
      BY <1>1, <2>1, <3>2 DEF WorldInv, IdInv
    <3> QED
      BY <3>1, <3>2
  <2>2. \A u \in Threads : th'[u].pc \in {"prepare_fork", "fork"} => May(u, "fork")
    BY DEF WorldInv, IdInv
  <2>3. \A u \in Threads : (May(u, "fork")' <=> May(u, "fork")) /\ (KeepsId(u)' <=> KeepsId(u))
    BY DEF May, KeepsId
  <2> QED
    BY <2>1, <2>2, <2>3 DEF IdInv, Index, Owner
<1>7. JoinInv'
  <2>1. \A u \in Threads : th[u].pc = "gone" => th'[u].pc = "gone"
    OBVIOUS
  <2>2. \A u \in Threads : th'[u].pc \in {"join", "joined", "detach"} => th'[u] = th[u]
    OBVIOUS
  <2> QED
    BY <2>1, <2>2 DEF WorldInv, JoinInv
<1>8. LockInv'
  <2>1. \A u \in Threads : th'[u].pc \in Locking \cup {"collect"} => th'[u] = th[u]
    BY DEF Locking
  <2>2. \A u \in Threads : th[u].pc = "collect" => th'[u] = th[u]
    OBVIOUS
  <2> QED
    BY <2>1, <2>2 DEF WorldInv, LockInv
<1> QED
  BY <1>3, <1>4, <1>5, <1>6, <1>7, <1>8 DEF WorldInv

\* What pthread_create does to the threads.
Creation(t, n, arg, id, detached) ==
  th' = [th EXCEPT ![t] = [@ EXCEPT !.pc = "created", !.of = n, !.obj = arg],
                   ![n] = [Thread("start", id) EXCEPT !.result = arg, !.joinable = ~detached]]

\* pthread_create.
LEMMA Creates ==
  ASSUME WorldInv, NEW t \in Threads, GC_pthread_create(t), UNCHANGED menu
  PROVE  WorldInv'
<1>1. th[t].pc = "run" /\ UNCHANGED <<table, stop, gc, lock>>
  BY DEF GC_pthread_create, In
<1>2. PICK n \in Threads, arg \in th[t].held \cup {NULL}, detached \in BOOLEAN :
        /\ th[n].pc = "none"
        /\ \E id \in FreeIds(n) : Creation(t, n, arg, id, detached)
  BY ZenonT(60) DEF GC_pthread_create, Creation
<1>3. PICK id \in FreeIds(n) : Creation(t, n, arg, id, detached)
  BY <1>2
<1>4. n # t
  BY <1>1, <1>2
<1>5. /\ DOMAIN th' = Threads /\ DOMAIN th'[t] = ThreadFields
      /\ th'[t].pc = "created" /\ th'[t].id = th[t].id
      /\ \A u \in Threads : u \notin {t, n} => th'[u] = th[u]
  <2>1. /\ DOMAIN th' = Threads
        /\ th'[t] = [th[t] EXCEPT !.pc = "created", !.of = n, !.obj = arg]
        /\ \A u \in Threads : u \notin {t, n} => th'[u] = th[u]
    BY <1>4, <1>3 DEF Creation, WorldInv, ShapeInv
  <2> QED
    BY <2>1 DEF WorldInv, ShapeInv, ThreadFields
<1>6. DOMAIN th'[n] = ThreadFields /\ th'[n].pc = "start" /\ th'[n].id = id
  <2>1. th'[n] = [Thread("start", id) EXCEPT !.result = arg, !.joinable = ~detached]
    BY <1>4, <1>3 DEF Creation, WorldInv, ShapeInv
  <2> QED
    BY <2>1 DEF Thread, ThreadFields
<1> QED
  BY <1>1, <1>2, <1>5, <1>6, ThreadBegins

\* A thread comes from outside.
LEMMA Appears ==
  ASSUME WorldInv, NEW t \in Threads, Appear(t), UNCHANGED menu
  PROVE  WorldInv'
<1>1. th[t].pc = "outside" /\ UNCHANGED <<table, stop, gc, lock>>
  BY DEF Appear, In
<1>2. PICK id \in FreeIds(t) :
        Became(t, [Thread("register", id) EXCEPT !.unregisters = TRUE, !.joinable = FALSE])
  BY DEF Appear
<1>3. DOMAIN th' = Threads /\ \A u \in Threads \ {t} : th'[u] = th[u]
  BY <1>2 DEF Became, WorldInv, ShapeInv
<1>4. DOMAIN th'[t] = ThreadFields /\ th'[t].pc = "register" /\ th'[t].id = id
  <2>1. th'[t] = [Thread("register", id) EXCEPT !.unregisters = TRUE, !.joinable = FALSE]
    BY <1>2 DEF Became, WorldInv, ShapeInv
  <2> QED
    BY <2>1 DEF Thread, ThreadFields
<1> QED
  BY <1>1, <1>3, <1>4, ThreadBegins

\* What GC_register_my_thread_inner puts into the table.
Enters(q, s, t, id, flags) ==
  q = [GC_new_thread(s, t, id) EXCEPT ![1] = InitLocal([@ EXCEPT !.flags = flags])]
Entered(q, s, t, id) ==
  \E e : /\ q = <<e>> \o s
         /\ DOMAIN e = EntryFields /\ e.of = t /\ e.id = id /\ e.last_stop_count = 0
         /\ FINISHED \notin e.flags /\ e.thread_blocked = FALSE

\* It is the first of the table, with the thread and the id and no flag FINISHED.
LEMMA NewEntry ==
  ASSUME NEW E, NEW s \in Seq(E), NEW t, NEW id, NEW flags, FINISHED \notin flags,
         NEW q, Enters(q, s, t, id, flags)
  PROVE  Entered(q, s, t, id)
<1> DEFINE a == Entry(t, id)
           e == [[a EXCEPT !.flags = flags] EXCEPT !.tlfs = [counting |-> TRUE, list |-> {}]]
<1>1. DOMAIN a = EntryFields /\ a.of = t /\ a.id = id /\ a.last_stop_count = 0 /\ a.thread_blocked = FALSE
  BY DEF Entry, EntryFields
<1>2. (<<a>> \o s)[1] = a
  OBVIOUS
<1>3. q = [<<a>> \o s EXCEPT ![1] = e]
  BY <1>2 DEF Enters, GC_new_thread, InitLocal
<1>4. /\ DOMAIN e = EntryFields /\ e.of = t /\ e.id = id /\ e.last_stop_count = 0
      /\ FINISHED \notin e.flags /\ e.thread_blocked = FALSE
  BY <1>1 DEF EntryFields
<1> HIDE DEF a, e
<1>5. q = <<e>> \o s
  BY <1>3, Newest
<1> QED
  BY <1>4, <1>5 DEF Entered

\* A thread that is not known and has not been has no entry.
LEMMA NoEntry ==
  ASSUME TableInv, NEW t, th[t].pc \in {"none", "outside", "register", "start"}
  PROVE  \A k \in Index : Owner(k) # t
BY DEF TableInv, Known, Plain, Past

\* A thread without an entry gets one, and is known from then on.
LEMMA BecomesKnown ==
  ASSUME WorldInv, NEW t \in Threads, th[t].pc \in {"start", "start_again", "register", "ending"},
         lock \in {NULL, t}, \A k \in Index : Owner(k) # t,
         RegisterNew(t), UNCHANGED <<stop, menu>>
  PROVE  WorldInv'
<1>1. PICK r : /\ Became(t, r)
               /\ DOMAIN r = ThreadFields /\ r.pc = "run" /\ r.id = th[t].id
  <2>1. DOMAIN th[t] = ThreadFields
    BY DEF WorldInv, ShapeInv
  <2>2. /\ DOMAIN With(t, "run") = ThreadFields /\ With(t, "run").pc = "run" /\ With(t, "run").id = th[t].id
    BY <2>1 DEF With, ThreadFields
  <2> DEFINE r == [With(t, "run") EXCEPT !.held = {th[t].result} \ {NULL}, !.result = NULL]
  <2>3. DOMAIN r = ThreadFields /\ r.pc = "run" /\ r.id = th[t].id
    BY <2>2 DEF ThreadFields
  <2> HIDE DEF r
  <2>4. Became(t, IF th[t].unregisters THEN With(t, "run") ELSE r)
    BY Zenon DEF RegisterNew, r
  <2> QED
    BY <2>2, <2>3, <2>4
<1>2. Calm(t, r) /\ Alive(t)
  <2>1. gc.phase = "none"
    BY NobodyCollects DEF WorldInv
  <2>2. lock' = NULL /\ UNCHANGED gc
    BY DEF RegisterNew
  <2> QED
    BY <1>1, <2>1, <2>2 DEF Calm, Alive, Reckless, Locking
<1>3. PICK e : /\ table' = <<e>> \o table
               /\ DOMAIN e = EntryFields /\ e.of = t /\ e.id = th[t].id /\ e.last_stop_count = 0
               /\ FINISHED \notin e.flags /\ e.thread_blocked = FALSE
  <2>1. PICK E : table \in Seq(E)
    BY DEF WorldInv, ShapeInv
  <2>2. PICK id, flags : id = th[t].id /\ flags = NewFlags(t)
    OBVIOUS
  <2>3. Enters(table', table, t, id, flags)
    BY <2>2 DEF RegisterNew, Enters
  <2>4. FINISHED \notin flags
    BY <2>2 DEF NewFlags, FINISHED, DETACHED
  <2>5. Entered(table', table, t, id)
    BY ONLY <2>1, <2>3, <2>4, NewEntry
  <2> QED
    BY <2>2, <2>5 DEF Entered
<1> QED
  BY <1>1, <1>2, <1>3, EntryAdded

\* The entry of a new thread, with or without a collection before.
LEMMA EntryMade ==
  ASSUME WorldInv, NEW t \in Threads, th[t].pc \in {"start", "register", "ending"}, lock = NULL,
         \A k \in Index : Owner(k) # t,
         GC_register_my_thread_inner(t), UNCHANGED <<stop, menu>>
  PROVE  WorldInv'
<1>1. CASE StartGC(t, "start_again", InCreation) /\ UNCHANGED table
  <2>1. SameKeys /\ InCreation \in BOOLEAN /\ InCreation
    BY <1>1, SameTable DEF WorldInv, InCreation
  <2> QED
    BY <1>1, <2>1, StartsGC
<1>2. CASE RegisterNew(t)
  BY <1>2, BecomesKnown
<1> QED
  BY <1>1, <1>2 DEF GC_register_my_thread_inner

\* A thread that pthread_create made becomes known.
LEMMA Prepares ==
  ASSUME WorldInv, NEW t \in Threads, GC_start_rtn_prepare_thread(t) \/ HasCollected(t), UNCHANGED menu
  PROVE  WorldInv'
<1>1. CASE GC_start_rtn_prepare_thread(t)
  <2>1. th[t].pc = "start" /\ lock = NULL /\ GC_register_my_thread_inner(t) /\ UNCHANGED stop
    BY <1>1 DEF GC_start_rtn_prepare_thread, In
  <2> QED
    BY <2>1, NoEntry, EntryMade DEF WorldInv
<1>2. CASE HasCollected(t)
  <2>1. th[t].pc = "start_again" /\ RegisterNew(t) /\ UNCHANGED stop
    BY <1>2 DEF HasCollected, In
  <2>2. lock = t /\ \A k \in Index : Owner(k) # t
    BY <2>1 DEF WorldInv, LockInv, Locking, TableInv, Known, Plain, Past
  <2> QED
    BY <2>1, <2>2, BecomesKnown
<1> QED
  BY <1>1, <1>2

\* A thread from outside, or one that is ending, becomes known.
LEMMA Registers ==
  ASSUME WorldInv, NEW t \in Threads, GC_register_my_thread(t), UNCHANGED menu
  PROVE  WorldInv'
<1>1. PICK k : k = GC_lookup_thread(table, th[t].id)
  OBVIOUS
<1>2. /\ KeepsId(t) /\ th[t].pc \in {"register", "ending"} /\ lock = NULL /\ UNCHANGED stop
      /\ \/ k = 0 /\ GC_register_my_thread_inner(t)
         \/ /\ k # 0 /\ UNCHANGED <<gc, lock>> /\ Became(t, With(t, "run"))
            /\ table' = [table EXCEPT ![k] = InitLocal([table[k] EXCEPT !.flags = @ \ {FINISHED}])]
  BY <1>1, Zenon DEF GC_register_my_thread, In, KeepsId
<1>3. PICK E : table \in Seq(E)
  BY DEF WorldInv, ShapeInv
<1>4. \/ k = 0 /\ \A j \in Index : table[j].id # th[t].id
      \/ k \in Index /\ table[k].id = th[t].id
  BY <1>1, <1>3, Found DEF Index
<1>5. CASE k = 0 /\ GC_register_my_thread_inner(t)
  <2>1. \A j \in Index : Owner(j) # t
    <3>1. 0 \notin Index
      BY Entries DEF WorldInv
    <3> QED
      BY <1>4, <1>5, <3>1 DEF WorldInv, TableInv
  <2> QED
    BY <1>2, <1>5, <2>1, EntryMade
<1>6. CASE /\ k # 0 /\ UNCHANGED <<gc, lock>> /\ Became(t, With(t, "run"))
           /\ table' = [table EXCEPT ![k] = InitLocal([table[k] EXCEPT !.flags = @ \ {FINISHED}])]
  <2>1. k \in Index /\ table[k].id = th[t].id /\ Owner(k) = t
    <3>1. Alive(t)
      BY <1>2 DEF Alive
    <3> QED
      BY <1>2, <1>4, <1>6, <3>1 DEF WorldInv, IdInv
  <2>2. th[t].pc = "ending"
    BY <1>2, <2>1, NoEntry DEF WorldInv
  <2> DEFINE r == With(t, "run")
  <2>3. Became(t, r) /\ DOMAIN r = ThreadFields /\ r.pc = "run" /\ r.id = th[t].id
    BY <1>6 DEF With, ThreadFields, WorldInv, ShapeInv
  <2> HIDE DEF r
  <2>4. Calm(t, r)
    <3>1. gc.phase = "none"
      BY <1>2, NobodyCollects DEF WorldInv
    <3> QED
      BY <1>2, <1>6, <2>3, <3>1 DEF Calm, Reckless, Locking
  <2> DEFINE f == [table[k] EXCEPT !.flags = @ \ {FINISHED}]
             e == [f EXCEPT !.tlfs = [counting |-> TRUE, list |-> {}]]
  <2>5. table' = [table EXCEPT ![k] = e]
    BY ONLY <1>6 DEF InitLocal
  <2>6. /\ DOMAIN e = EntryFields /\ e.of = t /\ e.id = table[k].id
        /\ e.last_stop_count = table[k].last_stop_count
        /\ FINISHED \notin e.flags /\ e.thread_blocked = table[k].thread_blocked
    <3>1. DOMAIN table[k] = EntryFields /\ table[k].of = t
      BY <2>1 DEF WorldInv, ShapeInv, Owner
    <3> QED
      BY ONLY <3>1 DEF EntryFields
  <2> HIDE DEF f, e
  <2>7. ~e.thread_blocked
    BY <2>1, <2>2, <2>6 DEF WorldInv, TableInv
  <2> QED
    BY <2>1, <2>2, <2>3, <2>4, <2>5, <2>6, <2>7, EntryChanges
<1> QED
  BY <1>2, <1>5, <1>6

\* The creator goes on, a thread returns, an entry is looked up.
LEMMA Returns ==
  ASSUME WorldInv, NEW t \in Threads, Registered(t) \/ Return(t), UNCHANGED menu
  PROVE  WorldInv'
<1>1. SameCollector /\ UNCHANGED stop /\ lock' = lock
  <2>1. UNCHANGED <<stop, gc, lock>>
    BY Zenon DEF Registered, Return
  <2> QED
    BY <2>1, SameGc DEF WorldInv
<1>2. DOMAIN th[t] = ThreadFields
  BY DEF WorldInv, ShapeInv
<1>3. CASE Registered(t)
  <2> DEFINE r == [With(t, "run") EXCEPT !.of = NULL, !.obj = NULL]
  <2>1. Became(t, r) /\ UNCHANGED table /\ th[t].pc \in Plain
    BY <1>3 DEF Registered, In, Plain
  <2>2. /\ DOMAIN r = DOMAIN th[t] /\ r.pc = "run" /\ r.id = th[t].id
        /\ r.unregisters = th[t].unregisters
    BY <1>2 DEF With, ThreadFields
  <2>3. SameKeys /\ r.pc \in Ordinary \ Locking
    BY <2>1, <2>2, SameTable DEF WorldInv, Ordinary, Plain, Locking
  <2> HIDE DEF r
  <2> QED
    BY <1>1, <2>1, <2>2, <2>3, OwnStep
<1>4. CASE Return(t)
  <2>1. PICK result \in th[t].held \cup {NULL} :
          /\ table' = [table EXCEPT ![Own(t)].status = result]
          /\ Became(t, [With(t, "exit") EXCEPT !.held = {}, !.result = result])
    BY <1>4, Zenon DEF Return
  <2> DEFINE r == [With(t, "exit") EXCEPT !.held = {}, !.result = result]
  <2>2. Became(t, r) /\ t # "Main" /\ th[t].pc \in Plain
    <3>1. t # "Main" /\ th[t].pc = "run"
      BY <1>4, Zenon DEF Return, In
    <3> QED
      BY <2>1, <3>1 DEF Plain
  <2>3. /\ DOMAIN r = ThreadFields /\ r.pc = "exit" /\ r.id = th[t].id
        /\ r.unregisters = th[t].unregisters
    BY <1>2 DEF With, ThreadFields
  <2>4. SameKeys
    <3>1. PICK k : k = Own(t)
      OBVIOUS
    <3>2. table' = [table EXCEPT ![k].status = result] /\ ShapeInv
      BY <2>1, <3>1 DEF WorldInv
    <3> QED
      BY ONLY <3>2, NewStatus
  <2> HIDE DEF r
  <2>5. Continues(t, r)
    BY <2>2, <2>3 DEF Continues, Became, Plain
  <2>6. Locks(t)
    <3>1. th'[t] = r
      BY <2>2 DEF WorldInv, ShapeInv, Became
    <3> QED
      BY <1>1, <2>3, <3>1 DEF Locks, Locking
  <2> QED
    BY <1>1, <2>2, <2>4, <2>5, <2>6, PlainStep
<1> QED
  BY <1>3, <1>4

\* The entry that is found is that of the thread, or of one that is gone.
LEMMA LooksUp ==
  ASSUME WorldInv, NEW t \in Threads, NEW pc \in {"join", "detach"}, LookUp(t, pc), UNCHANGED menu
  PROVE  WorldInv'
<1>1. /\ th[t].pc = "run" /\ SameCollector /\ UNCHANGED stop /\ lock' = lock
      /\ SameKeys
  BY SameGc, SameTable DEF WorldInv, LookUp, In
<1>2. PICK u \in Threads \ {t} :
        /\ Alive(u) /\ GC_lookup_thread(table, th[u].id) # 0
        /\ Became(t, [With(t, pc) EXCEPT !.of = u, !.entry = table[GC_lookup_thread(table, th[u].id)].of])
  BY Zenon DEF LookUp
<1>3. PICK k, id : id = th[u].id /\ k = GC_lookup_thread(table, id)
  OBVIOUS
<1>4. PICK E : table \in Seq(E)
  BY DEF WorldInv, ShapeInv
<1>5. k \in Index /\ table[k].id = id
  BY <1>2, <1>3, <1>4, Found DEF Index
<1>6. PICK w \in Threads : w = Owner(k)
  BY <1>5 DEF WorldInv, TableInv
<1>7. w = u \/ th[w].pc = "gone"
  <2>1. th[w].id = th[u].id /\ (Known(w) \/ th[w].pc \in Past)
    BY <1>3, <1>5, <1>6 DEF WorldInv, TableInv
  <2>2. Alive(w) \/ th[w].pc = "gone"
    BY <2>1, KnownIsAlive DEF Past, Alive
  <2> QED
    BY <1>2, <2>1, <2>2 DEF WorldInv, TableInv
<1> DEFINE r == [With(t, pc) EXCEPT !.of = u, !.entry = w]
<1>8. Became(t, r)
  BY <1>2, <1>3, <1>6 DEF Owner
<1>9. /\ DOMAIN r = ThreadFields /\ r.pc = pc /\ r.id = th[t].id
      /\ r.unregisters = th[t].unregisters /\ r.of = u /\ r.entry = w
  <2>1. DOMAIN th[t] = ThreadFields
    BY DEF WorldInv, ShapeInv
  <2> QED
    BY <2>1 DEF With, ThreadFields
<1> HIDE DEF r
<1>10. Continues(t, r)
  BY <1>7, <1>8, <1>9 DEF Continues, Became, Plain
<1>11. Locks(t)
  <2>1. th'[t] = r
    BY <1>8 DEF WorldInv, ShapeInv, Became
  <2> QED
    BY <1>1, <1>9, <2>1 DEF Locks, Locking
<1>12. th[t].pc \in Plain
  BY <1>1 DEF Plain
<1> QED
  BY <1>1, <1>10, <1>11, <1>12, PlainStep

\* The thread gives its entry back, or leaves it for a join.
LEMMA Unregisters ==
  ASSUME WorldInv, NEW t \in Threads, GC_thread_exit_proc(t) \/ GC_unregister_my_thread(t),
         UNCHANGED menu
  PROVE  WorldInv'
<1>1. /\ th[t].pc \in {"run", "exit"} /\ lock = NULL
      /\ stop.handler[t].pc = "none" /\ GC_unregister_my_thread_inner(t)
  BY DEF GC_thread_exit_proc, GC_unregister_my_thread, In, CanRun, InHandler
<1>2. PICK k \in Index : k = Own(t) /\ Owner(k) = t /\ Mine(t) = k
  <2>1. Known(t)
    BY <1>1 DEF Known, Plain
  <2> QED
    BY <2>1, OwnEntry DEF WorldInv
<1>3. /\ table' = IF DETACHED \in table[k].flags THEN GC_delete_thread(table, th[t].id)
                  ELSE [table EXCEPT ![k].flags = @ \cup {FINISHED}, ![k].tlfs.list = {}]
      /\ Became(t, [With(t, "ending") EXCEPT !.held = {}, !.unregisters = TRUE])
      /\ UNCHANGED <<stop, gc, lock>>
  BY <1>1, <1>2 DEF GC_unregister_my_thread_inner
<1> DEFINE r == [With(t, "ending") EXCEPT !.held = {}, !.unregisters = TRUE]
<1>4. Became(t, r) /\ DOMAIN r = ThreadFields /\ r.pc = "ending" /\ r.id = th[t].id
  <2>1. DOMAIN th[t] = ThreadFields
    BY DEF WorldInv, ShapeInv
  <2> QED
    BY <1>3, <2>1 DEF With, ThreadFields
<1> HIDE DEF r
<1>5. Calm(t, r)
  <2>1. gc.phase = "none"
    BY <1>1, NobodyCollects DEF WorldInv
  <2> QED
    BY <1>1, <1>3, <1>4, <2>1 DEF Calm, Reckless, Locking
<1>6. CASE DETACHED \in table[k].flags
  <2>1. table' = RemoveAt(table, k)
    BY <1>2, <1>3, <1>6 DEF GC_delete_thread, Mine
  <2>2. k # 0
    BY Entries DEF WorldInv
  <2> QED
    BY <1>1, <1>2, <1>4, <1>5, <2>1, <2>2, EntryRemoved
<1>7. CASE DETACHED \notin table[k].flags
  <2> DEFINE f == [table[k] EXCEPT !.flags = @ \cup {FINISHED}]
             e == [f EXCEPT !.tlfs = [f.tlfs EXCEPT !.list = {}]]
  <2>1. table' = [table EXCEPT ![k] = e]
    <3>1. PICK E : table \in Seq(E)
      BY DEF WorldInv, ShapeInv
    <3>2. table' = [table EXCEPT ![k].flags = @ \cup {FINISHED}, ![k].tlfs.list = {}]
      BY <1>3, <1>7
    <3> QED
      BY <3>1, <3>2 DEF Index
  <2>2. /\ DOMAIN e = EntryFields /\ e.of = t /\ e.id = table[k].id
        /\ e.last_stop_count = table[k].last_stop_count
        /\ FINISHED \in e.flags /\ e.thread_blocked = table[k].thread_blocked
    <3>1. DOMAIN table[k] = EntryFields /\ table[k].of = t
      BY <1>2 DEF WorldInv, ShapeInv, Owner
    <3> QED
      BY ONLY <3>1 DEF EntryFields
  <2> HIDE DEF f, e
  <2>3. ~e.thread_blocked
    BY <1>1, <1>2, <2>2 DEF WorldInv, TableInv
  <2> QED
    BY <1>1, <1>2, <1>4, <1>5, <2>1, <2>2, <2>3, EntryChanges
<1> QED
  BY <1>6, <1>7

\* A thread ends.
LEMMA Ends ==
  ASSUME WorldInv, NEW t \in Threads, EndThread(t), UNCHANGED menu
  PROVE  WorldInv'
<1> DEFINE pc == IF th[t].joinable THEN "dead" ELSE "gone"
           r == With(t, pc)
<1>1. th[t].pc = "ending" /\ Became(t, r) /\ UNCHANGED <<table, stop, gc, lock>>
  BY DEF EndThread, In
<1>2. DOMAIN r = ThreadFields /\ r.pc \in {"dead", "gone"} /\ r.id = th[t].id
  BY Stays DEF WorldInv, ShapeInv
<1> HIDE DEF r, pc
<1>3. /\ DOMAIN th' = Threads /\ th'[t] = r /\ \A u \in Threads : u # t => th'[u] = th[u]
  BY <1>1 DEF WorldInv, ShapeInv, Became
<1>4. \A u \in Threads : Drifts(u)
  BY <1>1, <1>2, <1>3 DEF WorldInv, ShapeInv, Drifts
<1> QED
  BY <1>1, <1>3, <1>4, Drift

\* A thread is joined, and then its entry is deleted.
LEMMA JoinsThread ==
  ASSUME WorldInv, NEW t \in Threads, GC_pthread_join(t), UNCHANGED menu
  PROVE  WorldInv'
<1>1. CASE LookUp(t, "join")
  BY <1>1, LooksUp
<1>2. CASE /\ In(t, "join") /\ th[th[t].of].pc = "dead"
           /\ th' = [th EXCEPT ![t] = [With(t, "joined") EXCEPT !.of = NULL, !.held = @ \cup ({th[th[t].of].result} \ {NULL})],
                               ![th[t].of] = Thread("gone", th[th[t].of].id)]
           /\ UNCHANGED <<table, stop, gc, mark_lock, heap, pm, lock>>
  <2>1. th[t].pc = "join"
    BY <1>2 DEF In
  <2>2. PICK u \in Threads \ {t} : u = th[t].of
    BY <2>1 DEF WorldInv, JoinInv
  <2> DEFINE r == [With(t, "joined") EXCEPT !.of = NULL, !.held = @ \cup ({th[u].result} \ {NULL})]
             g == Thread("gone", th[u].id)
  <2>3. th' = [th EXCEPT ![t] = r, ![u] = g]
    BY <1>2, <2>2
  <2>4. /\ DOMAIN r = ThreadFields /\ r.pc = "joined" /\ r.id = th[t].id
        /\ r.unregisters = th[t].unregisters /\ r.entry = th[t].entry
    <3>1. DOMAIN th[t] = ThreadFields
      BY DEF WorldInv, ShapeInv
    <3> QED
      BY ONLY <3>1 DEF With, ThreadFields
  <2>5. DOMAIN g = ThreadFields /\ g.pc = "gone" /\ g.id = th[u].id
    BY DEF Thread, ThreadFields
  <2> HIDE DEF r, g
  <2>6. /\ DOMAIN th' = Threads /\ th'[t] = r /\ th'[u] = g
        /\ \A v \in Threads : v \notin {t, u} => th'[v] = th[v]
    BY <2>2, <2>3 DEF WorldInv, ShapeInv
  <2>7. th[t].entry \in Threads /\ th'[th[t].entry].pc = "gone"
    <3>1. th[t].entry \in Threads /\ (th[t].entry = u \/ th[th[t].entry].pc = "gone")
      BY <2>1, <2>2 DEF WorldInv, JoinInv
    <3> QED
      BY <2>1, <2>5, <2>6, <3>1
  <2>8. \A v \in Threads : Drifts(v)
    <3>1. Drifts(t)
      BY <2>1, <2>4, <2>6, <2>7 DEF Drifts
    <3>2. Drifts(u)
      BY <1>2, <2>2, <2>5, <2>6 DEF Drifts
    <3>3. \A v \in Threads : v \notin {t, u} => Drifts(v)
      BY <2>6 DEF Drifts, WorldInv, ShapeInv
    <3> QED
      BY <3>1, <3>2, <3>3
  <2>9. UNCHANGED <<table, stop, gc, lock>>
    BY <1>2
  <2> QED
    BY <2>6, <2>8, <2>9, Drift
<1>3. CASE /\ In(t, "joined") /\ lock = NULL
           /\ table' = GC_delete_gc_thread(table, th[t].entry)
           /\ Became(t, [With(t, "run") EXCEPT !.entry = NULL])
           /\ UNCHANGED <<stop, gc, mark_lock, heap, pm, lock>>
  <2>1. th[t].pc = "joined" /\ lock = NULL /\ UNCHANGED <<stop, gc, lock>>
    BY <1>3 DEF In
  <2>2. PICK u, k : u = th[t].entry /\ k = EntryOf(table, u)
    OBVIOUS
  <2>3. k \in Index \cup {0} /\ table' = RemoveAt(table, k) /\ (k # 0 => Owner(k) = u)
    <3>1. PICK E : table \in Seq(E)
      BY DEF WorldInv, ShapeInv
    <3>2. k \in Index \cup {0} /\ (k # 0 => Owner(k) = u)
      BY <2>2, <3>1, FoundOwn DEF Index, Owner
    <3> QED
      BY <1>3, <2>2, <3>2 DEF GC_delete_gc_thread
  <2>4. ~Known(u)
    BY <2>1, <2>2, KnownIsAlive DEF WorldInv, JoinInv, Past
  <2> DEFINE r == [With(t, "run") EXCEPT !.entry = NULL]
  <2>5. /\ Became(t, r) /\ DOMAIN r = ThreadFields /\ r.pc = "run" /\ r.id = th[t].id
        /\ r.unregisters = th[t].unregisters
    <3>1. DOMAIN th[t] = ThreadFields
      BY DEF WorldInv, ShapeInv
    <3> QED
      BY <1>3, <3>1 DEF With, ThreadFields
  <2> HIDE DEF r
  <2>6. Calm(t, r)
    <3>1. gc.phase = "none"
      BY <2>1, NobodyCollects DEF WorldInv
    <3> QED
      BY <2>1, <2>5, <3>1 DEF Calm, Reckless, Locking
  <2> QED
    BY <2>1, <2>3, <2>4, <2>5, <2>6, EntryRemoved
<1> QED
  BY <1>1, <1>2, <1>3 DEF GC_pthread_join

\* A thread is detached: its entry is deleted if it has ended.
LEMMA Detaches ==
  ASSUME WorldInv, NEW t \in Threads, GC_pthread_detach(t), UNCHANGED menu
  PROVE  WorldInv'
<1>1. CASE LookUp(t, "detach")
  BY <1>1, LooksUp
<1>2. CASE /\ In(t, "detach")
           /\ th' = [th EXCEPT ![t] = [With(t, "detached") EXCEPT !.of = NULL],
                               ![th[t].of].joinable = FALSE, ![th[t].of].pc = IF @ = "dead" THEN "gone" ELSE @]
           /\ UNCHANGED <<table, stop, gc, mark_lock, heap, pm, lock>>
  <2>1. th[t].pc = "detach" /\ UNCHANGED <<table, stop, gc, lock>>
    BY <1>2 DEF In
  <2>2. PICK u \in Threads \ {t} : u = th[t].of
    BY <2>1 DEF WorldInv, JoinInv
  <2> DEFINE r == [With(t, "detached") EXCEPT !.of = NULL]
             f == [th[u] EXCEPT !.joinable = FALSE]
             g == [f EXCEPT !.pc = IF @ = "dead" THEN "gone" ELSE @]
  <2>3. DOMAIN th[t] = ThreadFields /\ DOMAIN th[u] = ThreadFields /\ DOMAIN th = Threads
    BY DEF WorldInv, ShapeInv
  <2>4. /\ DOMAIN th' = Threads /\ th'[t] = r /\ th'[u] = g
        /\ \A v \in Threads : v \notin {t, u} => th'[v] = th[v]
    <3>1. th' = [th EXCEPT ![t] = r, ![u].joinable = FALSE, ![u].pc = IF @ = "dead" THEN "gone" ELSE @]
      BY <1>2, <2>2
    <3> QED
      BY <2>2, <2>3, <3>1
  <2>5. DOMAIN r = ThreadFields /\ r.pc = "detached" /\ r.id = th[t].id /\ r.unregisters = th[t].unregisters
    BY ONLY <2>3 DEF With, ThreadFields
  <2>6. /\ DOMAIN g = ThreadFields /\ g.pc = (IF th[u].pc = "dead" THEN "gone" ELSE th[u].pc)
        /\ g.id = th[u].id /\ g.unregisters = th[u].unregisters /\ g.of = th[u].of /\ g.entry = th[u].entry
    BY ONLY <2>3 DEF ThreadFields
  <2> HIDE DEF r, f, g
  <2>7. Drifts(t)
    BY <2>1, <2>4, <2>5 DEF Drifts
  <2>8. Drifts(u)
    BY <2>4, <2>6 DEF Drifts
  <2>9. \A v \in Threads : v \notin {t, u} => Drifts(v)
    BY <2>4 DEF Drifts, WorldInv, ShapeInv
  <2>10. \A v \in Threads : Drifts(v)
    BY <2>7, <2>8, <2>9
  <2> QED
    BY <2>1, <2>4, <2>10, Drift
<1>3. ASSUME NEW k, k = EntryOf(table, th[t].entry),
             In(t, "detached"), lock = NULL,
             table' = IF FINISHED \in table[k].flags THEN GC_delete_gc_thread(table, th[t].entry)
                      ELSE [table EXCEPT ![k].flags = @ \cup {DETACHED}],
             Became(t, [With(t, "run") EXCEPT !.entry = NULL]),
             UNCHANGED <<stop, gc, lock>>
      PROVE  WorldInv'
  <2>1. th[t].pc = "detached"
    BY <1>3 DEF In
  <2>2. k \in Index \cup {0}
    <3>1. PICK E : table \in Seq(E)
      BY DEF WorldInv, ShapeInv
    <3>2. PICK u : u = th[t].entry
      OBVIOUS
    <3> QED
      BY <1>3, <3>1, <3>2, FoundOwn DEF Index
  <2> DEFINE r == [With(t, "run") EXCEPT !.entry = NULL]
  <2>3. /\ Became(t, r) /\ DOMAIN r = ThreadFields /\ r.pc = "run" /\ r.id = th[t].id
        /\ r.unregisters = th[t].unregisters
    <3>1. DOMAIN th[t] = ThreadFields
      BY DEF WorldInv, ShapeInv
    <3> QED
      BY <1>3, <3>1 DEF With, ThreadFields
  <2> HIDE DEF r
  <2>4. CASE FINISHED \in table[k].flags
    <3>1. table' = RemoveAt(table, k)
      BY <1>3, <2>4 DEF GC_delete_gc_thread
    <3>2. k # 0 => ~Known(Owner(k))
      BY <2>2, <2>4 DEF WorldInv, TableInv
    <3>3. gc.phase = "none"
      BY <1>3, <2>1, NobodyCollects DEF WorldInv
    <3>4. Calm(t, r)
      BY <1>3, <2>1, <2>3, <3>3 DEF Calm, Reckless, Locking
    <3> QED
      BY <2>1, <2>2, <2>3, <3>1, <3>2, <3>4, EntryRemoved
  <2>5. CASE FINISHED \notin table[k].flags
    <3> DEFINE e == [table[k] EXCEPT !.flags = @ \cup {DETACHED}]
    <3>1. table' = [table EXCEPT ![k] = e]
      BY <1>3, <2>5
    <3>2. k \in Index =>
            /\ DOMAIN e = EntryFields
            /\ e.of = table[k].of /\ e.id = table[k].id
            /\ FINISHED \in e.flags <=> FINISHED \in table[k].flags
            /\ e.thread_blocked <=> table[k].thread_blocked
            /\ e.last_stop_count = table[k].last_stop_count
      <4>1. k \in Index => DOMAIN table[k] = EntryFields
        BY DEF WorldInv, ShapeInv
      <4> QED
        BY <4>1 DEF EntryFields, FINISHED, DETACHED
    <3> HIDE DEF e
    <3>3. ShapeInv
      BY DEF WorldInv
    <3>4. SameKeys
      BY ONLY <3>1, <3>2, <3>3, SameEntry
    <3>5. SameCollector
      BY <1>3, SameGc DEF WorldInv
    <3>6. th[t].pc \in Plain /\ r.pc \in Ordinary \ Locking /\ DOMAIN r = DOMAIN th[t]
      BY <2>1, <2>3 DEF Plain, Ordinary, Locking, WorldInv, ShapeInv
    <3> QED
      BY <1>3, <2>3, <3>4, <3>5, <3>6, OwnStep
  <2> QED
    BY <2>4, <2>5
<1> QED
  BY <1>1, <1>2, <1>3 DEF GC_pthread_detach

-----------------------------------------------------------------------------
\* Threads block.

\* A thread enters or leaves a blocking region, with the lock.
LEMMA Blocking ==
  ASSUME WorldInv, NEW t \in Threads, th[t].pc \in {"run", "blocked"}, lock = NULL,
         NEW r, Became(t, r), DOMAIN r = ThreadFields, r.pc \in {"run", "blocked"},
         r.id = th[t].id, r.unregisters = th[t].unregisters,
         NEW e, table' = [table EXCEPT ![Mine(t)] = e],
         DOMAIN table[Mine(t)] = EntryFields =>
           /\ DOMAIN e = EntryFields /\ e.of = table[Mine(t)].of /\ e.id = table[Mine(t)].id
           /\ e.last_stop_count = table[Mine(t)].last_stop_count /\ e.flags = table[Mine(t)].flags
           /\ e.thread_blocked <=> r.pc = "blocked",
         UNCHANGED <<stop, gc, lock, menu>>
  PROVE  WorldInv'
<1>1. Known(t)
  BY DEF Known, Plain
<1>2. PICK k \in Index : k = Mine(t) /\ Owner(k) = t
  BY <1>1, OwnEntry DEF WorldInv
<1>3. /\ DOMAIN e = EntryFields /\ e.of = t /\ e.id = table[k].id
      /\ e.last_stop_count = table[k].last_stop_count /\ FINISHED \notin e.flags
      /\ e.thread_blocked <=> r.pc = "blocked"
  BY <1>1, <1>2 DEF WorldInv, ShapeInv, TableInv, Owner
<1>4. Calm(t, r)
  <2>1. gc.phase = "none"
    BY NobodyCollects DEF WorldInv
  <2> QED
    BY <2>1 DEF Calm, Reckless, Locking
<1>5. table' = [table EXCEPT ![k] = e]
  BY <1>2
<1>6. /\ FINISHED \notin e.flags <=> r.pc # "ending"
      /\ r.pc = "ending" => stop.handler[t].pc = "none"
      /\ th[t].pc \in {"run", "blocked", "exit", "ending"} /\ r.pc \in {"run", "blocked", "ending"}
      /\ r.id = th[t].id
  BY <1>3
<1> QED
  BY ONLY WorldInv, <1>2, <1>3, <1>4, <1>5, <1>6, EntryChanges

\* GC_do_blocking and GC_call_with_gc_active.
LEMMA Blocks ==
  ASSUME WorldInv, NEW t \in Threads,
         GC_do_blocking(t) \/ EndBlocking(t) \/ GC_call_with_gc_active(t), UNCHANGED menu
  PROVE  WorldInv'
<1>1. DOMAIN th[t] = ThreadFields
  BY DEF WorldInv, ShapeInv
<1>2. ASSUME lock = NULL, th[t].pc = "blocked", NEW active, Unblocked(t, active) PROVE WorldInv'
  <2> DEFINE r == [With(t, "run") EXCEPT !.active = active]
             e == [table[Mine(t)] EXCEPT !.thread_blocked = FALSE]
  <2>1. /\ Became(t, r) /\ DOMAIN r = ThreadFields /\ r.pc = "run" /\ r.id = th[t].id
        /\ r.unregisters = th[t].unregisters
    BY <1>1, <1>2 DEF Unblocked, With, ThreadFields
  <2>2. table' = [table EXCEPT ![Mine(t)] = e] /\ UNCHANGED <<stop, gc, lock>>
    BY <1>2 DEF Unblocked
  <2>3. DOMAIN table[Mine(t)] = EntryFields =>
          /\ DOMAIN e = EntryFields /\ e.of = table[Mine(t)].of /\ e.id = table[Mine(t)].id
          /\ e.last_stop_count = table[Mine(t)].last_stop_count /\ e.flags = table[Mine(t)].flags
          /\ ~e.thread_blocked
    BY DEF EntryFields
  <2> HIDE DEF r, e
  <2> QED
    BY <1>2, <2>1, <2>2, <2>3, Blocking
<1>3. ASSUME lock = NULL, th[t].pc = "run", NEW stack, NEW r, Became(t, r), DOMAIN r = ThreadFields,
             r.pc = "blocked", r.id = th[t].id, r.unregisters = th[t].unregisters,
             table' = [table EXCEPT ![Mine(t)].stack = stack, ![Mine(t)].thread_blocked = TRUE],
             UNCHANGED <<stop, gc, lock>>
      PROVE  WorldInv'
  <2> DEFINE f == [table[Mine(t)] EXCEPT !.stack = stack]
             e == [f EXCEPT !.thread_blocked = TRUE]
  <2>1. table' = [table EXCEPT ![Mine(t)] = e]
    <3>1. Mine(t) \in DOMAIN table
      BY <1>3, OwnEntry DEF WorldInv, Known, Plain, Index
    <3>2. PICK E : table \in Seq(E)
      BY DEF WorldInv, ShapeInv
    <3> QED
      BY <1>3, <3>1, <3>2
  <2>2. DOMAIN table[Mine(t)] = EntryFields =>
          /\ DOMAIN e = EntryFields /\ e.of = table[Mine(t)].of /\ e.id = table[Mine(t)].id
          /\ e.last_stop_count = table[Mine(t)].last_stop_count /\ e.flags = table[Mine(t)].flags
          /\ e.thread_blocked <=> r.pc = "blocked"
    BY <1>3 DEF EntryFields
  <2> HIDE DEF f, e
  <2>3. /\ th[t].pc \in {"run", "blocked"} /\ lock = NULL /\ Became(t, r) /\ DOMAIN r = ThreadFields
        /\ r.pc \in {"run", "blocked"} /\ r.id = th[t].id /\ r.unregisters = th[t].unregisters
        /\ UNCHANGED <<stop, gc, lock, menu>>
    BY <1>3
  <2> QED
    BY ONLY WorldInv, t \in Threads, <2>1, <2>2, <2>3, Blocking
<1>4. CASE GC_do_blocking(t)
  <2> DEFINE r == [With(t, "blocked") EXCEPT !.saved = th[t].held]
  <2>1. /\ th[t].pc = "run" /\ lock = NULL /\ Became(t, r)
        /\ table' = [table EXCEPT ![Mine(t)].stack = Stack(t), ![Mine(t)].thread_blocked = TRUE]
        /\ UNCHANGED <<stop, gc, lock>>
    BY <1>4 DEF GC_do_blocking, In
  <2>2. /\ DOMAIN r = ThreadFields /\ r.pc = "blocked" /\ r.id = th[t].id
        /\ r.unregisters = th[t].unregisters
    BY <1>1 DEF With, ThreadFields
  <2> HIDE DEF r
  <2> QED
    BY <1>3, <2>1, <2>2
<1>5. CASE EndBlocking(t)
  BY <1>2, <1>5 DEF EndBlocking, In
<1>6. CASE In(t, "blocked") /\ lock = NULL /\ Unblocked(t, TRUE)
  BY <1>2, <1>6 DEF In
<1>7. CASE /\ In(t, "run") /\ th[t].active /\ lock = NULL
           /\ table' = [table EXCEPT ![Mine(t)].stack = th[t].saved, ![Mine(t)].thread_blocked = TRUE]
           /\ Became(t, [With(t, "blocked") EXCEPT !.active = FALSE, !.held = th[t].saved])
           /\ UNCHANGED <<stop, gc, mark_lock, heap, pm, lock>>
  <2> DEFINE r == [With(t, "blocked") EXCEPT !.active = FALSE, !.held = th[t].saved]
  <2>1. /\ th[t].pc = "run" /\ lock = NULL /\ Became(t, r)
        /\ table' = [table EXCEPT ![Mine(t)].stack = th[t].saved, ![Mine(t)].thread_blocked = TRUE]
        /\ UNCHANGED <<stop, gc, lock>>
    BY <1>7 DEF In
  <2>2. /\ DOMAIN r = ThreadFields /\ r.pc = "blocked" /\ r.id = th[t].id
        /\ r.unregisters = th[t].unregisters
    BY <1>1 DEF With, ThreadFields
  <2> HIDE DEF r
  <2> QED
    BY <1>3, <2>1, <2>2
<1> QED
  BY <1>4, <1>5, <1>6, <1>7 DEF GC_call_with_gc_active

-----------------------------------------------------------------------------
\* Threads fork.

\* The greatest element of a set of bounded numbers is one of them.
LEMMA MaxIn ==
  ASSUME NEW n \in Nat, NEW S \in SUBSET (1..n), S # {}
  PROVE  Max(S) \in S
<1> DEFINE D == {d \in Nat : n - d \in S}
<1>1. D \in SUBSET Nat /\ D # {}
  <2>1. PICK i \in S : i \in 1..n
    OBVIOUS
  <2>2. n - i \in Nat /\ n - (n - i) = i
    BY <2>1
  <2> QED
    BY <2>1, <2>2
<1>2. PICK d \in D : \A m \in D : d <= m
  BY ONLY <1>1, HasLeast
<1>3. PICK i \in S : i = n - d
  OBVIOUS
<1>4. ASSUME NEW j \in S PROVE i >= j
  <2>1. j \in 1..n /\ n - j \in Nat /\ n - (n - j) = j
    OBVIOUS
  <2>2. d <= n - j
    BY <1>2, <2>1
  <2> QED
    BY <1>3, <2>1, <2>2
<1> QED
  BY <1>4 DEF Max

\* The last entry with an id.
LEMMA FoundLast ==
  ASSUME NEW E, NEW s \in Seq(E), NEW id, NEW j \in DOMAIN s, s[j].id = id
  PROVE  LET k == GC_lookup_thread_Oldest(s, id)
         IN  k \in DOMAIN s /\ s[k].id = id
<1> DEFINE I == {i \in 1..Len(s) : s[i].id = id}
<1>1. I \in SUBSET (1..Len(s)) /\ Len(s) \in Nat /\ I # {} /\ DOMAIN s = 1..Len(s)
  OBVIOUS
<1>2. Max(I) \in I
  BY ONLY <1>1, MaxIn
<1>3. GC_lookup_thread_Oldest(s, id) = Max(I)
  BY <1>1 DEF GC_lookup_thread_Oldest, SelectLastInSeq
<1> QED
  BY <1>1, <1>2, <1>3

\* The locks are taken before, and given back in the parent.
LEMMA ForksParent ==
  ASSUME WorldInv, NEW t \in Threads, PrepareFork(t) \/ fork_prepare_proc(t) \/ fork_parent_proc(t),
         UNCHANGED menu
  PROVE  WorldInv'
<1>1. ASSUME NEW pc \in {"run", "prepare_fork", "fork"}, Became(t, With(t, pc)),
             th[t].pc \in {"run", "prepare_fork", "fork"}, May(t, "fork"),
             \/ lock' = t /\ lock \in {NULL, t}
             \/ lock' = NULL /\ lock = t /\ pc = "run",
             SameCollector, UNCHANGED <<table, stop>>
      PROVE  WorldInv'
  <2> DEFINE r == With(t, pc)
  <2>1. DOMAIN r = ThreadFields /\ r.pc = pc /\ r.id = th[t].id /\ r.unregisters = th[t].unregisters
    BY Stays DEF WorldInv, ShapeInv
  <2>2. Became(t, r)
    BY <1>1
  <2> HIDE DEF r
  <2>3. Continues(t, r)
    BY <1>1, <2>1, <2>2 DEF Continues, Became, Plain
  <2>4. Locks(t)
    <3>1. th'[t] = r
      BY <2>2 DEF WorldInv, ShapeInv, Became
    <3> QED
      BY <1>1, <2>1, <3>1 DEF Locks, Locking
  <2>5. SameKeys /\ th[t].pc \in Plain
    BY <1>1, SameTable DEF WorldInv, Plain
  <2> QED
    BY <1>1, <2>3, <2>4, <2>5, PlainStep
<1>2. CASE PrepareFork(t)
  <2>1. /\ th[t].pc = "run" /\ lock = NULL /\ lock' = t /\ Became(t, With(t, "prepare_fork"))
        /\ UNCHANGED <<table, stop, gc>> /\ May(t, "fork")
    BY <1>2 DEF PrepareFork, In
  <2>2. SameCollector
    BY <2>1, SameGc DEF WorldInv
  <2> QED
    BY <1>1, <2>1, <2>2
<1>3. CASE fork_prepare_proc(t)
  <2>1. th[t].pc = "prepare_fork" /\ UNCHANGED <<table, stop, lock>>
    BY <1>3 DEF fork_prepare_proc, In
  <2>2. May(t, "fork") /\ lock = t
    BY <2>1 DEF WorldInv, IdInv, LockInv, Locking
  <2>3. SameCollector
    <3>1. gc' = gc \/ gc' = [gc EXCEPT !.asleep = @ \cup {t}]
      BY <1>3 DEF fork_prepare_proc, WaitForReclaim
    <3> QED
      BY <3>1 DEF SameCollector, WorldInv, ShapeInv, CollectorFields
  <2>4. Became(t, With(t, "fork")) \/ UNCHANGED th
    BY <1>3 DEF fork_prepare_proc
  <2>5. CASE Became(t, With(t, "fork"))
    BY <1>1, <2>1, <2>2, <2>3, <2>5
  <2>6. CASE UNCHANGED th
    BY <2>1, <2>3, <2>6, Stutter
  <2> QED
    BY <2>4, <2>5, <2>6
<1>4. CASE fork_parent_proc(t)
  <2>1. /\ th[t].pc = "fork" /\ lock' = NULL /\ Became(t, With(t, "run"))
        /\ UNCHANGED <<table, stop, gc>>
    BY <1>4 DEF fork_parent_proc, In
  <2>2. May(t, "fork") /\ lock = t /\ SameCollector
    BY <2>1, SameGc DEF WorldInv, IdInv, LockInv, Locking
  <2> QED
    BY <1>1, <2>1, <2>2
<1> QED
  BY <1>2, <1>3, <1>4

\* In the child there is one thread, and one entry.
LEMMA ForksChild ==
  ASSUME WorldInv, NEW t \in Threads, fork_child_proc(t), UNCHANGED menu
  PROVE  WorldInv'
<1>1. /\ th[t].pc = "fork" /\ lock' = NULL /\ UNCHANGED gc
      /\ table' = GC_remove_all_threads_but_me(table, th[t].id)
      /\ th' = [u \in Threads |-> IF u = t THEN With(t, "run") ELSE Thread("gone", u)]
      /\ stop' = [stop EXCEPT !.pending = [u \in Threads |-> {}], !.handler = [u \in Threads |-> Outside]]
  BY DEF fork_child_proc, In
<1>2. KeepsId(t) /\ lock = t /\ Known(t) /\ gc.phase = "none"
  <2>1. May(t, "fork") /\ lock = t
    BY <1>1 DEF WorldInv, IdInv, LockInv, Locking
  <2>2. gc.phase = "none"
    BY <1>1, <2>1, NobodyCollects DEF WorldInv
  <2> QED
    BY <1>1, <2>1, <2>2 DEF Known, Plain, KeepsId
<1>3. PICK k \in Index : Owner(k) = t /\ table' = <<table[k]>>
  <2>1. PICK E : table \in Seq(E)
    BY DEF WorldInv, ShapeInv
  <2>2. PICK j \in Index : Owner(j) = t /\ table[j].id = th[t].id
    BY <1>2 DEF WorldInv, TableInv
  <2>3. PICK id, k : id = th[t].id /\ k = GC_lookup_thread_Oldest(table, id)
    OBVIOUS
  <2>4. k \in Index /\ table[k].id = id
    BY <2>1, <2>2, <2>3, FoundLast DEF Index
  <2>5. Owner(k) = t
    BY <1>2, <2>3, <2>4, KnownIsAlive DEF WorldInv, IdInv
  <2>6. table' = <<table[k]>>
    BY <1>1, <2>3 DEF GC_remove_all_threads_but_me, GC_lookup_thread_Oldest
  <2> QED
    BY <2>4, <2>5, <2>6
<1>4. PICK e : /\ e = table[k] /\ table' = <<e>> /\ DOMAIN e = EntryFields /\ e.of = t /\ e.id = th[t].id
               /\ FINISHED \notin e.flags /\ ~e.thread_blocked /\ e.last_stop_count \in 0..stop.count
  BY <1>1, <1>2, <1>3 DEF WorldInv, ShapeInv, TableInv, SignalInv, Owner
<1>5. Index' = {1} /\ Owner(1)' = t /\ table'[1] = e /\ table' \in Seq({e})
  BY <1>4 DEF Index, Owner
<1>6. /\ DOMAIN th' = Threads /\ \A u \in Threads : DOMAIN th'[u] = ThreadFields
      /\ th'[t].pc = "run" /\ th'[t].id = th[t].id /\ th'[t].unregisters = th[t].unregisters
      /\ \A u \in Threads : u # t => th'[u].pc = "gone"
  <2>1. DOMAIN With(t, "run") = ThreadFields /\ With(t, "run").pc = "run"
        /\ With(t, "run").id = th[t].id /\ With(t, "run").unregisters = th[t].unregisters
    BY Stays DEF WorldInv, ShapeInv
  <2>2. \A u : DOMAIN Thread("gone", u) = ThreadFields /\ Thread("gone", u).pc = "gone"
    BY DEF Thread, ThreadFields
  <2> QED
    BY <1>1, <2>1, <2>2
<1>7. /\ DOMAIN stop' = StopFields /\ stop'.count = stop.count /\ stop'.acks = stop.acks
      /\ stop'.world_is_stopped = stop.world_is_stopped
      /\ DOMAIN stop'.pending = Threads /\ DOMAIN stop'.handler = Threads
      /\ \A u \in Threads : /\ stop'.pending[u] = {} /\ DOMAIN stop'.handler[u] = HandlerFields
                            /\ stop'.handler[u].pc = "none" /\ stop'.handler[u].my_stop_count = 0
  BY <1>1 DEF WorldInv, ShapeInv, StopFields, Outside, Handler, HandlerFields
<1>8. ShapeInv'
  BY <1>1, <1>4, <1>5, <1>6, <1>7 DEF WorldInv, ShapeInv
<1>9. \A u \in Threads : (Known(u)' <=> u = t) /\ (Alive(u)' <=> u = t)
  BY <1>6 DEF Known, Alive, Plain
<1>10. TableInv'
  <2>1. ASSUME NEW j \in Index'
        PROVE  (/\ Owner(j) \in Threads
                /\ table[j].id = th[Owner(j)].id
                /\ Known(Owner(j)) \/ th[Owner(j)].pc \in Past
                /\ FINISHED \notin table[j].flags <=> Known(Owner(j))
                /\ table[j].thread_blocked <=> th[Owner(j)].pc = "blocked")'
    <3>1. j = 1 /\ Known(t)'
      BY <1>5, <1>9
    <3> QED
      BY <1>4, <1>5, <1>6, <3>1 DEF Known
  <2> QED
    BY <1>5, <1>9, <2>1 DEF TableInv
<1>11. IdInv'
  BY <1>5, <1>6, <1>9 DEF IdInv
<1>12. JoinInv'
  BY <1>6 DEF JoinInv
<1>13. LockInv'
  BY <1>1, <1>2, <1>6 DEF WorldInv, LockInv, Locking
<1>14. SignalInv'
  <2>1. 0 \in 0..stop.count
    BY DEF WorldInv, AnswerInv
  <2> QED
    BY <1>1, <1>2, <1>4, <1>5, <1>7, <2>1 DEF WorldInv, SignalInv, Stopped
<1>15. AnswerInv'
  BY <1>1, <1>2, <1>7 DEF WorldInv, AnswerInv
<1> QED
  BY <1>1, <1>8, <1>10, <1>11, <1>12, <1>13, <1>14, <1>15 DEF WorldInv

-----------------------------------------------------------------------------
\* The invariant holds, and says that the world is stopped.

\* The program starts with one entry for each thread registered.
LEMMA WorldBegins ==
  ASSUME Init
  PROVE  WorldInv
<1>1. /\ menu \in Menus /\ menu.registered \in Seq(Threads) /\ IsInjective(menu.registered)
      /\ "Main" \in ToSet(menu.registered) /\ menu.at \in {"none", "outside"}
  BY Programs DEF Init
<1> DEFINE reg == menu.registered
           At0(t) == IF t \in ToSet(reg) THEN "run" ELSE IF t \in menu.others THEN menu.at ELSE "gone"
<1>2. /\ DOMAIN th = Threads
      /\ \A t \in Threads : /\ DOMAIN th[t] = ThreadFields
                            /\ th[t].pc = At0(t) /\ th[t].id = t /\ th[t].unregisters = FALSE
  BY DEF Init, Thread, ThreadFields
<1>3. /\ Index = DOMAIN reg /\ DOMAIN reg = 1..Len(reg) /\ Len(reg) \in Nat
      /\ \A k \in DOMAIN reg :
           /\ reg[k] \in Threads /\ reg[k] \in ToSet(reg)
           /\ Owner(k) = reg[k] /\ table[k].id = reg[k] /\ DOMAIN table[k] = EntryFields
           /\ table[k].thread_blocked = FALSE /\ table[k].last_stop_count = 0
           /\ FINISHED \notin table[k].flags
  <2>1. DOMAIN reg = 1..Len(reg) /\ Len(reg) \in Nat /\ \A k \in DOMAIN reg : reg[k] \in Threads
    BY <1>1
  <2>2. \A k \in DOMAIN reg : reg[k] \in ToSet(reg)
    BY DEF ToSet
  <2>3. table = [k \in DOMAIN reg |->
                   [Entry(reg[k], reg[k]) EXCEPT !.flags = IF reg[k] = "Main" THEN {DETACHED, MAIN_THREAD} ELSE {}]]
    BY DEF Init, InitTable
  <2>4. ASSUME NEW t
        PROVE  LET e == [Entry(t, t) EXCEPT !.flags = IF t = "Main" THEN {DETACHED, MAIN_THREAD} ELSE {}]
               IN  /\ e.of = t /\ e.id = t /\ DOMAIN e = EntryFields
                   /\ e.thread_blocked = FALSE /\ e.last_stop_count = 0 /\ FINISHED \notin e.flags
    BY DEF Entry, EntryFields, FINISHED, DETACHED, MAIN_THREAD
  <2> QED
    BY <2>1, <2>2, <2>3, <2>4 DEF Index, Owner
<1>4. \E E : table \in Seq(E)
  <2>1. table = [k \in 1..Len(reg) |-> table[k]]
    BY <1>3 DEF Init, InitTable
  <2> DEFINE E == {table[k] : k \in 1..Len(reg)}
  <2>2. [k \in 1..Len(reg) |-> table[k]] \in Seq(E)
    BY <1>3
  <2> QED
    BY <2>1, <2>2
<1>5. \A j, k \in DOMAIN reg : reg[j] = reg[k] => j = k
  BY <1>1 DEF IsInjective
<1>6. \A t \in Threads : th[t].pc \in {"run", "none", "outside", "gone"} /\ (Known(t) <=> t \in ToSet(reg))
                         /\ (th[t].pc = "run" <=> t \in ToSet(reg))
  BY <1>1, <1>2 DEF Known, Plain
<1>7. /\ stop = [count |-> 0, world_is_stopped |-> FALSE, acks |-> 0,
                 pending |-> [t \in Threads |-> {}], handler |-> [t \in Threads |-> Outside]]
      /\ gc = [by |-> NULL, phase |-> "none", next |-> 1, n_live |-> 0, then |-> NULL, builders |-> 0,
               asleep |-> {}, in_creation |-> FALSE, aborted |-> FALSE]
  BY DEF Init, StopInit
<1>8. ShapeInv
  BY <1>1, <1>2, <1>3, <1>4, <1>7
     DEF ShapeInv, StopFields, Outside, Handler, HandlerFields, CollectorFields
<1> HIDE DEF At0
<1>9. TableInv
  <2>1. ASSUME NEW k \in Index
        PROVE  /\ Owner(k) \in Threads
               /\ table[k].id = th[Owner(k)].id
               /\ Known(Owner(k)) \/ th[Owner(k)].pc \in Past
               /\ FINISHED \notin table[k].flags <=> Known(Owner(k))
               /\ table[k].thread_blocked <=> th[Owner(k)].pc = "blocked"
    BY <1>2, <1>3, <1>6
  <2>2. \A j, k \in Index : j < k /\ table[j].id = table[k].id => ~Alive(Owner(k))
    BY <1>3, <1>5
  <2>3. ASSUME NEW t \in Threads, Known(t) PROVE \E k \in Index : Owner(k) = t
    BY <1>3, <1>6, <2>3 DEF ToSet
  <2> QED
    BY <1>2, <1>3, <1>5, <2>1, <2>2, <2>3 DEF TableInv
<1>10. IdInv
  BY <1>2, <1>3, <1>6 DEF IdInv
<1>11. JoinInv /\ LockInv /\ ~gc.aborted
  BY <1>6, <1>7 DEF JoinInv, LockInv, Locking, Phases
<1>12. SignalInv /\ AnswerInv
  BY <1>3, <1>7 DEF SignalInv, AnswerInv, Stopped, Outside, Handler
<1> QED
  BY <1>8, <1>9, <1>10, <1>11, <1>12 DEF WorldInv

\* Every step preserves the invariant.
LEMMA WorldStep ==
  ASSUME WorldInv, [Next]_vars
  PROVE  WorldInv'
<1>1. CASE UNCHANGED vars
  <2>1. UNCHANGED <<th, table, stop, gc, lock, menu>>
    BY <1>1 DEF vars
  <2> QED
    BY <2>1, SameGc, Stutter DEF WorldInv
<1>2. CASE Collecting /\ UNCHANGED menu
  BY <1>2, Collects
<1>3. ASSUME NEW i \in Markers, Marking(i), UNCHANGED menu PROVE WorldInv'
  <2>1. UNCHANGED <<th, table, stop, gc, lock>>
    BY <1>3 DEF Marking
  <2> QED
    BY <1>3, <2>1, SameGc, Stutter DEF WorldInv
<1>4. ASSUME NEW t \in Threads, Signal(t) \/ UserSignal(t), UNCHANGED menu PROVE WorldInv'
  BY <1>4, Signals
<1>5. ASSUME NEW t \in Threads, Living(t), UNCHANGED menu PROVE WorldInv'
  <2>1. CASE Fork(t)
    BY <1>5, <2>1, ForksParent, ForksChild DEF Fork
  <2> QED
    BY <1>5, <2>1, Creates, Appears, Prepares, Registers, Returns, Unregisters, Ends, JoinsThread, Detaches, Blocks
       DEF Living
<1>6. ASSUME NEW t \in Threads, Program(t), UNCHANGED menu PROVE WorldInv'
  BY <1>5, <1>6, Allocates DEF Program
<1> QED
  BY <1>1, <1>2, <1>3, <1>4, <1>6 DEF Next

\* A thread that may touch objects is known and not blocked, so it has answered.
LEMMA StoppedNow ==
  ASSUME WorldInv
  PROVE  WorldIsStopped
<1>1. SUFFICES ASSUME gc.phase \in {"mark", "start"}, NEW t \in Threads \ {gc.by}, Touching(t)
               PROVE  stop.handler[t].pc \notin {"none", "entered"}
  BY DEF WorldIsStopped, WorldInv
<1>2. Known(t) /\ Alive(t) /\ th[t].pc # "blocked"
  BY <1>1, KnownIsAlive DEF Touching, Known, Plain
<1>3. PICK k \in Index : Owner(k) = t
  BY <1>2 DEF WorldInv, TableInv
<1>4. table[k].id # th[gc.by].id
  <2>1. gc.by \in Threads /\ Alive(gc.by)
    BY <1>1 DEF WorldInv, LockInv, Alive
  <2> QED
    BY <1>2, <1>3, <2>1 DEF WorldInv, TableInv
<1>5. k \in Others
  BY <1>2, <1>3, <1>4 DEF WorldInv, TableInv, Others, Unfinished, Index
<1> QED
  BY <1>1, <1>3, <1>5 DEF WorldInv, AnswerInv, Answered

\* While the collector marks, every thread that could touch an object is held in
\* its signal handler and has said so, and the collector always finds its own
\* entry: for any number of threads and any programs that start, end, are
\* joined, detached, block and fork (GC_stop_world, GC_suspend_handler_inner),
\* where a thread that registers itself or forks begins with an id for which
\* the table has no entry (FreeIds).
THEOREM WorldStops == Spec => []WorldIsStopped
<1>1. Init => WorldInv
  BY WorldBegins
<1>2. WorldInv /\ [Next]_vars => WorldInv'
  BY WorldStep
<1>3. WorldInv => WorldIsStopped
  BY StoppedNow
<1> QED
  BY <1>1, <1>2, <1>3, PTL DEF Spec

-----------------------------------------------------------------------------
\* The objects that threads, entries of the table and the heap have.

\* The fields of heap.
HeapFields == {"free", "reclaimable", "marked", "points"}
\* An object, or none.
MaybeObject == Objects \cup {NULL}
\* The objects that point to nothing: those that were cleared and not filled yet.
Blank == {o \in Objects : heap.points[o] = {}}

\* What a thread may hold, its record being r.
Carries(r) ==
  /\ r.held \in SUBSET Objects /\ r.saved \in SUBSET Objects /\ r.build \in SUBSET Objects
  /\ r.obj \in MaybeObject /\ r.result \in MaybeObject
  /\ r.pc = "store_list" => r.build \in SUBSET Blank
  /\ r.pc = "take" => r.obj \in Objects

\* What an entry of the table may hold, being e.
Keeps(e) ==
  /\ e.stack \in SUBSET Objects /\ e.status \in MaybeObject
  /\ DOMAIN e.tlfs = {"counting", "list"} /\ e.tlfs.list \in SUBSET Blank

\* What is on the free lists, and what waits to be swept.
HeapInv ==
  /\ DOMAIN heap = HeapFields
  /\ heap.free \in SUBSET Blank /\ heap.reclaimable \in SUBSET menu.blocks
  /\ heap.marked \in SUBSET Objects /\ heap.points \in [Objects -> SUBSET Objects]

\* Whatever is held is an object; whatever is on a free list is clear.
ObjectInv ==
  /\ \A t \in Threads : Carries(th[t])
  /\ \A k \in DOMAIN table : Keeps(table[k])
  /\ HeapInv

-----------------------------------------------------------------------------
\* The markers.

\* Where a marker is that GC_active_count counts.
Busy == {"look", "swap", "look_at_top", "idle", "steal", "clear", "mark", "push", "return_all", "return_half"}
\* Where a marker is that GC_helper_count counts.
Helping == Busy \cup {"join", "asleep"}
\* Where a marker may have entries of its own.
Owning == {"steal", "clear", "mark", "push", "return_all", "return_half"}
\* Where a marker has a place in the shared stack from which it looks.
Placed == Helping \ {"join"}
\* The markers that are at one of the places S.
MarkersIn(S) == {i \in Markers : pm.m[i].pc \in S}

\* The fields of pm.
SharedFields ==
  {"parallel", "mark_no", "help_wanted", "helper_count", "active_count", "stack", "first_nonempty",
   "size", "invalid", "markers_m1", "asleep", "m"}
\* The fields of the record of a marker.
MarkerFields == {"pc", "mark_no", "first", "top", "global", "got", "local", "entry", "found"}

\* What the records are made of, and when a marker has entries.
GoodMarker(me) ==
  /\ DOMAIN me = MarkerFields
  /\ me.local \in Seq(Objects) /\ me.entry \in MaybeObject /\ me.found \in SUBSET Objects
  /\ me.first \in Nat \ {0} /\ me.top \in Nat
  /\ me.pc \notin Owning => me.local = <<>>
  /\ me.pc \in {"return_all", "return_half"} => me.local # <<>>
  /\ me.pc = "clear" <=> me.entry # TAKEN
  /\ me.pc # "push" => me.found = {}

\* What pm is made of.
MarkerShape ==
  /\ DOMAIN pm = SharedFields /\ DOMAIN pm.m = Markers
  /\ pm.stack \in Seq(MaybeObject) /\ pm.first_nonempty \in Nat \ {0}
  /\ \A i \in Markers : GoodMarker(pm.m[i])

\* The collector's own marking: from GC_do_parallel_mark to the end of it.
Together == pm.m[COLLECTOR].pc \in Helping \cup {"done"}

\* Helpers help only a collector that marks, and are counted.
CountInv ==
  /\ gc.phase # "mark" => pm.m[COLLECTOR].pc = "off"
  /\ gc.phase = "mark" => pm.m[COLLECTOR].pc \in {"begin", "marked", "done"} \cup Helping
  /\ \A i \in Helpers : pm.m[i].pc \in {"off", "help", "done"} \cup Helping
  /\ pm.help_wanted => Together
  /\ Together => pm.helper_count = Cardinality(MarkersIn(Helping)) /\ pm.active_count = Cardinality(MarkersIn(Busy))
  /\ ~Together => \A i \in Helpers : pm.m[i].pc \notin Helping

\* All entries below n are taken.
Below(n) == n \in 1..(Len(pm.stack) + 1) /\ \A k \in 1..(n - 1) : pm.stack[k] = TAKEN

\* Nobody overlooks an entry that is not taken.
Fits(me) ==
  /\ me.pc \in Placed => Below(me.first)
  /\ me.pc \in {"steal", "clear"} => me.top <= Len(pm.stack)
  /\ me.pc = "clear" => me.first <= me.top /\ pm.stack[me.first] \in {TAKEN, me.entry}

\* The markers look for entries where there may be some.
PlaceInv == Together => Below(pm.first_nonempty) /\ \A i \in Markers : Fits(pm.m[i])

\* The entries still to scan, and what was found and is not marked yet.
Pending ==
  (ToSet(pm.stack) \cup UNION {ToSet(pm.m[i].local) \cup {pm.m[i].entry} : i \in Markers}) \ {TAKEN}
\* What the markers have found and not marked yet.
AllFound == UNION {pm.m[i].found : i \in Markers}

\* An object that is marked and not pending has all it points to marked, or about
\* to be.
ScanInv ==
  gc.phase = "mark" =>
    /\ Roots \subseteq heap.marked
    /\ ~pm.invalid => \A o \in heap.marked \ Pending : heap.points[o] \subseteq heap.marked \cup AllFound
    /\ pm.m[COLLECTOR].pc \in {"done", "marked"} => Pending = {} /\ AllFound = {}

-----------------------------------------------------------------------------
\* What the menus say of the objects.
LEMMA ObjectFacts ==
  ASSUME menu \in Menus
  PROVE  /\ Objects \in SUBSET Nat /\ IsFiniteSet(Objects) /\ NULL \notin Objects
         /\ Cardinality(Objects) \in Nat
         /\ \A b \in menu.blocks : b \in SUBSET Objects /\ b \in SUBSET Nat /\ b # {}
         /\ menu.points \in [Objects -> SUBSET Objects] /\ menu.held \in SUBSET Objects
         /\ menu.helpers \in SUBSET Helpers
<1>1. /\ Objects \in SUBSET Nat /\ IsFiniteSet(Objects) /\ NULL \notin Objects
      /\ menu.points \in [Objects -> SUBSET Objects] /\ menu.held \in SUBSET Objects
      /\ menu.helpers \in SUBSET Helpers
  BY Heaps DEF Objects
<1>2. \A b \in menu.blocks : b \in SUBSET Objects
  BY DEF Objects
<1>3. {} \notin menu.blocks
  BY Heaps
<1> QED
  BY <1>1, <1>2, <1>3, FS_CardinalityType

\* The sets that a set leads to in so many steps.
LEMMA ReachedSteps ==
  ASSUME menu \in Menus, NEW points, NEW from
  PROVE  \E g : /\ g[0] = from /\ g[Cardinality(Objects)] = Reached(points, from)
                /\ \A m \in Nat : m + 1 <= Cardinality(Objects) => g[m + 1] = g[m] \cup UNION {points[o] : o \in g[m]}
<1> DEFINE A(g, n) == IF n = 0 THEN from ELSE g[n - 1] \cup UNION {points[o] : o \in g[n - 1]}
           N == Cardinality(Objects)
           S == {m \in Nat : \E g : g = [n \in 0..m |-> A(g, n)]}
<1>1. N \in Nat
  BY ObjectFacts
<1>2. Reached(points, from) = (CHOOSE g : g = [n \in 0..N |-> A(g, n)])[N]
  BY DEF Reached
<1> HIDE DEF N
<1>3. \A n \in Nat : \A g, h : (\A k \in 0..(n-1) : g[k] = h[k]) => A(g, n) = A(h, n)
  <2>1. SUFFICES ASSUME NEW n \in Nat, NEW g, NEW h, \A k \in 0..(n-1) : g[k] = h[k]
                 PROVE  A(g, n) = A(h, n)
    OBVIOUS
  <2>2. n # 0 => n-1 \in 0..(n-1)
    OBVIOUS
  <2>3. n # 0 => g[n-1] = h[n-1]
    BY <2>1, <2>2
  <2> QED
    BY <2>3
<1>4. \A n \in Nat : \A g : (n = 0 => A(g, n) = from)
                     /\ (n # 0 => A(g, n) = g[n-1] \cup UNION {points[o] : o \in g[n-1]})
  OBVIOUS
<1> HIDE DEF A
<1>5. 0 \in S
  <2> DEFINE g == [n \in 0..0 |-> A(<<>>, n)]
  <2>1. A(g, 0) = A(<<>>, 0)
    BY <1>3
  <2>2. g = [n \in 0..0 |-> A(g, n)]
    BY <2>1
  <2> QED
    BY <2>2
<1>6. ASSUME NEW m \in S PROVE m+1 \in S
  <2>1. PICK g : g = [n \in 0..m |-> A(g, n)]
    OBVIOUS
  <2> DEFINE h == [n \in 0..(m+1) |-> A(g, n)]
  <2>2. \A k \in 0..m : h[k] = g[k]
    BY <2>1
  <2> HIDE DEF h
  <2>3. \A n \in 0..(m+1) : A(g, n) = A(h, n)
    BY <1>3, <2>2
  <2>4. h = [n \in 0..(m+1) |-> A(h, n)]
    BY <2>3 DEF h
  <2> QED
    BY <2>4
<1>7. N \in S
  BY <1>1, <1>5, <1>6, SetInduction
<1>8. PICK g : g = [n \in 0..N |-> A(g, n)] /\ Reached(points, from) = g[N]
  BY <1>2, <1>7
<1>9. g[0] = from
  BY <1>1, <1>4, <1>8
<1>10. ASSUME NEW m \in Nat, m + 1 <= N PROVE g[m + 1] = g[m] \cup UNION {points[o] : o \in g[m]}
  <2>1. m+1 \in 0..N /\ m+1 # 0 /\ (m+1)-1 = m
    BY <1>1, <1>10
  <2>2. g[m+1] = A(g, m+1)
    BY <1>8, <2>1
  <2>3. A(g, m+1) = g[(m+1)-1] \cup UNION {points[o] : o \in g[(m+1)-1]}
    BY <1>4, <2>1
  <2> QED
    BY <2>1, <2>2, <2>3
<1> QED
  BY <1>8, <1>9, <1>10 DEF N

\* What a set leads to is in every set around it that leads nowhere else.
LEMMA ReachedWithin ==
  ASSUME menu \in Menus, NEW points, NEW from, NEW C, from \subseteq C, \A o \in C : points[o] \subseteq C
  PROVE  from \subseteq Reached(points, from) /\ Reached(points, from) \subseteq C
<1>1. PICK N \in Nat : N = Cardinality(Objects)
  BY ObjectFacts
<1>2. PICK g : /\ g[0] = from /\ g[N] = Reached(points, from)
               /\ \A m \in Nat : m + 1 <= N => g[m + 1] = g[m] \cup UNION {points[o] : o \in g[m]}
  BY <1>1, ReachedSteps
<1> DEFINE T == {m \in Nat : m <= N => from \subseteq g[m] /\ g[m] \subseteq C}
<1>3. 0 \in T
  BY <1>2
<1>4. ASSUME NEW m \in T PROVE m+1 \in T
  <2>1. CASE m+1 <= N
    <3>1. m <= N
      BY <1>1, <2>1
    <3>2. g[m+1] = g[m] \cup UNION {points[o] : o \in g[m]}
      BY <1>2, <2>1
    <3> QED
      BY <3>1, <3>2
  <2> QED
    BY <2>1
<1>5. N \in T
  <2>1. T \in SUBSET Nat
    OBVIOUS
  <2> HIDE DEF T
  <2> QED
    BY <1>1, <1>3, <1>4, <2>1, SetInduction
<1> QED
  BY <1>1, <1>2, <1>5

\* What objects lead to are objects, and leads nowhere else: as many steps as
\* there are objects are enough.
LEMMA ReachedClosed ==
  ASSUME menu \in Menus, NEW points \in [Objects -> SUBSET Objects], NEW from \in SUBSET Objects
  PROVE  /\ Reached(points, from) \in SUBSET Objects
         /\ \A o \in Reached(points, from) : points[o] \subseteq Reached(points, from)
<1>1. PICK N \in Nat : N = Cardinality(Objects)
  BY ObjectFacts
<1>2. PICK g : /\ g[0] = from /\ g[N] = Reached(points, from)
               /\ \A m \in Nat : m + 1 <= N => g[m + 1] = g[m] \cup UNION {points[o] : o \in g[m]}
  BY <1>1, ReachedSteps
<1>3. IsFiniteSet(Objects)
  BY ObjectFacts
<1> DEFINE Closed(s) == \A o \in s : points[o] \subseteq s
           T == {m \in Nat : m <= N => g[m] \subseteq Objects /\ (Closed(g[m]) \/ Cardinality(g[m]) >= m + 1)}
<1>4. 0 \in T
  <2>1. CASE from = {}
    BY <1>2, <2>1
  <2>2. CASE from # {}
    <3>1. IsFiniteSet(from) /\ Cardinality(from) \in Nat /\ Cardinality(from) # 0
      BY <1>3, <2>2, FS_Subset, FS_CardinalityType, FS_EmptySet
    <3> QED
      BY <1>2, <3>1
  <2> QED
    BY <2>1, <2>2
<1>5. ASSUME NEW m \in T PROVE m+1 \in T
  <2>1. CASE m+1 <= N
    <3>1. m <= N
      BY <1>1, <2>1
    <3>2. g[m+1] = g[m] \cup UNION {points[o] : o \in g[m]}
      BY <1>2, <2>1
    <3>3. g[m] \subseteq Objects /\ g[m+1] \subseteq Objects
      BY <3>1, <3>2
    <3>4. CASE Closed(g[m])
      <4>1. g[m+1] = g[m]
        BY <3>2, <3>4
      <4> QED
        BY <3>3, <3>4, <4>1
    <3>5. CASE ~Closed(g[m])
      <4>1. PICK x \in g[m+1] : x \notin g[m]
        BY <3>2, <3>5
      <4>2. IsFiniteSet(g[m]) /\ IsFiniteSet(g[m+1]) /\ Cardinality(g[m]) \in Nat /\ Cardinality(g[m+1]) \in Nat
        BY <1>3, <3>3, FS_Subset, FS_CardinalityType
      <4>3. Cardinality(g[m]) < Cardinality(g[m+1])
        <5>1. g[m] \subseteq g[m+1] /\ g[m] # g[m+1]
          BY <3>2, <4>1
        <5> QED
          BY <4>2, <5>1, FS_Subset
      <4>4. Cardinality(g[m]) >= m + 1
        BY <3>1, <3>5
      <4> QED
        BY <3>3, <4>2, <4>3, <4>4
    <3> QED
      BY <3>4, <3>5
  <2> QED
    BY <2>1
<1>6. N \in T
  <2>1. T \in SUBSET Nat
    OBVIOUS
  <2> HIDE DEF T
  <2> QED
    BY <1>1, <1>4, <1>5, <2>1, SetInduction
<1>7. g[N] \subseteq Objects /\ (Closed(g[N]) \/ Cardinality(g[N]) >= N + 1)
  BY <1>1, <1>6
<1>8. Cardinality(g[N]) <= N
  BY <1>1, <1>3, <1>7, FS_Subset
<1>9. Cardinality(g[N]) \in Nat
  BY <1>3, <1>7, FS_Subset, FS_CardinalityType
<1> QED
  BY <1>1, <1>2, <1>7, <1>8, <1>9

\* A finite set, in some order.
LEMMA AsSequence ==
  ASSUME NEW S, IsFiniteSet(S)
  PROVE  SetToSeq(S) \in Seq(S) /\ ToSet(SetToSeq(S)) = S
<1> DEFINE n == Cardinality(S)
           Orders == {f \in [1..n -> S] : IsInjective(f)}
<1>1. n \in Nat /\ \E f \in Bijection(1..n, S) : TRUE
  BY FS_CardinalityType, FS_NatBijection, FS_CountingElements DEF ExistsBijection
<1>2. PICK b \in Bijection(1..n, S) : TRUE
  BY <1>1
<1>3. b \in [1..n -> S] /\ \A x, y \in 1..n : b[x] = b[y] => x = y
  BY <1>2 DEF Bijection, Injection, IsInjective
<1>4. b \in [1..n -> S] /\ IsInjective(b)
  BY <1>3 DEF IsInjective
<1>5. SetToSeq(S) \in [1..n -> S] /\ IsInjective(SetToSeq(S))
  BY <1>4 DEF SetToSeq
<1> DEFINE s == SetToSeq(S)
<1> HIDE DEF s
<1>6. s \in [1..n -> S] /\ \A x, y \in 1..n : s[x] = s[y] => x = y
  BY <1>5 DEF IsInjective, s
<1>7. \A y \in S : \E x \in 1..n : s[x] = y
  <2>1. s \in Injection(1..n, S)
    BY <1>6 DEF Injection, IsInjective
  <2>2. IsFiniteSet(1..n) /\ Cardinality(1..n) = n
    BY <1>1, FS_Interval
  <2>3. s \in Surjection(1..n, S)
    BY <2>1, <2>2, FS_Injection
  <2> QED
    BY <2>3 DEF Surjection
<1>8. s \in Seq(S) /\ DOMAIN s = 1..n
  BY <1>1, <1>6
<1>9. ToSet(s) = S
  BY <1>6, <1>7, <1>8 DEF ToSet
<1> QED
  BY <1>8, <1>9 DEF s

-----------------------------------------------------------------------------
\* What a step does to the objects that the threads, the entries and the heap have.

\* Every thread is as it was, or carries objects only.
ThreadsFrom == \A u \in Threads : th'[u] = th[u] \/ Carries(th[u])'
\* Every entry is as one was, or keeps objects only.
TableFrom == \A k \in DOMAIN table' : Keeps(table[k])' \/ \E j \in DOMAIN table : table'[k] = table[j]
\* The heap is well formed after the step, and what was clear still is.
HeapFrom == HeapInv' /\ Blank \subseteq Blank'

\* The parts together.
LEMMA ObjectStep ==
  ASSUME ObjectInv, UNCHANGED menu, ThreadsFrom, TableFrom, HeapFrom
  PROVE  ObjectInv'
<1>1. Objects' = Objects /\ MaybeObject' = MaybeObject
  BY DEF Objects, MaybeObject
<1>2. \A r : Carries(r) => Carries(r)'
  BY <1>1 DEF Carries, HeapFrom
<1>3. \A e : Keeps(e) => Keeps(e)'
  BY <1>1 DEF Keeps, HeapFrom
<1>4. ASSUME NEW u \in Threads PROVE Carries(th[u])'
  <2>1. Carries(th[u])
    BY DEF ObjectInv
  <2>2. CASE th'[u] = th[u]
    <3>1. PICK r : r = th[u]
      OBVIOUS
    <3>2. Carries(r)'
      BY <1>2, <2>1, <3>1
    <3> QED
      BY <2>2, <3>1, <3>2 DEF Carries
  <2> QED
    BY <2>2 DEF ThreadsFrom
<1>5. ASSUME NEW k \in DOMAIN table' PROVE Keeps(table[k])'
  <2>1. CASE \E j \in DOMAIN table : table'[k] = table[j]
    <3>1. PICK j \in DOMAIN table : table'[k] = table[j]
      BY <2>1
    <3>2. PICK e : e = table[j]
      OBVIOUS
    <3>3. Keeps(e)'
      BY <1>3, <3>1, <3>2 DEF ObjectInv
    <3> QED
      BY <3>1, <3>2, <3>3 DEF Keeps
  <2> QED
    BY <2>1 DEF TableFrom
<1> QED
  BY <1>4, <1>5 DEF ObjectInv, HeapFrom

\* The heap does not change.
LEMMA SameHeap ==
  ASSUME ObjectInv, UNCHANGED <<heap, menu>>
  PROVE  HeapFrom /\ Blank' = Blank /\ Objects' = Objects /\ MaybeObject' = MaybeObject
BY DEF ObjectInv, HeapFrom, HeapInv, Blank, Objects, MaybeObject

\* Only the marks change.
LEMMA NewMarks ==
  ASSUME ObjectInv, UNCHANGED menu, NEW marked \in SUBSET Objects, heap' = [heap EXCEPT !.marked = marked]
  PROVE  HeapFrom /\ Blank' = Blank
<1>1. /\ DOMAIN heap' = HeapFields /\ heap'.free = heap.free /\ heap'.reclaimable = heap.reclaimable
      /\ heap'.marked = marked /\ heap'.points = heap.points
  BY DEF ObjectInv, HeapInv, HeapFields
<1>2. Objects' = Objects /\ Blank' = Blank
  BY <1>1 DEF Objects, Blank
<1> QED
  BY <1>1, <1>2 DEF ObjectInv, HeapFrom, HeapInv

\* No thread changes.
LEMMA SameThreads ==
  ASSUME UNCHANGED th
  PROVE  ThreadsFrom
BY DEF ThreadsFrom

\* No entry changes.
LEMMA SameEntries ==
  ASSUME UNCHANGED table
  PROVE  TableFrom
BY DEF TableFrom

\* One thread changes.
LEMMA OneThread ==
  ASSUME ShapeInv, NEW t \in Threads, NEW r, Became(t, r), Carries(r)'
  PROVE  ThreadsFrom
<1>1. th'[t] = r /\ \A u \in Threads : u # t => th'[u] = th[u]
  BY DEF ShapeInv, Became
<1>2. Carries(th[t])'
  BY <1>1 DEF Carries
<1> QED
  BY <1>1, <1>2 DEF ThreadsFrom

\* One entry changes.
LEMMA OneEntry ==
  ASSUME ShapeInv, NEW k, NEW e, table' = [table EXCEPT ![k] = e], k \in DOMAIN table => Keeps(e)'
  PROVE  TableFrom
<1>1. DOMAIN table' = DOMAIN table /\ \A j \in DOMAIN table : table'[j] = IF j = k THEN e ELSE table[j]
  BY DEF ShapeInv
<1>2. ASSUME NEW j \in DOMAIN table' PROVE Keeps(table[j])' \/ \E i \in DOMAIN table : table'[j] = table[i]
  <2>1. CASE j = k
    BY <1>1, <2>1 DEF Keeps
  <2> QED
    BY <1>1, <2>1
<1> QED
  BY <1>2 DEF TableFrom

\* An entry is removed.
LEMMA EntryGoes ==
  ASSUME ShapeInv, NEW k \in DOMAIN table \cup {0}, table' = RemoveAt(table, k)
  PROVE  TableFrom
<1>1. PICK E : table \in Seq(E)
  BY DEF ShapeInv
<1>2. CASE k = 0
  BY <1>1, <1>2, Removed DEF TableFrom
<1>3. CASE k # 0
  <2>1. \A j \in DOMAIN table' : Moved(k, j) \in DOMAIN table /\ table'[j] = table[Moved(k, j)]
    BY <1>1, <1>3, Removed
  <2> QED
    BY <2>1 DEF TableFrom
<1> QED
  BY <1>2, <1>3

\* A thread that goes elsewhere carries what it did.
LEMMA CarriesOn ==
  ASSUME ShapeInv, ObjectInv, UNCHANGED menu, NEW t \in Threads, NEW pc, pc \notin {"store_list", "take"},
         NEW r, r = With(t, pc)
  PROVE  Carries(r)'
<1>1. /\ r.held = th[t].held /\ r.saved = th[t].saved /\ r.build = th[t].build
      /\ r.obj = th[t].obj /\ r.result = th[t].result /\ r.pc = pc
  BY DEF With, ShapeInv, ThreadFields
<1>2. Objects' = Objects /\ MaybeObject' = MaybeObject
  BY DEF Objects, MaybeObject
<1> QED
  BY <1>1, <1>2 DEF ObjectInv, Carries

\* A thread goes elsewhere.
LEMMA OneGoes ==
  ASSUME ShapeInv, ObjectInv, UNCHANGED menu, NEW t \in Threads, NEW pc, pc \notin {"store_list", "take"},
         Became(t, With(t, pc))
  PROVE  ThreadsFrom
<1>1. PICK r : r = With(t, pc)
  OBVIOUS
<1> QED
  BY <1>1, CarriesOn, OneThread

-----------------------------------------------------------------------------
\* Threads allocate.

\* The next block to sweep is one that waits.
LEMMA NextWaits ==
  ASSUME menu \in Menus, HeapInv, heap.reclaimable # {}
  PROVE  NextBlock \in heap.reclaimable /\ Swept(NextBlock) \in SUBSET Objects
<1>1. \A b \in heap.reclaimable : b \in SUBSET Nat /\ b # {} /\ b \in SUBSET Objects
  <2>1. heap.reclaimable \in SUBSET menu.blocks
    BY DEF HeapInv
  <2> QED
    BY <2>1, ObjectFacts
<1>2. PICK from : from = IF ToSweep # {} THEN ToSweep ELSE heap.reclaimable
  OBVIOUS
<1>3. from \in SUBSET heap.reclaimable /\ from # {}
  BY <1>2 DEF ToSweep
<1>4. \A b \in from : Min(b) \in Nat
  BY <1>1, <1>3, MinIn
<1>5. \E b \in from : \A c \in from : Min(b) <= Min(c)
  <2> DEFINE S == {Min(b) : b \in from}
  <2>1. S \in SUBSET Nat /\ S # {}
    BY <1>3, <1>4
  <2>2. PICK n \in S : \A m \in S : n <= m
    BY <2>1, HasLeast
  <2> QED
    BY <2>2
<1>6. NextBlock = CHOOSE b \in from : \A c \in from : Min(b) <= Min(c)
  BY <1>2 DEF NextBlock
<1>7. NextBlock \in heap.reclaimable
  BY <1>3, <1>5, <1>6
<1> QED
  BY <1>1, <1>7 DEF Swept

\* Objects are swept, and some of them wait to be given out.
LEMMA Sweeps ==
  ASSUME ObjectInv, UNCHANGED menu, NEW S \in SUBSET Objects,
         DOMAIN heap' = HeapFields, heap'.marked = heap.marked, heap'.points = Cleared(S),
         heap'.free \in SUBSET (Blank \cup S), heap'.reclaimable \in SUBSET menu.blocks
  PROVE  HeapFrom /\ Blank' = Blank \cup S /\ S \in SUBSET Blank' /\ Objects' = Objects
<1>1. Objects' = Objects
  BY DEF Objects
<1>2. heap'.points \in [Objects -> SUBSET Objects] /\ \A o \in Objects : heap'.points[o] = IF o \in S THEN {} ELSE heap.points[o]
  BY DEF Cleared, ObjectInv, HeapInv
<1>3. Blank' = Blank \cup S
  BY <1>1, <1>2 DEF Blank
<1> QED
  BY <1>1, <1>2, <1>3 DEF ObjectInv, HeapInv, HeapFrom

\* Nothing is swept.
LEMMA SweepsNothing ==
  ASSUME HeapInv
  PROVE  Cleared({}) = heap.points
BY DEF HeapInv, Cleared

\* GC_allocobj: what it finds may be given out.
LEMMA TakesObject ==
  ASSUME menu \in Menus, ObjectInv, UNCHANGED menu, GC_allocobj # {}, TakeObject
  PROVE  HeapFrom /\ Min(GC_allocobj) \in Blank'
<1>1. HeapInv
  BY DEF ObjectInv
<1>2. PICK S \in SUBSET Objects : S = IF Refills THEN Swept(NextBlock) ELSE {}
  BY <1>1, NextWaits DEF Refills
<1>3. GC_allocobj \in SUBSET (Blank \cup S) /\ GC_allocobj \in SUBSET Objects
  BY <1>1, <1>2 DEF GC_allocobj, HeapInv, Blank
<1>4. Min(GC_allocobj) \in GC_allocobj
  BY <1>3, MinIn, ObjectFacts
<1>5. (IF Refills THEN Cleared(Swept(NextBlock)) ELSE heap.points) = Cleared(S)
  BY <1>1, <1>2, SweepsNothing
<1>6. /\ DOMAIN heap' = HeapFields /\ heap'.free = GC_allocobj \ {Min(GC_allocobj)}
      /\ heap'.reclaimable \in SUBSET heap.reclaimable
      /\ heap'.marked = heap.marked /\ heap'.points = Cleared(S)
  BY <1>1, <1>5 DEF TakeObject, HeapInv, HeapFields
<1>7. HeapFrom /\ Blank' = Blank \cup S
  BY <1>1, <1>3, <1>6, Sweeps DEF HeapInv
<1> QED
  BY <1>3, <1>4, <1>7

\* A list is stored in an entry.
LEMMA ListStored ==
  ASSUME ShapeInv, ObjectInv, UNCHANGED menu, HeapFrom, NEW k, NEW list,
         k \in DOMAIN table => list \in SUBSET Blank', table' = [table EXCEPT ![k].tlfs.list = list]
  PROVE  TableFrom
<1>1. PICK e : e = [table[k] EXCEPT !.tlfs.list = list]
  OBVIOUS
<1>2. table' = [table EXCEPT ![k] = e]
  BY <1>1
<1>3. ASSUME k \in DOMAIN table PROVE Keeps(e)'
  <2>1. Keeps(table[k]) /\ DOMAIN table[k] = EntryFields
    BY <1>3 DEF ObjectInv, ShapeInv, Index
  <2>2. /\ e.stack = table[k].stack /\ e.status = table[k].status
        /\ e.tlfs = [table[k].tlfs EXCEPT !.list = list]
    BY <1>1, <2>1 DEF EntryFields
  <2>3. DOMAIN e.tlfs = {"counting", "list"} /\ e.tlfs.list = list
    BY <2>1, <2>2 DEF Keeps
  <2>4. Objects' = Objects /\ MaybeObject' = MaybeObject
    BY DEF Objects, MaybeObject
  <2> QED
    BY <1>3, <2>1, <2>2, <2>3, <2>4 DEF Keeps
<1> QED
  BY <1>2, <1>3, OneEntry

\* The head of a list is read.
LEMMA ReadsHead ==
  ASSUME WorldInv, ObjectInv, NEW t \in Threads, th[t].pc \in Plain, ReadHead(t), UNCHANGED menu
  PROVE  ThreadsFrom
<1>1. Own(t) \in DOMAIN table
  BY OwnEntry DEF Known, WorldInv, Index
<1>2. CASE table[Own(t)].tlfs.list # {}
  <2> DEFINE list == table[Own(t)].tlfs.list
  <2>1. list \in SUBSET Objects
    BY <1>1 DEF ObjectInv, Keeps, Blank
  <2>2. Min(list) \in Objects
    BY <1>2, <2>1, MinIn, ObjectFacts DEF WorldInv, ShapeInv
  <2> HIDE DEF list
  <2>3. Became(t, [With(t, "take") EXCEPT !.obj = Min(list)])
    BY <1>2 DEF ReadHead, list
  <2>4. PICK r : r = [With(t, "take") EXCEPT !.obj = Min(list)]
    OBVIOUS
  <2>5. /\ r.held = th[t].held /\ r.saved = th[t].saved /\ r.build = th[t].build
        /\ r.obj = Min(list) /\ r.result = th[t].result /\ r.pc = "take"
    BY <2>4 DEF With, WorldInv, ShapeInv, ThreadFields
  <2>6. Objects' = Objects /\ MaybeObject' = MaybeObject
    BY DEF Objects, MaybeObject
  <2>7. Carries(r)'
    BY <2>2, <2>5, <2>6 DEF ObjectInv, Carries, MaybeObject
  <2> QED
    BY <2>3, <2>4, <2>7, OneThread DEF WorldInv
<1>3. CASE table[Own(t)].tlfs.list = {}
  BY <1>3, OneGoes DEF ReadHead, WorldInv
<1> QED
  BY <1>2, <1>3

\* A collection starts.
LEMMA StartsCollecting ==
  ASSUME WorldInv, ObjectInv, NEW t \in Threads, NEW then, NEW in_creation, StartGC(t, then, in_creation),
         UNCHANGED menu
  PROVE  ThreadsFrom
BY OneGoes DEF StartGC, WorldInv

\* GC_malloc keeps ObjectInv.
LEMMA MallocObjects ==
  ASSUME WorldInv, ObjectInv, NEW t \in Threads, GC_malloc(t), UNCHANGED menu
  PROVE  ObjectInv'
<1>1. HeapFrom /\ Blank' = Blank /\ Objects' = Objects /\ MaybeObject' = MaybeObject
  BY SameHeap DEF GC_malloc
<1>2. th[t].pc \in Plain
  BY DEF GC_malloc, In, Plain
<1>3. ThreadsFrom
  BY <1>2, OneGoes, ReadsHead DEF GC_malloc, WorldInv
<1>4. TableFrom
  <2>1. CASE table' = [table EXCEPT ![Own(t)].tlfs.counting = FALSE]
    <3>1. PICK k : k = Own(t)
      OBVIOUS
    <3>2. PICK e : e = [table[k] EXCEPT !.tlfs.counting = FALSE]
      OBVIOUS
    <3>3. table' = [table EXCEPT ![k] = e]
      BY <2>1, <3>1, <3>2
    <3>4. ASSUME k \in DOMAIN table PROVE Keeps(e)'
      <4>1. Keeps(table[k]) /\ DOMAIN table[k] = EntryFields
        BY <3>4 DEF ObjectInv, ShapeInv, Index, WorldInv
      <4>2. /\ e.stack = table[k].stack /\ e.status = table[k].status
            /\ e.tlfs = [table[k].tlfs EXCEPT !.counting = FALSE]
        BY <3>2, <4>1 DEF EntryFields
      <4>3. DOMAIN e.tlfs = {"counting", "list"} /\ e.tlfs.list = table[k].tlfs.list
        BY <4>1, <4>2 DEF Keeps
      <4> QED
        BY <1>1, <4>1, <4>2, <4>3 DEF Keeps
    <3> QED
      BY <3>3, <3>4, OneEntry DEF WorldInv
  <2> QED
    BY <2>1, SameEntries DEF GC_malloc
<1> QED
  BY <1>1, <1>3, <1>4, ObjectStep

\* Taking the head of a free list of the thread keeps it.
LEMMA TakeHeadObjects ==
  ASSUME WorldInv, ObjectInv, NEW t \in Threads, TakeHead(t), UNCHANGED menu
  PROVE  ObjectInv'
<1>1. HeapFrom /\ Blank' = Blank /\ Objects' = Objects /\ MaybeObject' = MaybeObject
  BY SameHeap DEF TakeHead
<1>2. PICK r : r = [With(t, "run") EXCEPT !.held = @ \cup {th[t].obj}, !.obj = NULL]
  OBVIOUS
<1>3. Became(t, r)
  BY <1>2 DEF TakeHead
<1>4. /\ r.held = th[t].held \cup {th[t].obj} /\ r.saved = th[t].saved /\ r.build = th[t].build
      /\ r.obj = NULL /\ r.result = th[t].result /\ r.pc = "run"
  BY <1>2 DEF With, WorldInv, ShapeInv, ThreadFields
<1>5. th[t].obj \in Objects
  BY DEF ObjectInv, Carries, TakeHead, In
<1>6. Carries(r)'
  BY <1>1, <1>4, <1>5 DEF ObjectInv, Carries, MaybeObject
<1>7. TableFrom
  <2>1. Own(t) \in DOMAIN table => table[Own(t)].tlfs.list \ {th[t].obj} \in SUBSET Blank'
    BY <1>1 DEF ObjectInv, Keeps
  <2> QED
    BY <1>1, <2>1, ListStored, ZenonT(30) DEF TakeHead, WorldInv
<1> QED
  BY <1>1, <1>3, <1>6, <1>7, OneThread, ObjectStep DEF WorldInv

\* So does an allocation under the lock.
LEMMA CoreMallocObjects ==
  ASSUME WorldInv, ObjectInv, NEW t \in Threads, GC_core_malloc(t), UNCHANGED menu
  PROVE  ObjectInv'
<1>1. TableFrom
  BY SameEntries DEF GC_core_malloc
<1>2. CASE StartGC(t, "core_again", FALSE) /\ UNCHANGED heap
  BY <1>1, <1>2, StartsCollecting, SameHeap, ObjectStep
<1>3. CASE Became(t, With(t, "run")) /\ UNCHANGED heap
  BY <1>1, <1>3, OneGoes, SameHeap, ObjectStep DEF WorldInv
<1>4. CASE GC_allocobj # {} /\ TakeObject /\ Became(t, [With(t, "run") EXCEPT !.held = @ \cup {Min(GC_allocobj)}])
  <2>1. HeapFrom /\ Min(GC_allocobj) \in Blank'
    BY <1>4, TakesObject DEF WorldInv, ShapeInv
  <2>2. Objects' = Objects /\ MaybeObject' = MaybeObject /\ Blank' \in SUBSET Objects
    BY DEF Objects, MaybeObject, Blank
  <2>3. PICK o : o = Min(GC_allocobj)
    OBVIOUS
  <2>4. PICK r : r = [With(t, "run") EXCEPT !.held = @ \cup {o}]
    OBVIOUS
  <2>5. /\ r.held = th[t].held \cup {o} /\ r.saved = th[t].saved /\ r.build = th[t].build
        /\ r.obj = th[t].obj /\ r.result = th[t].result /\ r.pc = "run"
    BY <2>4 DEF With, WorldInv, ShapeInv, ThreadFields
  <2>6. Carries(r)'
    BY <2>1, <2>2, <2>3, <2>5 DEF ObjectInv, Carries
  <2> QED
    BY <1>1, <1>4, <2>1, <2>3, <2>4, <2>6, OneThread, ObjectStep DEF WorldInv
<1> QED
  BY <1>2, <1>3, <1>4 DEF GC_core_malloc

\* So does filling a free list, in one go or with the lock released.
LEMMA MallocManyObjects ==
  ASSUME WorldInv, ObjectInv, NEW t \in Threads, GC_generic_malloc_many(t), UNCHANGED menu
  PROVE  ObjectInv'
<1>1. ASSUME NEW list, ManyInOneGo(t, list), HeapFrom, list \in SUBSET Blank' PROVE ObjectInv'
  <2>1. ThreadsFrom
    BY <1>1, OneGoes DEF ManyInOneGo, WorldInv
  <2>2. TableFrom
    BY <1>1, ListStored DEF ManyInOneGo, WorldInv
  <2> QED
    BY <1>1, <2>1, <2>2, ObjectStep
<1>2. menu \in Menus /\ HeapInv /\ Objects' = Objects
  BY DEF WorldInv, ShapeInv, ObjectInv, Objects
<1>3. CASE FillFromBlock(t)
  <2>1. PICK b : b = NextBlock
    OBVIOUS
  <2>2. b \in heap.reclaimable /\ Swept(b) \in SUBSET Objects /\ b \in SUBSET Objects
    <3>1. heap.reclaimable # {}
      BY <1>3 DEF FillFromBlock, ToSweep
    <3>2. b \in menu.blocks /\ b \in heap.reclaimable /\ Swept(b) \in SUBSET Objects
      BY <1>2, <2>1, <3>1, NextWaits DEF HeapInv
    <3> QED
      BY <1>2, <3>2, ObjectFacts
  <2>3. CASE pm.parallel
    <3>1. heap' = [heap EXCEPT !.reclaimable = @ \ {b}] /\ UNCHANGED table
      BY <1>3, <2>1, <2>3 DEF FillFromBlock
    <3>2. /\ DOMAIN heap' = HeapFields /\ heap'.free = heap.free /\ heap'.marked = heap.marked
          /\ heap'.reclaimable = heap.reclaimable \ {b} /\ heap'.points = heap.points
      BY <1>2, <3>1 DEF HeapInv, HeapFields
    <3>3. HeapFrom
      BY <1>2, <3>2, SweepsNothing, Sweeps DEF HeapInv
    <3>4. PICK r : r = [With(t, "join_builders") EXCEPT !.build = b]
      OBVIOUS
    <3>5. /\ r.held = th[t].held /\ r.saved = th[t].saved /\ r.build = b
          /\ r.obj = th[t].obj /\ r.result = th[t].result /\ r.pc = "join_builders"
      BY <3>4 DEF With, WorldInv, ShapeInv, ThreadFields
    <3>6. Carries(r)'
      BY <1>2, <2>2, <3>5 DEF ObjectInv, Carries, MaybeObject
    <3>7. Became(t, r)
      BY <1>3, <2>1, <2>3, <3>4 DEF FillFromBlock
    <3> QED
      BY <3>1, <3>3, <3>6, <3>7, OneThread, SameEntries, ObjectStep DEF WorldInv
  <2>4. CASE ~pm.parallel
    <3>1. /\ heap' = [heap EXCEPT !.reclaimable = @ \ {b}, !.points = Cleared(Swept(b))]
          /\ ManyInOneGo(t, Swept(b))
      BY <1>3, <2>1, <2>4 DEF FillFromBlock
    <3>2. /\ DOMAIN heap' = HeapFields /\ heap'.free = heap.free /\ heap'.marked = heap.marked
          /\ heap'.reclaimable = heap.reclaimable \ {b} /\ heap'.points = Cleared(Swept(b))
      BY <1>2, <3>1 DEF HeapInv, HeapFields
    <3>3. HeapFrom /\ Swept(b) \in SUBSET Blank'
      BY <1>2, <2>2, <3>2, Sweeps DEF HeapInv
    <3> QED
      BY <1>1, <3>1, <3>3
  <2> QED
    BY <2>3, <2>4
<1>4. CASE FillFromFreeList(t)
  <2>1. heap' = [heap EXCEPT !.free = {}] /\ ManyInOneGo(t, heap.free)
    BY <1>4 DEF FillFromFreeList
  <2>2. /\ DOMAIN heap' = HeapFields /\ heap'.free = {} /\ heap'.marked = heap.marked
        /\ heap'.reclaimable = heap.reclaimable /\ heap'.points = heap.points
    BY <1>2, <2>1 DEF HeapInv, HeapFields
  <2>3. HeapFrom /\ heap.free \in SUBSET Blank'
    BY <1>2, <2>2, SweepsNothing, Sweeps DEF HeapInv
  <2> QED
    BY <1>1, <2>1, <2>3
<1>5. CASE FillWithOne(t)
  <2>1. CASE GC_allocobj # {} /\ TakeObject /\ ManyInOneGo(t, {Min(GC_allocobj)})
    <3>1. HeapFrom /\ {Min(GC_allocobj)} \in SUBSET Blank'
      BY <1>2, <2>1, TakesObject
    <3> QED
      BY <1>1, <2>1, <3>1
  <2>2. CASE StartGC(t, "many_again", FALSE) /\ UNCHANGED <<table, heap>>
    BY <2>2, StartsCollecting, SameHeap, SameEntries, ObjectStep
  <2>3. CASE Became(t, With(t, "run")) /\ UNCHANGED <<table, heap>>
    BY <2>3, OneGoes, SameHeap, SameEntries, ObjectStep DEF WorldInv
  <2> QED
    BY <1>5, <2>1, <2>2, <2>3 DEF FillWithOne
<1> QED
  BY <1>3, <1>4, <1>5 DEF GC_generic_malloc_many

\* So does every step of an allocation, and a collection that is asked for.
LEMMA AllocatesObjects ==
  ASSUME WorldInv, ObjectInv, NEW t \in Threads, Allocating(t) \/ Building(t) \/ Forget(t) \/ GC_gcollect(t),
         UNCHANGED menu
  PROVE  ObjectInv'
<1>1. CASE JoinBuilders(t) \/ LeaveBuilders(t)
  <2>1. ThreadsFrom
    BY <1>1, OneGoes DEF JoinBuilders, LeaveBuilders, WorldInv
  <2>2. UNCHANGED <<table, heap>>
    BY <1>1 DEF JoinBuilders, LeaveBuilders
  <2> QED
    BY <2>1, <2>2, SameHeap, SameEntries, ObjectStep
<1>2. CASE SweepBlock(t)
  <2>1. PICK S : S = Swept(th[t].build)
    OBVIOUS
  <2>2. S \in SUBSET Objects
    BY <2>1 DEF ObjectInv, Carries, Swept
  <2>3. heap' = [heap EXCEPT !.points = Cleared(S)] /\ UNCHANGED table
    BY <1>2, <2>1 DEF SweepBlock
  <2>4. /\ DOMAIN heap' = HeapFields /\ heap'.free = heap.free /\ heap'.marked = heap.marked
        /\ heap'.reclaimable = heap.reclaimable /\ heap'.points = Cleared(S)
    BY <2>3 DEF ObjectInv, HeapInv, HeapFields
  <2>5. HeapFrom /\ S \in SUBSET Blank' /\ Objects' = Objects /\ MaybeObject' = MaybeObject
    BY <2>2, <2>4, Sweeps DEF ObjectInv, HeapInv, MaybeObject
  <2>6. PICK r : r = [With(t, "store_list") EXCEPT !.build = S]
    OBVIOUS
  <2>7. Became(t, r)
    <3>1. [With(t, "store_list") EXCEPT !.build = Swept(@)] = r
      BY <2>1, <2>6 DEF With, WorldInv, ShapeInv, ThreadFields
    <3> QED
      BY <1>2, <3>1 DEF SweepBlock
  <2>8. /\ r.held = th[t].held /\ r.saved = th[t].saved /\ r.build = S
        /\ r.obj = th[t].obj /\ r.result = th[t].result /\ r.pc = "store_list"
    BY <2>6 DEF With, WorldInv, ShapeInv, ThreadFields
  <2>9. Carries(r)'
    BY <2>2, <2>5, <2>8 DEF ObjectInv, Carries
  <2> QED
    BY <2>3, <2>5, <2>7, <2>9, OneThread, SameEntries, ObjectStep DEF WorldInv
<1>3. CASE StoreList(t)
  <2>1. HeapFrom /\ Blank' = Blank /\ Objects' = Objects /\ MaybeObject' = MaybeObject
    BY <1>3, SameHeap DEF StoreList
  <2>2. th[t].build \in SUBSET Blank'
    BY <1>3, <2>1 DEF StoreList, In, ObjectInv, Carries
  <2>3. TableFrom
    BY <1>3, <2>1, <2>2, ListStored DEF StoreList, WorldInv
  <2>4. PICK r : r = [With(t, "leave_builders") EXCEPT !.build = {}]
    OBVIOUS
  <2>5. /\ r.held = th[t].held /\ r.saved = th[t].saved /\ r.build = {}
        /\ r.obj = th[t].obj /\ r.result = th[t].result /\ r.pc = "leave_builders"
    BY <2>4 DEF With, WorldInv, ShapeInv, ThreadFields
  <2>6. Carries(r)'
    BY <2>1, <2>5 DEF ObjectInv, Carries
  <2>7. Became(t, r)
    BY <1>3, <2>4 DEF StoreList
  <2> QED
    BY <2>1, <2>3, <2>6, <2>7, OneThread, ObjectStep DEF WorldInv
<1>4. CASE TakeFilled(t)
  <2>1. ReadHead(t) /\ UNCHANGED <<table, heap>> /\ th[t].pc \in Plain
    BY <1>4 DEF TakeFilled, In, Plain
  <2> QED
    BY <2>1, ReadsHead, SameHeap, SameEntries, ObjectStep
<1>5. CASE Forget(t)
  <2>1. HeapFrom /\ Objects' = Objects /\ MaybeObject' = MaybeObject /\ UNCHANGED <<table, heap>>
    BY <1>5, SameHeap DEF Forget
  <2>2. PICK o \in th[t].held : Became(t, [th[t] EXCEPT !.held = @ \ {o}])
    BY <1>5 DEF Forget
  <2>3. PICK r : r = [th[t] EXCEPT !.held = @ \ {o}]
    OBVIOUS
  <2>4. /\ r.held = th[t].held \ {o} /\ r.saved = th[t].saved /\ r.build = th[t].build
        /\ r.obj = th[t].obj /\ r.result = th[t].result /\ r.pc = "run"
    BY <1>5, <2>3 DEF Forget, In, WorldInv, ShapeInv, ThreadFields
  <2>5. Carries(r)'
    BY <2>1, <2>4 DEF ObjectInv, Carries
  <2> QED
    BY <2>1, <2>2, <2>3, <2>5, OneThread, SameEntries, ObjectStep DEF WorldInv
<1>6. CASE GC_gcollect(t)
  BY <1>6, StartsCollecting, SameHeap, SameEntries, ObjectStep DEF GC_gcollect
<1> QED
  BY <1>1, <1>2, <1>3, <1>4, <1>5, <1>6, MallocObjects, TakeHeadObjects, CoreMallocObjects, MallocManyObjects
     DEF Allocating, Building

-----------------------------------------------------------------------------
\* Threads begin and end.

\* A thread that has not begun, or is gone, carries at most its result.
LEMMA CarriesNothing ==
  ASSUME ObjectInv, UNCHANGED menu, NEW pc, pc \notin {"store_list", "take"}, NEW id,
         NEW result \in MaybeObject, NEW r, r = [Thread(pc, id) EXCEPT !.result = result]
  PROVE  Carries(r)'
<1>1. /\ r.held = {} /\ r.saved = {} /\ r.build = {} /\ r.obj = NULL /\ r.result = result /\ r.pc = pc
  BY DEF Thread
<1>2. Objects' = Objects /\ MaybeObject' = MaybeObject
  BY DEF Objects, MaybeObject
<1> QED
  BY <1>1, <1>2 DEF Carries, MaybeObject

\* What one entry has is replaced, and the heap stays.
LEMMA OneEntryKeeps ==
  ASSUME ShapeInv, ObjectInv, UNCHANGED <<heap, menu>>, NEW k, NEW e, table' = [table EXCEPT ![k] = e],
         k \in DOMAIN table /\ Keeps(table[k]) /\ DOMAIN table[k] = EntryFields => Keeps(e)
  PROVE  TableFrom
<1>1. k \in DOMAIN table => Keeps(e)
  BY DEF ObjectInv, ShapeInv, Index
<1>2. Keeps(e) => Keeps(e)'
  BY DEF Keeps, Blank, Objects, MaybeObject
<1> QED
  BY <1>1, <1>2, OneEntry

\* Creating a thread keeps ObjectInv.
LEMMA CreateObjects ==
  ASSUME WorldInv, ObjectInv, NEW t \in Threads, GC_pthread_create(t), UNCHANGED menu
  PROVE  ObjectInv'
<1>1. HeapFrom /\ Objects' = Objects /\ MaybeObject' = MaybeObject /\ UNCHANGED <<table, heap>>
  BY SameHeap DEF GC_pthread_create
<1>2. PICK n \in Threads, arg \in th[t].held \cup {NULL}, detached \in BOOLEAN :
        /\ th[n].pc = "none"
        /\ \E id \in FreeIds(n) : Creation(t, n, arg, id, detached)
  BY ZenonT(60) DEF GC_pthread_create, Creation
<1>3. PICK id \in FreeIds(n) : Creation(t, n, arg, id, detached)
  BY <1>2
<1>4. th[t].pc = "run"
  BY DEF GC_pthread_create, In
<1>5. PICK r : r = [th[t] EXCEPT !.pc = "created", !.of = n, !.obj = arg]
  OBVIOUS
<1>6. PICK q : q = [Thread("start", id) EXCEPT !.result = arg, !.joinable = ~detached]
  OBVIOUS
<1>7. th'[n] = q /\ th'[t] = r /\ \A u \in Threads \ {n, t} : th'[u] = th[u]
  BY <1>2, <1>4, <1>5, <1>6, <1>3 DEF Creation, WorldInv, ShapeInv
<1>8. arg \in MaybeObject
  BY <1>2 DEF ObjectInv, Carries, MaybeObject
<1>9. Carries(q)'
  <2>1. q.held = {} /\ q.saved = {} /\ q.build = {} /\ q.obj = NULL /\ q.result = arg /\ q.pc = "start"
    BY <1>6 DEF Thread
  <2> QED
    BY <1>1, <1>8, <2>1 DEF Carries, MaybeObject
<1>10. /\ r.held = th[t].held /\ r.saved = th[t].saved /\ r.build = th[t].build
      /\ r.obj = arg /\ r.result = th[t].result /\ r.pc = "created"
  BY <1>5 DEF WorldInv, ShapeInv, ThreadFields
<1>11. Carries(r)'
  BY <1>1, <1>8, <1>10 DEF ObjectInv, Carries
<1>12. Carries(th[n])' /\ Carries(th[t])'
  BY <1>7, <1>9, <1>11 DEF Carries
<1>13. ThreadsFrom
  BY <1>7, <1>12 DEF ThreadsFrom
<1> QED
  BY <1>1, <1>13, SameEntries, ObjectStep

\* An entry is entered with empty lists, or gets empty lists.
LEMMA EntryComes ==
  ASSUME WorldInv, ObjectInv, NEW t \in Threads, RegisterNew(t), UNCHANGED menu
  PROVE  TableFrom
<1>1. PICK f : f = Entry(t, th[t].id)
  OBVIOUS
<1>2. PICK e : e = InitLocal([f EXCEPT !.flags = NewFlags(t)])
  OBVIOUS
<1>3. PICK E : table \in Seq(E)
  BY DEF WorldInv, ShapeInv
<1>4. table' = [<<f>> \o table EXCEPT ![1] = InitLocal([@ EXCEPT !.flags = NewFlags(t)])]
  BY <1>1 DEF RegisterNew, GC_new_thread
<1>5. (<<f>> \o table)[1] = f
  BY <1>3
<1>6. table' = [<<f>> \o table EXCEPT ![1] = e]
  BY <1>2, <1>3, <1>4, <1>5
<1>7. table' = <<e>> \o table
  BY ONLY <1>3, <1>6, Newest
<1>8. e.stack = {} /\ e.status = NULL /\ e.tlfs = [counting |-> TRUE, list |-> {}]
  BY <1>1, <1>2 DEF Entry, InitLocal
<1>9. Keeps(e)'
  BY <1>8 DEF Keeps, MaybeObject
<1>10. ASSUME NEW k \in DOMAIN table' PROVE table'[k] = e \/ \E j \in DOMAIN table : table'[k] = table[j]
  <2>1. k = 1 \/ (k - 1 \in DOMAIN table /\ table'[k] = table[k - 1])
    BY <1>3, <1>7
  <2>2. k = 1 => table'[k] = e
    BY <1>3, <1>7
  <2> QED
    BY <2>1, <2>2
<1>11. ASSUME NEW k \in DOMAIN table', table'[k] = e PROVE Keeps(table[k])'
  BY <1>9, <1>11 DEF Keeps
<1> QED
  BY <1>10, <1>11 DEF TableFrom

\* An entry is found and gets empty lists and other flags.
LEMMA EntryCleared ==
  ASSUME ShapeInv, ObjectInv, UNCHANGED <<heap, menu>>, NEW k, NEW flags,
         table' = [table EXCEPT ![k] = InitLocal([table[k] EXCEPT !.flags = flags])]
  PROVE  TableFrom
<1>1. PICK e : e = InitLocal([table[k] EXCEPT !.flags = flags])
  OBVIOUS
<1>2. table' = [table EXCEPT ![k] = e]
  BY <1>1
<1>3. ASSUME Keeps(table[k]), DOMAIN table[k] = EntryFields PROVE Keeps(e)
  <2>1. e.stack = table[k].stack /\ e.status = table[k].status /\ e.tlfs = [counting |-> TRUE, list |-> {}]
    BY <1>1, <1>3 DEF InitLocal, EntryFields
  <2> QED
    BY <1>3, <2>1 DEF Keeps
<1> QED
  BY <1>2, <1>3, OneEntryKeeps

\* A thread that comes from outside carries nothing.
LEMMA AppearObjects ==
  ASSUME WorldInv, ObjectInv, NEW t \in Threads, Appear(t), UNCHANGED menu
  PROVE  ObjectInv'
<1>1. HeapFrom /\ Objects' = Objects /\ MaybeObject' = MaybeObject /\ UNCHANGED <<table, heap>>
  BY SameHeap DEF Appear
<1>2. PICK id \in FreeIds(t) :
        Became(t, [Thread("register", id) EXCEPT !.unregisters = TRUE, !.joinable = FALSE])
  BY DEF Appear
<1>3. PICK r : r = [Thread("register", id) EXCEPT !.unregisters = TRUE, !.joinable = FALSE]
  OBVIOUS
<1>4. Carries(r)'
  <2>1. r.held = {} /\ r.saved = {} /\ r.build = {} /\ r.obj = NULL /\ r.result = NULL /\ r.pc = "register"
    BY <1>3 DEF Thread
  <2> QED
    BY <1>1, <2>1 DEF Carries, MaybeObject
<1> QED
  BY <1>1, <1>2, <1>3, <1>4, OneThread, SameEntries, ObjectStep DEF WorldInv

\* So does one that gets its entry, or starts to collect for it.
LEMMA EntryObjects ==
  ASSUME WorldInv, ObjectInv, NEW t \in Threads, UNCHANGED <<heap, menu>>,
         GC_register_my_thread_inner(t) \/ RegisterNew(t)
  PROVE  ObjectInv'
<1>1. HeapFrom /\ Objects' = Objects /\ MaybeObject' = MaybeObject
  BY SameHeap
<1>2. DOMAIN th[t] = ThreadFields /\ ShapeInv
  BY DEF WorldInv, ShapeInv
<1>3. CASE StartGC(t, "start_again", InCreation) /\ UNCHANGED table
  BY <1>1, <1>3, StartsCollecting, SameEntries, ObjectStep
<1>4. CASE RegisterNew(t)
  <2>1. PICK r : r = [With(t, "run") EXCEPT !.held = {th[t].result} \ {NULL}, !.result = NULL]
    OBVIOUS
  <2>2. /\ r.held = {th[t].result} \ {NULL} /\ r.saved = th[t].saved /\ r.build = th[t].build
        /\ r.obj = th[t].obj /\ r.result = NULL /\ r.pc = "run"
    BY <1>2, <2>1 DEF With, ThreadFields
  <2>3. Carries(r)'
    BY <1>1, <2>2 DEF ObjectInv, Carries, MaybeObject
  <2>4. Became(t, With(t, "run")) \/ Became(t, r)
    BY <1>4, <2>1, Zenon DEF RegisterNew
  <2>5. ThreadsFrom
    BY <1>2, <2>3, <2>4, OneGoes, OneThread
  <2> QED
    BY <1>1, <1>4, <2>5, EntryComes, ObjectStep
<1> QED
  BY <1>3, <1>4 DEF GC_register_my_thread_inner

\* The beginning of a thread keeps it.
LEMMA BeginObjects ==
  ASSUME WorldInv, ObjectInv, NEW t \in Threads,
         GC_start_rtn_prepare_thread(t) \/ HasCollected(t) \/ GC_register_my_thread(t), UNCHANGED menu
  PROVE  ObjectInv'
<1>1. UNCHANGED heap
  BY Zenon DEF GC_start_rtn_prepare_thread, HasCollected, GC_register_my_thread
<1>2. CASE GC_register_my_thread_inner(t) \/ RegisterNew(t)
  BY <1>1, <1>2, EntryObjects
<1>3. CASE /\ Became(t, With(t, "run"))
           /\ \E k : table' = [table EXCEPT ![k] = InitLocal([table[k] EXCEPT !.flags = @ \ {FINISHED}])]
  <2>1. PICK k : table' = [table EXCEPT ![k] = InitLocal([table[k] EXCEPT !.flags = @ \ {FINISHED}])]
    BY <1>3
  <2>2. PICK flags : flags = table[k].flags \ {FINISHED}
    OBVIOUS
  <2>3. table' = [table EXCEPT ![k] = InitLocal([table[k] EXCEPT !.flags = flags])]
    BY <2>1, <2>2, Zenon
  <2>4. TableFrom
    BY <1>1, <2>3, EntryCleared DEF WorldInv
  <2>5. ThreadsFrom
    BY <1>3, OneGoes DEF WorldInv
  <2> QED
    BY <1>1, <2>4, <2>5, SameHeap, ObjectStep
<1> QED
  BY <1>2, <1>3, Zenon DEF GC_start_rtn_prepare_thread, HasCollected, GC_register_my_thread

\* A thread ends: its result is put into its entry, its lists go back.
LEMMA ReturnObjects ==
  ASSUME WorldInv, ObjectInv, NEW t \in Threads, Registered(t) \/ Return(t) \/ EndThread(t), UNCHANGED menu
  PROVE  ObjectInv'
<1>1. HeapFrom /\ Objects' = Objects /\ MaybeObject' = MaybeObject /\ UNCHANGED heap
  <2>1. UNCHANGED heap
    BY Zenon DEF Registered, Return, EndThread
  <2> QED
    BY <2>1, SameHeap
<1>2. DOMAIN th[t] = ThreadFields /\ ShapeInv
  BY DEF WorldInv, ShapeInv
<1>3. CASE EndThread(t)
  <2>1. ThreadsFrom
    BY <1>3, OneGoes DEF EndThread, WorldInv
  <2> QED
    BY <1>1, <1>3, <2>1, SameEntries, ObjectStep DEF EndThread
<1>4. CASE Registered(t)
  <2>1. PICK r : r = [With(t, "run") EXCEPT !.of = NULL, !.obj = NULL]
    OBVIOUS
  <2>2. /\ r.held = th[t].held /\ r.saved = th[t].saved /\ r.build = th[t].build
        /\ r.obj = NULL /\ r.result = th[t].result /\ r.pc = "run"
    BY <1>2, <2>1 DEF With, ThreadFields
  <2>3. Carries(r)'
    BY <1>1, <2>2 DEF ObjectInv, Carries, MaybeObject
  <2>4. Became(t, r) /\ UNCHANGED table
    BY <1>4, <2>1 DEF Registered
  <2> QED
    BY <1>1, <1>2, <2>3, <2>4, OneThread, SameEntries, ObjectStep
<1>5. CASE Return(t)
  <2>1. PICK result \in th[t].held \cup {NULL} :
          /\ table' = [table EXCEPT ![Own(t)].status = result]
          /\ Became(t, [With(t, "exit") EXCEPT !.held = {}, !.result = result])
    BY <1>5, Zenon DEF Return
  <2>2. result \in MaybeObject
    BY <2>1 DEF ObjectInv, Carries, MaybeObject
  <2>3. PICK r : r = [With(t, "exit") EXCEPT !.held = {}, !.result = result]
    OBVIOUS
  <2>4. /\ r.held = {} /\ r.saved = th[t].saved /\ r.build = th[t].build
        /\ r.obj = th[t].obj /\ r.result = result /\ r.pc = "exit"
    BY <1>2, <2>3 DEF With, ThreadFields
  <2>5. Carries(r)'
    BY <1>1, <2>2, <2>4 DEF ObjectInv, Carries
  <2>6. PICK k : k = Own(t)
    OBVIOUS
  <2>7. PICK e : e = [table[k] EXCEPT !.status = result]
    OBVIOUS
  <2>8. table' = [table EXCEPT ![k] = e]
    BY <2>1, <2>6, <2>7
  <2>9. ASSUME Keeps(table[k]), DOMAIN table[k] = EntryFields PROVE Keeps(e)
    <3>1. e.stack = table[k].stack /\ e.status = result /\ e.tlfs = table[k].tlfs
      BY <2>7, <2>9 DEF EntryFields
    <3> QED
      BY <2>2, <2>9, <3>1 DEF Keeps
  <2>10. TableFrom
    BY <1>1, <1>2, <2>8, <2>9, OneEntryKeeps
  <2> QED
    BY <1>1, <1>2, <2>1, <2>3, <2>5, <2>10, OneThread, ObjectStep
<1> QED
  BY <1>3, <1>4, <1>5

\* So does the end of a thread, whose free lists go back to the heap.
LEMMA UnregisterObjects ==
  ASSUME WorldInv, ObjectInv, NEW t \in Threads, GC_thread_exit_proc(t) \/ GC_unregister_my_thread(t),
         UNCHANGED menu
  PROVE  ObjectInv'
<1>1. DOMAIN th[t] = ThreadFields /\ ShapeInv
  BY DEF WorldInv, ShapeInv
<1>2. PICK k : k = Own(t)
  OBVIOUS
<1>3. /\ heap' = GC_destroy_thread_local(k)
      /\ table' = IF DETACHED \in table[k].flags THEN GC_delete_thread(table, th[t].id)
                  ELSE [table EXCEPT ![k].flags = @ \cup {FINISHED}, ![k].tlfs.list = {}]
      /\ Became(t, [With(t, "ending") EXCEPT !.held = {}, !.unregisters = TRUE])
  BY <1>2 DEF GC_thread_exit_proc, GC_unregister_my_thread, GC_unregister_my_thread_inner
<1>4. Known(t)
  BY DEF GC_thread_exit_proc, GC_unregister_my_thread, In, Known, Plain
<1>5. k \in DOMAIN table /\ Mine(t) = k
  BY <1>2, <1>4, OwnEntry DEF WorldInv, Index
<1>6. Objects' = Objects /\ MaybeObject' = MaybeObject
  BY DEF Objects, MaybeObject
<1>7. HeapFrom
  <2>1. /\ DOMAIN heap' = HeapFields /\ heap'.free = heap.free \cup table[k].tlfs.list /\ heap'.marked = heap.marked
        /\ heap'.reclaimable = heap.reclaimable /\ heap'.points = heap.points
    BY <1>3 DEF GC_destroy_thread_local, ObjectInv, HeapInv, HeapFields
  <2>2. Blank' = Blank
    BY <1>6, <2>1 DEF Blank
  <2> QED
    BY <1>5, <1>6, <2>1, <2>2 DEF ObjectInv, HeapInv, HeapFrom, Keeps
<1>8. ThreadsFrom
  <2>1. PICK r : r = [With(t, "ending") EXCEPT !.held = {}, !.unregisters = TRUE]
    OBVIOUS
  <2>2. /\ r.held = {} /\ r.saved = th[t].saved /\ r.build = th[t].build
        /\ r.obj = th[t].obj /\ r.result = th[t].result /\ r.pc = "ending"
    BY <1>1, <2>1 DEF With, ThreadFields
  <2>3. Carries(r)'
    BY <1>6, <2>2 DEF ObjectInv, Carries
  <2> QED
    BY <1>1, <1>3, <2>1, <2>3, OneThread
<1>9. TableFrom
  <2>1. CASE DETACHED \in table[k].flags
    <3>1. table' = RemoveAt(table, k)
      BY <1>3, <1>5, <2>1 DEF GC_delete_thread, Mine
    <3> QED
      BY <1>1, <1>5, <3>1, EntryGoes
  <2>2. CASE DETACHED \notin table[k].flags
    <3>1. PICK e : e = [[table[k] EXCEPT !.flags = @ \cup {FINISHED}] EXCEPT !.tlfs.list = {}]
      OBVIOUS
    <3>2. table' = [table EXCEPT ![k] = e]
      BY <1>3, <2>2, <3>1
    <3>3. Keeps(table[k]) /\ DOMAIN table[k] = EntryFields
      BY <1>1, <1>5 DEF ObjectInv, ShapeInv, Index
    <3>4. e.stack = table[k].stack /\ e.status = table[k].status /\ e.tlfs = [table[k].tlfs EXCEPT !.list = {}]
      BY <3>1, <3>3 DEF EntryFields
    <3>5. DOMAIN e.tlfs = {"counting", "list"} /\ e.tlfs.list = {}
      BY <3>3, <3>4 DEF Keeps
    <3>6. Keeps(e)'
      BY <1>6, <3>3, <3>4, <3>5 DEF Keeps
    <3> QED
      BY <1>1, <3>2, <3>6, OneEntry
  <2> QED
    BY <2>1, <2>2
<1> QED
  BY <1>7, <1>8, <1>9, ObjectStep

\* A thread is joined or detached.
LEMMA JoinObjects ==
  ASSUME WorldInv, ObjectInv, NEW t \in Threads, GC_pthread_join(t) \/ GC_pthread_detach(t), UNCHANGED menu
  PROVE  ObjectInv'
<1>1. HeapFrom /\ Objects' = Objects /\ MaybeObject' = MaybeObject /\ UNCHANGED heap
  <2>1. UNCHANGED heap
    BY Zenon DEF GC_pthread_join, GC_pthread_detach, LookUp
  <2> QED
    BY <2>1, SameHeap
<1>2. DOMAIN th[t] = ThreadFields /\ ShapeInv
  BY DEF WorldInv, ShapeInv
<1>3. ASSUME NEW pc \in {"join", "detach"}, LookUp(t, pc) PROVE ObjectInv'
  <2>1. PICK u \in Threads :
          Became(t, [With(t, pc) EXCEPT !.of = u, !.entry = table[GC_lookup_thread(table, th[u].id)].of])
    BY <1>3, Zenon DEF LookUp
  <2>2. PICK r : r = [With(t, pc) EXCEPT !.of = u, !.entry = table[GC_lookup_thread(table, th[u].id)].of]
    OBVIOUS
  <2>3. /\ r.held = th[t].held /\ r.saved = th[t].saved /\ r.build = th[t].build
        /\ r.obj = th[t].obj /\ r.result = th[t].result /\ r.pc \in {"join", "detach"}
    BY <1>2, <1>3, <2>2 DEF With, ThreadFields
  <2>4. Carries(r)'
    BY <1>1, <2>3 DEF ObjectInv, Carries
  <2>5. UNCHANGED table
    BY <1>3 DEF LookUp
  <2> QED
    BY <1>1, <1>2, <2>1, <2>2, <2>4, <2>5, OneThread, SameEntries, ObjectStep
<1>4. ASSUME NEW u \in Threads \ {t}, NEW r, NEW q, Carries(r)', Carries(q)', UNCHANGED table,
             th'[t] = r, th'[u] = q, \A v \in Threads \ {t, u} : th'[v] = th[v]
      PROVE  ObjectInv'
  <2>1. Carries(th[t])' /\ Carries(th[u])'
    BY <1>4 DEF Carries
  <2>2. ThreadsFrom
    BY <1>4, <2>1 DEF ThreadsFrom
  <2> QED
    BY <1>1, <1>4, <2>2, SameEntries, ObjectStep
<1>5. ASSUME In(t, "join"),
             th' = [th EXCEPT ![t] = [With(t, "joined") EXCEPT !.of = NULL, !.held = @ \cup ({th[th[t].of].result} \ {NULL})],
                              ![th[t].of] = Thread("gone", th[th[t].of].id)],
             UNCHANGED table
      PROVE  ObjectInv'
  <2>1. PICK u : u = th[t].of
    OBVIOUS
  <2>2. u \in Threads \ {t}
    BY <1>5, <2>1 DEF WorldInv, JoinInv, In
  <2>3. PICK r : r = [With(t, "joined") EXCEPT !.of = NULL, !.held = @ \cup ({th[u].result} \ {NULL})]
    OBVIOUS
  <2>4. PICK q : q = [Thread("gone", th[u].id) EXCEPT !.result = NULL]
    OBVIOUS
  <2>5. q = Thread("gone", th[u].id)
    BY <2>4 DEF Thread
  <2>6. th' = [th EXCEPT ![t] = r, ![u] = q]
    BY <1>5, <2>1, <2>3, <2>5
  <2>7. th'[t] = r /\ th'[u] = q /\ \A v \in Threads \ {t, u} : th'[v] = th[v]
    BY <1>2, <2>2, <2>6 DEF ShapeInv
  <2>8. /\ r.held = th[t].held \cup ({th[u].result} \ {NULL}) /\ r.saved = th[t].saved /\ r.build = th[t].build
        /\ r.obj = th[t].obj /\ r.result = th[t].result /\ r.pc = "joined"
    BY <1>2, <2>3 DEF With, ThreadFields
  <2>9. th[u].result \in MaybeObject
    BY <2>2 DEF ObjectInv, Carries
  <2>10. Carries(r)'
    BY <1>1, <2>8, <2>9 DEF ObjectInv, Carries, MaybeObject
  <2>11. Carries(q)'
    <3>1. NULL \in MaybeObject
      BY DEF MaybeObject
    <3>2. PICK id : id = th[u].id
      OBVIOUS
    <3>3. q = [Thread("gone", id) EXCEPT !.result = NULL]
      BY ONLY <2>4, <3>2, ZenonT(30)
    <3> QED
      BY <3>1, <3>3, CarriesNothing
  <2> QED
    BY <1>4, <1>5, <2>2, <2>7, <2>10, <2>11
<1>6. ASSUME In(t, "detach"), UNCHANGED table,
             th' = [th EXCEPT ![t] = [With(t, "detached") EXCEPT !.of = NULL],
                              ![th[t].of].joinable = FALSE, ![th[t].of].pc = IF @ = "dead" THEN "gone" ELSE @]
      PROVE  ObjectInv'
  <2>1. PICK u : u = th[t].of
    OBVIOUS
  <2>2. u \in Threads \ {t}
    BY <1>6, <2>1 DEF WorldInv, JoinInv, In
  <2>3. PICK r : r = [With(t, "detached") EXCEPT !.of = NULL]
    OBVIOUS
  <2>4. PICK q : q = [[th[u] EXCEPT !.joinable = FALSE] EXCEPT !.pc = IF @ = "dead" THEN "gone" ELSE @]
    OBVIOUS
  <2>5. th' = [th EXCEPT ![t] = r, ![u].joinable = FALSE, ![u].pc = IF @ = "dead" THEN "gone" ELSE @]
    BY <1>6, <2>1, <2>3
  <2>6. th'[t] = r /\ th'[u] = q /\ \A v \in Threads \ {t, u} : th'[v] = th[v]
    BY <1>2, <2>2, <2>4, <2>5 DEF ShapeInv
  <2>7. /\ r.held = th[t].held /\ r.saved = th[t].saved /\ r.build = th[t].build
        /\ r.obj = th[t].obj /\ r.result = th[t].result /\ r.pc = "detached"
    BY <1>2, <2>3 DEF With, ThreadFields
  <2>8. Carries(r)'
    BY <1>1, <2>7 DEF ObjectInv, Carries
  <2>9. DOMAIN th[u] = ThreadFields /\ Carries(th[u])
    BY <2>2 DEF WorldInv, ShapeInv, ObjectInv
  <2>10. /\ q.held = th[u].held /\ q.saved = th[u].saved /\ q.build = th[u].build
         /\ q.obj = th[u].obj /\ q.result = th[u].result /\ (q.pc = th[u].pc \/ q.pc = "gone")
    BY <2>4, <2>9 DEF ThreadFields
  <2>11. Carries(q)'
    BY <1>1, <2>9, <2>10 DEF Carries, HeapFrom
  <2> QED
    BY <1>4, <1>6, <2>2, <2>6, <2>8, <2>11
<1>7. ASSUME Became(t, [With(t, "run") EXCEPT !.entry = NULL]), TableFrom
      PROVE  ObjectInv'
  <2>1. PICK r : r = [With(t, "run") EXCEPT !.entry = NULL]
    OBVIOUS
  <2>2. /\ r.held = th[t].held /\ r.saved = th[t].saved /\ r.build = th[t].build
        /\ r.obj = th[t].obj /\ r.result = th[t].result /\ r.pc = "run"
    BY <1>2, <2>1 DEF With, ThreadFields
  <2>3. Carries(r)'
    BY <1>1, <2>2 DEF ObjectInv, Carries
  <2> QED
    BY <1>1, <1>2, <1>7, <2>1, <2>3, OneThread, ObjectStep
<1>8. PICK k : k = EntryOf(table, th[t].entry)
  OBVIOUS
<1>9. k \in DOMAIN table \cup {0}
  BY <1>2, <1>8, FoundOwn DEF ShapeInv
<1>10. ASSUME table' = GC_delete_gc_thread(table, th[t].entry) PROVE TableFrom
  BY <1>2, <1>8, <1>9, <1>10, EntryGoes DEF GC_delete_gc_thread
<1>11. ASSUME table' = [table EXCEPT ![k].flags = @ \cup {DETACHED}] PROVE TableFrom
  <2>1. PICK e : e = [table[k] EXCEPT !.flags = @ \cup {DETACHED}]
    OBVIOUS
  <2>2. table' = [table EXCEPT ![k] = e]
    BY <1>11, <2>1
  <2>3. ASSUME Keeps(table[k]), DOMAIN table[k] = EntryFields PROVE Keeps(e)
    <3>1. e.stack = table[k].stack /\ e.status = table[k].status /\ e.tlfs = table[k].tlfs
      BY <2>1, <2>3 DEF EntryFields
    <3> QED
      BY <2>3, <3>1 DEF Keeps
  <2> QED
    BY <1>1, <1>2, <2>2, <2>3, OneEntryKeeps
<1>12. CASE GC_pthread_join(t)
  BY <1>3, <1>5, <1>7, <1>10, <1>12, SMTT(30) DEF GC_pthread_join
<1>13. CASE GC_pthread_detach(t)
  BY <1>3, <1>6, <1>7, <1>8, <1>10, <1>11, <1>13 DEF GC_pthread_detach
<1> QED
  BY <1>12, <1>13

\* A thread blocks, and goes on again.
LEMMA BlockObjects ==
  ASSUME WorldInv, ObjectInv, NEW t \in Threads,
         GC_do_blocking(t) \/ EndBlocking(t) \/ GC_call_with_gc_active(t), UNCHANGED menu
  PROVE  ObjectInv'
<1>1. HeapFrom /\ Objects' = Objects /\ MaybeObject' = MaybeObject /\ UNCHANGED heap
  <2>1. UNCHANGED heap
    BY Zenon DEF GC_do_blocking, EndBlocking, GC_call_with_gc_active, Unblocked
  <2> QED
    BY <2>1, SameHeap
<1>2. DOMAIN th[t] = ThreadFields /\ ShapeInv
  BY DEF WorldInv, ShapeInv
<1>3. PICK k : k = Mine(t)
  OBVIOUS
<1>4. ASSUME NEW r, Became(t, r), r.held \in {th[t].held, th[t].saved}, r.saved \in {th[t].held, th[t].saved},
             r.build = th[t].build, r.obj = th[t].obj, r.result = th[t].result, r.pc \in {"run", "blocked"},
             NEW e, table' = [table EXCEPT ![k] = e],
             DOMAIN table[k] = EntryFields =>
               /\ e.stack \in {table[k].stack, Stack(t), th[t].saved}
               /\ e.status = table[k].status /\ e.tlfs = table[k].tlfs
      PROVE  ObjectInv'
  <2>1. Carries(r)'
    BY <1>1, <1>4 DEF ObjectInv, Carries
  <2>2. Stack(t) \in SUBSET Objects
    BY DEF ObjectInv, Carries, Stack, MaybeObject
  <2>3. Keeps(table[k]) /\ DOMAIN table[k] = EntryFields => Keeps(e)
    BY <1>4, <2>2 DEF Keeps, ObjectInv, Carries
  <2>4. TableFrom
    BY <1>1, <1>2, <1>4, <2>3, OneEntryKeeps
  <2> QED
    BY <1>1, <1>2, <1>4, <2>1, <2>4, OneThread, ObjectStep
<1>5. CASE GC_do_blocking(t)
  <2>1. PICK r : r = [With(t, "blocked") EXCEPT !.saved = th[t].held]
    OBVIOUS
  <2>2. PICK e : e = [[table[k] EXCEPT !.stack = Stack(t)] EXCEPT !.thread_blocked = TRUE]
    OBVIOUS
  <2>3. Became(t, r) /\ table' = [table EXCEPT ![k] = e]
    BY <1>3, <1>5, <2>1, <2>2 DEF GC_do_blocking
  <2>4. /\ r.held = th[t].held /\ r.saved = th[t].held /\ r.build = th[t].build
        /\ r.obj = th[t].obj /\ r.result = th[t].result /\ r.pc = "blocked"
    BY <1>2, <2>1 DEF With, ThreadFields
  <2>5. DOMAIN table[k] = EntryFields => e.stack = Stack(t) /\ e.status = table[k].status /\ e.tlfs = table[k].tlfs
    BY <2>2 DEF EntryFields
  <2> QED
    BY <1>4, <2>3, <2>4, <2>5
<1>6. ASSUME NEW active, Unblocked(t, active) PROVE ObjectInv'
  <2>1. PICK r : r = [With(t, "run") EXCEPT !.active = active]
    OBVIOUS
  <2>2. PICK e : e = [table[k] EXCEPT !.thread_blocked = FALSE]
    OBVIOUS
  <2>3. Became(t, r) /\ table' = [table EXCEPT ![k] = e]
    BY <1>3, <1>6, <2>1, <2>2 DEF Unblocked
  <2>4. /\ r.held = th[t].held /\ r.saved = th[t].saved /\ r.build = th[t].build
        /\ r.obj = th[t].obj /\ r.result = th[t].result /\ r.pc = "run"
    BY <1>2, <2>1 DEF With, ThreadFields
  <2>5. DOMAIN table[k] = EntryFields => e.stack = table[k].stack /\ e.status = table[k].status /\ e.tlfs = table[k].tlfs
    BY <2>2 DEF EntryFields
  <2> QED
    BY <1>4, <2>3, <2>4, <2>5
<1>7. ASSUME table' = [table EXCEPT ![Mine(t)].stack = th[t].saved, ![Mine(t)].thread_blocked = TRUE],
             Became(t, [With(t, "blocked") EXCEPT !.active = FALSE, !.held = th[t].saved])
      PROVE  ObjectInv'
  <2>1. PICK r : r = [With(t, "blocked") EXCEPT !.active = FALSE, !.held = th[t].saved]
    OBVIOUS
  <2>2. PICK e : e = [[table[k] EXCEPT !.stack = th[t].saved] EXCEPT !.thread_blocked = TRUE]
    OBVIOUS
  <2>3. Became(t, r) /\ table' = [table EXCEPT ![k] = e]
    BY <1>3, <1>7, <2>1, <2>2
  <2>4. /\ r.held = th[t].saved /\ r.saved = th[t].saved /\ r.build = th[t].build
        /\ r.obj = th[t].obj /\ r.result = th[t].result /\ r.pc = "blocked"
    BY <1>2, <2>1 DEF With, ThreadFields
  <2>5. DOMAIN table[k] = EntryFields => e.stack = th[t].saved /\ e.status = table[k].status /\ e.tlfs = table[k].tlfs
    BY <2>2 DEF EntryFields
  <2> QED
    BY <1>4, <2>3, <2>4, <2>5
<1> QED
  BY <1>5, <1>6, <1>7 DEF EndBlocking, GC_call_with_gc_active

\* A process forks: in the child the lists of the other threads go back.
LEMMA ForkObjects ==
  ASSUME WorldInv, ObjectInv, NEW t \in Threads, Fork(t), UNCHANGED menu
  PROVE  ObjectInv'
<1>1. DOMAIN th[t] = ThreadFields /\ ShapeInv
  BY DEF WorldInv, ShapeInv
<1>2. CASE PrepareFork(t) \/ fork_prepare_proc(t) \/ fork_parent_proc(t)
  <2>1. UNCHANGED <<table, heap>>
    BY <1>2, Zenon DEF PrepareFork, fork_prepare_proc, fork_parent_proc
  <2>2. UNCHANGED th \/ \E pc \in {"prepare_fork", "fork", "run"} : Became(t, With(t, pc))
    BY <1>2 DEF PrepareFork, fork_prepare_proc, fork_parent_proc
  <2>3. ThreadsFrom
    BY <1>1, <2>2, OneGoes, SameThreads
  <2> QED
    BY <2>1, <2>3, SameHeap, SameEntries, ObjectStep
<1>3. CASE fork_child_proc(t)
  <2>1. PICK dead : dead = {k \in Unfinished(table) : table[k].id # th[t].id}
    OBVIOUS
  <2>2. heap' = [heap EXCEPT !.free = @ \cup UNION {table[k].tlfs.list : k \in dead}]
    BY <1>3, <2>1 DEF fork_child_proc
  <2>3. UNION {table[k].tlfs.list : k \in dead} \in SUBSET Blank
    BY <2>1 DEF ObjectInv, Keeps, Unfinished
  <2>4. Objects' = Objects /\ MaybeObject' = MaybeObject
    BY DEF Objects, MaybeObject
  <2>5. HeapFrom
    <3>1. /\ DOMAIN heap' = HeapFields /\ heap'.free \in SUBSET Blank /\ heap'.marked = heap.marked
          /\ heap'.reclaimable = heap.reclaimable /\ heap'.points = heap.points
      BY <2>2, <2>3 DEF ObjectInv, HeapInv, HeapFields
    <3>2. Blank' = Blank
      BY <2>4, <3>1 DEF Blank
    <3> QED
      BY <2>4, <3>1, <3>2 DEF ObjectInv, HeapInv, HeapFrom
  <2>6. ThreadsFrom
    <3>1. th' = [u \in Threads |-> IF u = t THEN With(t, "run") ELSE Thread("gone", u)]
      BY <1>3 DEF fork_child_proc
    <3>2. PICK r : r = With(t, "run")
      OBVIOUS
    <3>3. th'[t] = r /\ Carries(r)'
      BY <1>1, <3>1, <3>2, CarriesOn
    <3>4. Carries(th[t])'
      BY <3>3 DEF Carries
    <3>5. ASSUME NEW u \in Threads \ {t} PROVE Carries(th[u])'
      <4>1. PICK q : q = [Thread("gone", u) EXCEPT !.result = NULL]
        OBVIOUS
      <4>2. q = Thread("gone", u)
        BY <4>1 DEF Thread
      <4>3. th'[u] = q /\ NULL \in MaybeObject
        BY <3>1, <4>2 DEF MaybeObject
      <4>4. Carries(q)'
        BY <4>1, <4>3, CarriesNothing
      <4> QED
        BY <4>3, <4>4 DEF Carries
    <3> QED
      BY <3>4, <3>5 DEF ThreadsFrom
  <2>7. TableFrom
    <3>1. PICK k : k = GC_lookup_thread_Oldest(table, th[t].id)
      OBVIOUS
    <3>2. Known(t)
      BY <1>3 DEF fork_child_proc, In, Known, Plain
    <3>3. PICK E : table \in Seq(E)
      BY <1>1 DEF ShapeInv
    <3>4. PICK id : id = th[t].id
      OBVIOUS
    <3>5. \E j \in DOMAIN table : table[j].id = id
      BY <1>1, <3>2, <3>4 DEF WorldInv, TableInv, Index
    <3>6. k \in DOMAIN table
      BY <3>1, <3>3, <3>4, <3>5, FoundLast
    <3>7. table' = <<table[k]>>
      BY <1>3, <3>1 DEF fork_child_proc, GC_remove_all_threads_but_me, GC_lookup_thread_Oldest
    <3>8. \A j \in DOMAIN table' : table'[j] = table[k]
      BY <3>7
    <3> QED
      BY <3>6, <3>8 DEF TableFrom
  <2> QED
    BY <2>5, <2>6, <2>7, ObjectStep
<1> QED
  BY <1>2, <1>3 DEF Fork

\* A signal handler stores what is on the stack.
LEMMA SignalObjects ==
  ASSUME WorldInv, ObjectInv, NEW t \in Threads, Signal(t) \/ UserSignal(t), UNCHANGED menu
  PROVE  ObjectInv'
<1>1. UNCHANGED <<th, heap>>
  BY Zenon DEF Signal, UserSignal
<1>2. HeapFrom /\ ThreadsFrom
  BY <1>1, SameHeap, SameThreads
<1>3. PICK k : k = Mine(t)
  OBVIOUS
<1>4. ASSUME NEW e, table' = [table EXCEPT ![k] = e],
             DOMAIN table[k] = EntryFields =>
               e.stack \in {table[k].stack, Stack(t)} /\ e.status = table[k].status /\ e.tlfs = table[k].tlfs
      PROVE  TableFrom
  <2>1. Stack(t) \in SUBSET Objects
    BY DEF ObjectInv, Carries, Stack, MaybeObject
  <2>2. Keeps(table[k]) /\ DOMAIN table[k] = EntryFields => Keeps(e)
    BY <1>4, <2>1 DEF Keeps
  <2> QED
    BY <1>1, <1>4, <2>2, OneEntryKeeps DEF WorldInv
<1>5. ASSUME Answer(t) PROVE TableFrom
  <2>1. CASE UNCHANGED table
    BY <2>1, SameEntries
  <2>2. CASE table' = [table EXCEPT ![Mine(t)].stack = Stack(t)]
    <3>1. PICK e : e = [table[k] EXCEPT !.stack = Stack(t)]
      OBVIOUS
    <3>2. table' = [table EXCEPT ![k] = e]
      BY <1>3, <2>2, <3>1
    <3> QED
      BY <1>4, <3>1, <3>2 DEF EntryFields
  <2> QED
    BY <1>5, <2>1, <2>2 DEF Answer
<1>6. ASSUME NoteStop(t) PROVE TableFrom
  <2>1. PICK e : e = [table[k] EXCEPT !.last_stop_count = stop.handler[t].my_stop_count]
    OBVIOUS
  <2>2. table' = [table EXCEPT ![k] = e]
    BY <1>3, <1>6, <2>1 DEF NoteStop
  <2> QED
    BY <1>4, <2>1, <2>2 DEF EntryFields
<1>7. TableFrom
  BY <1>5, <1>6, SameEntries
     DEF Signal, UserSignal, GC_suspend_handler, EnterHandler, Restarted, Disturbed, Woken, GC_restart_handler
<1> QED
  BY <1>2, <1>7, ObjectStep

\* All that the threads do.
LEMMA ProgramObjects ==
  ASSUME WorldInv, ObjectInv, NEW t \in Threads, Signal(t) \/ UserSignal(t) \/ Program(t), UNCHANGED menu
  PROVE  ObjectInv'
BY AllocatesObjects, CreateObjects, AppearObjects, BeginObjects, ReturnObjects, UnregisterObjects, JoinObjects, BlockObjects,
   ForkObjects, SignalObjects
   DEF Program, Living

-----------------------------------------------------------------------------
\* One marker makes a step.

\* One marker has another record; the others have theirs.
Steps(i, r) == DOMAIN pm' = SharedFields /\ pm'.m = [pm.m EXCEPT ![i] = r]

\* Only marker i has moved.
LEMMA MarkersMove ==
  ASSUME MarkerShape, NEW i \in Markers, NEW r, Steps(i, r)
  PROVE  /\ DOMAIN pm' = SharedFields /\ DOMAIN pm'.m = Markers
         /\ pm'.m[i] = r /\ \A j \in Markers \ {i} : pm'.m[j] = pm.m[j]
BY DEF MarkerShape, Steps

\* The records stay in shape.
LEMMA ShapeKept ==
  ASSUME MarkerShape, UNCHANGED menu, NEW i \in Markers, NEW r, Steps(i, r), GoodMarker(r),
         pm'.stack \in Seq(MaybeObject), pm'.first_nonempty \in Nat \ {0}
  PROVE  MarkerShape'
<1>1. /\ DOMAIN pm' = SharedFields /\ DOMAIN pm'.m = Markers
      /\ pm'.m[i] = r /\ \A j \in Markers \ {i} : pm'.m[j] = pm.m[j]
  BY MarkersMove
<1>2. Objects' = Objects /\ MaybeObject' = MaybeObject
  BY DEF Objects, MaybeObject
<1>3. \A q : GoodMarker(q) => GoodMarker(q)'
  BY <1>2 DEF GoodMarker
<1>4. ASSUME NEW j \in Markers PROVE GoodMarker(pm.m[j])'
  <2>1. PICK q : q = pm'.m[j]
    OBVIOUS
  <2>2. GoodMarker(q)'
    BY <1>1, <1>3, <2>1 DEF MarkerShape
  <2> QED
    BY <2>1, <2>2 DEF GoodMarker
<1> QED
  BY <1>1, <1>2, <1>4 DEF MarkerShape

\* One marker more or fewer is at such a place, or as many as before.
LEMMA CountMoves ==
  ASSUME MarkerShape, NEW i \in Markers, NEW r, Steps(i, r), NEW S
  PROVE  LET before == Cardinality(MarkersIn(S))
             after == Cardinality(MarkersIn(S)')
         IN  /\ before \in Nat /\ after \in Nat
             /\ r.pc \in S /\ pm.m[i].pc \notin S => after = before + 1
             /\ r.pc \notin S /\ pm.m[i].pc \in S => after = before - 1
             /\ (r.pc \in S <=> pm.m[i].pc \in S) => after = before
<1>1. /\ pm'.m[i] = r /\ \A j \in Markers \ {i} : pm'.m[j] = pm.m[j]
  BY MarkersMove
<1>2. MarkersIn(S)' = IF r.pc \in S THEN MarkersIn(S) \cup {i} ELSE MarkersIn(S) \ {i}
  BY <1>1 DEF MarkersIn
<1>3. i \in MarkersIn(S) <=> pm.m[i].pc \in S
  BY DEF MarkersIn
<1>4. IsFiniteSet(MarkersIn(S)) /\ IsFiniteSet(MarkersIn(S)')
  <2>1. IsFiniteSet(Markers)
    BY MarkThreads, FS_AddElement, FS_EmptySet, FS_Union, FS_Singleton DEF Markers
  <2>2. MarkersIn(S) \subseteq Markers /\ MarkersIn(S)' \subseteq Markers
    BY DEF MarkersIn
  <2> QED
    BY <2>1, <2>2, FS_Subset
<1>5. /\ Cardinality(MarkersIn(S)) \in Nat /\ Cardinality(MarkersIn(S)') \in Nat
  BY <1>4, FS_CardinalityType
<1>6. CASE r.pc \in S
  <2>1. MarkersIn(S)' = MarkersIn(S) \cup {i}
    BY <1>2, <1>6
  <2>2. Cardinality(MarkersIn(S) \cup {i}) =
          IF i \in MarkersIn(S) THEN Cardinality(MarkersIn(S)) ELSE Cardinality(MarkersIn(S)) + 1
    BY <1>4, FS_AddElement
  <2> QED
    BY <1>3, <1>5, <1>6, <2>1, <2>2
<1>7. CASE r.pc \notin S
  <2>1. MarkersIn(S)' = MarkersIn(S) \ {i}
    BY <1>2, <1>7
  <2>2. Cardinality(MarkersIn(S) \ {i}) =
          IF i \in MarkersIn(S) THEN Cardinality(MarkersIn(S)) - 1 ELSE Cardinality(MarkersIn(S))
    BY <1>4, FS_RemoveElement
  <2> QED
    BY <1>3, <1>5, <1>7, <2>1, <2>2
<1> QED
  BY <1>6, <1>7

\* How a count changes with a marker that goes from one place to another.
After(n, S, was, is) ==
  IF is \in S /\ was \notin S THEN n + 1 ELSE IF is \notin S /\ was \in S THEN n - 1 ELSE n

\* The counts follow a marker that moves from one place to another.
Counted(was, is) ==
  /\ is \in Helping \cup {"done"}
  /\ pm'.helper_count = After(pm.helper_count, Helping, was, is)
  /\ pm'.active_count = After(pm.active_count, Busy, was, is)

\* The counts stay right while the markers mark together.
LEMMA CountsKept ==
  ASSUME MarkerShape, CountInv, gc.phase = "mark", UNCHANGED gc, Together, NEW i \in Markers, NEW r, Steps(i, r),
         Counted(pm.m[i].pc, r.pc)
  PROVE  CountInv'
<1>1. /\ pm'.m[i] = r /\ \A j \in Markers \ {i} : pm'.m[j] = pm.m[j]
  BY MarkersMove
<1>2. COLLECTOR \in Markers /\ Helpers \subseteq Markers
  BY DEF Markers
<1>3. pm'.m[COLLECTOR].pc \in Helping \cup {"done"}
  BY <1>1, <1>2 DEF Together, Counted
<1>4. Together'
  BY <1>3 DEF Together
<1>5. \A j \in Helpers : pm'.m[j].pc \in {"off", "help", "done"} \cup Helping
  BY <1>1, <1>2 DEF CountInv, Counted
<1>6. pm'.helper_count = Cardinality(MarkersIn(Helping)')
  BY CountMoves DEF CountInv, After, Counted
<1>7. pm'.active_count = Cardinality(MarkersIn(Busy)')
  BY CountMoves DEF CountInv, After, Counted
<1>8. MarkersIn(Helping)' = {j \in Markers : pm'.m[j].pc \in Helping} /\ MarkersIn(Busy)' = {j \in Markers : pm'.m[j].pc \in Busy}
  BY DEF MarkersIn
<1> QED
  BY <1>3, <1>4, <1>5, <1>6, <1>7 DEF CountInv

\* The stack gets no new entries but on top.
Grows ==
  Len(pm.stack) <= Len(pm'.stack) /\ \A k \in 1..Len(pm.stack) : pm'.stack[k] \in {TAKEN, pm.stack[k]}

\* Entries that were taken are.
LEMMA StillBelow ==
  ASSUME MarkerShape, MarkerShape', Grows, NEW n, Below(n)
  PROVE  Below(n)'
<1>1. Len(pm.stack) \in Nat /\ Len(pm'.stack) \in Nat
  BY DEF MarkerShape
<1> QED
  BY <1>1 DEF Grows, Below

\* Everyone still has the right places.
LEMMA PlacesKept ==
  ASSUME MarkerShape, MarkerShape', PlaceInv, Together, NEW i \in Markers, NEW r, Steps(i, r), Grows,
         Below(pm.first_nonempty)', Fits(r)'
  PROVE  PlaceInv'
<1>1. /\ pm'.m[i] = r /\ \A j \in Markers \ {i} : pm'.m[j] = pm.m[j]
  BY MarkersMove
<1>2. ASSUME NEW me, Fits(me), GoodMarker(me) PROVE Fits(me)'
  <2>1. me.pc \in Placed => Below(me.first)'
    BY <1>2, StillBelow DEF Fits
  <2>2. Len(pm.stack) \in Nat /\ Len(pm'.stack) \in Nat
    BY DEF MarkerShape
  <2>3. me.pc \in {"steal", "clear"} => me.top <= Len(pm'.stack)
    BY <1>2, <2>2 DEF Fits, Grows, GoodMarker
  <2>4. me.pc = "clear" => me.first <= me.top /\ pm'.stack[me.first] \in {TAKEN, me.entry}
    <3>1. me.pc = "clear" => me.first \in 1..Len(pm.stack)
      BY <1>2, <2>2 DEF Fits, GoodMarker
    <3> QED
      BY <1>2, <3>1 DEF Fits, Grows
  <2> QED
    BY <2>1, <2>3, <2>4 DEF Fits
<1>3. ASSUME NEW j \in Markers PROVE Fits(pm.m[j])'
  <2>1. PICK q : q = pm'.m[j]
    OBVIOUS
  <2>2. Fits(q)'
    BY <1>1, <1>2, <2>1 DEF MarkerShape, PlaceInv
  <2> QED
    BY <2>1, <2>2 DEF Fits
<1> QED
  BY <1>3 DEF PlaceInv

\* What the other markers have.
Elsewhere(i) == UNION {ToSet(pm.m[j].local) \cup {pm.m[j].entry} : j \in Markers \ {i}}
\* What the other markers have found.
FoundElsewhere(i) == UNION {pm.m[j].found : j \in Markers \ {i}}

\* What is pending and what was found, with the part of marker i apart.
LEMMA PendingWith ==
  ASSUME MarkerShape, NEW i \in Markers, NEW r, Steps(i, r)
  PROVE  /\ Pending = (ToSet(pm.stack) \cup ToSet(pm.m[i].local) \cup {pm.m[i].entry} \cup Elsewhere(i)) \ {TAKEN}
         /\ Pending' = (ToSet(pm'.stack) \cup ToSet(r.local) \cup {r.entry} \cup Elsewhere(i)) \ {TAKEN}
         /\ AllFound = pm.m[i].found \cup FoundElsewhere(i) /\ AllFound' = r.found \cup FoundElsewhere(i)
<1>1. /\ pm'.m[i] = r /\ \A j \in Markers \ {i} : pm'.m[j] = pm.m[j]
  BY MarkersMove
<1>2. UNION {ToSet(pm.m[j].local) \cup {pm.m[j].entry} : j \in Markers} = ToSet(pm.m[i].local) \cup {pm.m[i].entry} \cup Elsewhere(i)
  BY DEF Elsewhere
<1>3. UNION {ToSet(pm'.m[j].local) \cup {pm'.m[j].entry} : j \in Markers} = ToSet(r.local) \cup {r.entry} \cup Elsewhere(i)
  BY <1>1 DEF Elsewhere
<1>4. AllFound = pm.m[i].found \cup FoundElsewhere(i)
  BY DEF AllFound, FoundElsewhere
<1>5. AllFound' = r.found \cup FoundElsewhere(i)
  BY <1>1 DEF AllFound, FoundElsewhere
<1> QED
  BY <1>2, <1>3, <1>4, <1>5 DEF Pending

\* Nothing is overlooked.
LEMMA ScanKept ==
  ASSUME ScanInv, gc.phase = "mark", UNCHANGED gc, Roots' = Roots, heap'.points = heap.points,
         heap.marked \subseteq heap'.marked, heap'.marked \ heap.marked \subseteq Pending',
         pm.invalid => pm'.invalid,
         ~pm'.invalid => \A o \in Pending \ Pending' : heap.points[o] \subseteq heap'.marked \cup AllFound',
         AllFound \subseteq AllFound' \cup heap'.marked,
         pm'.m[COLLECTOR].pc \in {"done", "marked"} => Pending' = {} /\ AllFound' = {}
  PROVE  ScanInv'
<1>1. ASSUME ~pm'.invalid, NEW o \in heap'.marked \ Pending' PROVE heap'.points[o] \subseteq heap'.marked \cup AllFound'
  <2>1. o \in heap.marked /\ ~pm.invalid
    BY <1>1
  <2>2. CASE o \in Pending
    BY <1>1, <2>2
  <2>3. CASE o \notin Pending
    BY <2>1, <2>3 DEF ScanInv
  <2> QED
    BY <2>2, <2>3
<1>2. Roots' \subseteq heap'.marked
  BY DEF ScanInv
<1> QED
  BY <1>1, <1>2 DEF ScanInv

\* A marker moves, or reads an entry of the stack.
LEMMA MovesScan ==
  ASSUME MarkerShape, ScanInv, gc.phase = "mark", UNCHANGED <<gc, heap>>, Roots' = Roots,
         NEW i \in Markers, NEW r, Steps(i, r), pm'.stack = pm.stack, pm'.invalid = pm.invalid,
         r.local = pm.m[i].local, r.found = pm.m[i].found,
         r.entry = pm.m[i].entry \/ (pm.m[i].entry = TAKEN /\ r.entry \in ToSet(pm.stack)),
         i = COLLECTOR /\ r.pc \in {"done", "marked"} =>
           pm.m[i].pc \in {"done", "marked"} \/ (Pending = {} /\ AllFound = {})
  PROVE  ScanInv'
<1>1. Pending' = Pending /\ AllFound' = AllFound
  <2>1. /\ Pending = (ToSet(pm.stack) \cup ToSet(r.local) \cup {pm.m[i].entry} \cup Elsewhere(i)) \ {TAKEN}
        /\ Pending' = (ToSet(pm.stack) \cup ToSet(r.local) \cup {r.entry} \cup Elsewhere(i)) \ {TAKEN}
        /\ AllFound = r.found \cup FoundElsewhere(i) /\ AllFound' = r.found \cup FoundElsewhere(i)
    BY PendingWith
  <2> QED
    BY <2>1
<1>2. pm'.m[COLLECTOR].pc \in {"done", "marked"} => Pending' = {} /\ AllFound' = {}
  <2>1. COLLECTOR \in Markers
    BY DEF Markers
  <2>2. CASE i = COLLECTOR
    BY <1>1, <2>2, MarkersMove DEF ScanInv
  <2>3. CASE i # COLLECTOR
    BY <1>1, <2>1, <2>3, MarkersMove DEF ScanInv
  <2> QED
    BY <2>2, <2>3
<1> QED
  BY <1>1, <1>2, ScanKept

\* Where nobody has entries and the stack has none either, nothing is pending.
LEMMA NothingPending ==
  ASSUME MarkerShape, Below(pm.first_nonempty), NothingLeft(pm), \A j \in Markers : pm.m[j].pc \notin Owning
  PROVE  Pending = {} /\ AllFound = {}
<1>1. ASSUME NEW k \in DOMAIN pm.stack PROVE pm.stack[k] = TAKEN
  <2>1. Len(pm.stack) \in Nat /\ DOMAIN pm.stack = 1..Len(pm.stack) /\ pm.first_nonempty \in Nat
    BY DEF MarkerShape
  <2>2. k \in 1..(pm.first_nonempty - 1)
    BY <2>1 DEF NothingLeft
  <2> QED
    BY <2>2 DEF Below
<1>2. ASSUME NEW j \in Markers PROVE pm.m[j].local = <<>> /\ pm.m[j].entry = TAKEN /\ pm.m[j].found = {}
  <2>1. GoodMarker(pm.m[j]) /\ pm.m[j].pc \notin Owning
    BY DEF MarkerShape
  <2> QED
    BY <2>1 DEF GoodMarker, Owning
<1>3. ToSet(pm.stack) \subseteq {TAKEN}
  BY <1>1 DEF ToSet
<1>4. ToSet(<<>>) = {}
  BY DEF ToSet
<1>5. UNION {ToSet(pm.m[j].local) \cup {pm.m[j].entry} : j \in Markers} \subseteq {TAKEN}
  BY <1>2, <1>4
<1>6. AllFound = {}
  BY <1>2 DEF AllFound
<1> QED
  BY <1>3, <1>5, <1>6 DEF Pending

\* The greater of two numbers is one of them.
LEMMA MaxOfTwo ==
  ASSUME NEW a \in Nat, NEW b \in Nat
  PROVE  Max({a, b}) \in {a, b}
<1> DEFINE S == {a, b}
<1>1. \E x \in S : \A y \in S : x >= y
  OBVIOUS
<1>2. Max(S) \in S
  BY <1>1 DEF Max
<1> QED
  BY <1>2

\* All that is said of the markers.
MarkersInv == MarkerShape /\ CountInv /\ PlaceInv /\ ScanInv
\* The markers work and the program does not.
AtWork == gc.phase = "mark" /\ Together /\ UNCHANGED <<th, table, gc, menu>>

\* While the markers work, nothing changes what they start from.
LEMMA SameRoots ==
  ASSUME UNCHANGED <<th, table, gc>>
  PROVE  Roots' = Roots
BY DEF Roots, OnStack, Stack, Unfinished

\* The locals that are left alone when a marker goes elsewhere.
Keeping(me, r) == DOMAIN r = MarkerFields /\ r.local = me.local /\ r.found = me.found /\ r.entry = me.entry

\* A marker moves.
LEMMA MoveKeeps ==
  ASSUME MarkersInv, AtWork, UNCHANGED heap,
         NEW i \in Markers, NEW r, Steps(i, r), pm'.stack = pm.stack, pm'.invalid = pm.invalid,
         GoodMarker(r), r.local = pm.m[i].local, r.found = pm.m[i].found,
         r.entry = pm.m[i].entry \/ (pm.m[i].entry = TAKEN /\ r.entry \in ToSet(pm.stack)),
         Counted(pm.m[i].pc, r.pc),
         Below(pm'.first_nonempty), Fits(r),
         r.pc = "done" => Pending = {} /\ AllFound = {}
  PROVE  MarkersInv'
<1>1. pm'.first_nonempty \in Nat \ {0} /\ Len(pm.stack) \in Nat /\ pm.stack \in Seq(MaybeObject)
  BY DEF Below, MarkersInv, MarkerShape
<1>2. MarkerShape'
  BY <1>1, ShapeKept DEF MarkersInv, AtWork
<1>3. CountInv'
  BY CountsKept DEF MarkersInv, AtWork
<1>4. PlaceInv'
  <2>1. Grows
    BY <1>1 DEF Grows
  <2>2. Below(pm.first_nonempty)'
    BY DEF Below
  <2>3. Fits(r)'
    BY DEF Fits, Below
  <2> QED
    BY <1>2, <2>1, <2>2, <2>3, PlacesKept DEF MarkersInv, AtWork
<1>5. ScanInv'
  <2>1. r.pc # "marked"
    BY DEF Helping, Busy, Counted
  <2> QED
    BY <2>1, SameRoots, MovesScan DEF MarkersInv, AtWork
<1> QED
  BY <1>2, <1>3, <1>4, <1>5 DEF MarkersInv

\* What is said of one marker that is counted.
LEMMA OneMarker ==
  ASSUME MarkersInv, NEW i \in Markers
  PROVE  /\ GoodMarker(pm.m[i]) /\ DOMAIN pm = SharedFields
         /\ Together => Below(pm.first_nonempty) /\ Fits(pm.m[i])
         /\ pm.m[i].pc \in Helping => Together /\ gc.phase = "mark"
         /\ Len(pm.stack) \in Nat
<1>1. GoodMarker(pm.m[i]) /\ DOMAIN pm = SharedFields /\ Len(pm.stack) \in Nat
  BY DEF MarkersInv, MarkerShape
<1>2. Together => Below(pm.first_nonempty) /\ Fits(pm.m[i])
  BY DEF MarkersInv, PlaceInv
<1>3. pm.m[i].pc \in Helping => Together
  BY DEF MarkersInv, CountInv, Together, Markers
<1>4. Together => gc.phase = "mark"
  BY DEF MarkersInv, CountInv, Together, Helping, Busy
<1> QED
  BY <1>1, <1>2, <1>3, <1>4

\* A marker that joins keeps MarkersInv.
LEMMA JoinKeeps ==
  ASSUME MarkersInv, UNCHANGED <<th, table, gc, menu>>, NEW i \in Markers, Join(i)
  PROVE  MarkersInv'
<1>1. PICK r : r = [pm.m[i] EXCEPT !.pc = "look", !.first = pm.first_nonempty]
  OBVIOUS
<1>2. pm.m[i].pc = "join" /\ AtWork /\ UNCHANGED heap
  BY OneMarker DEF Join, At, Helping, AtWork
<1>3. /\ Steps(i, r) /\ pm'.stack = pm.stack /\ pm'.invalid = pm.invalid /\ pm'.first_nonempty = pm.first_nonempty
      /\ pm'.helper_count = pm.helper_count /\ pm'.active_count = pm.active_count + 1
  BY <1>1, OneMarker DEF Join, Set, Steps, SharedFields
<1>4. Keeping(pm.m[i], r) /\ r.pc = "look" /\ r.first = pm.first_nonempty /\ r.top = pm.m[i].top
  BY <1>1, OneMarker DEF GoodMarker, Keeping, MarkerFields
<1>5. GoodMarker(r) /\ Below(pm.first_nonempty) /\ Fits(r)
  BY <1>2, <1>4, OneMarker DEF GoodMarker, Keeping, Fits, Owning, Below, AtWork
<1>6. Counted(pm.m[i].pc, r.pc) /\ r.pc # "done"
  BY <1>2, <1>3, <1>4 DEF Counted, After, Helping, Busy
<1> QED
  BY <1>2, <1>3, <1>4, <1>5, <1>6, MoveKeeps DEF Keeping

\* Looking for the first entry, and moving GC_first_nonempty up to it, keeps it.
LEMMA LookKeeps ==
  ASSUME MarkersInv, UNCHANGED <<th, table, gc, menu>>, NEW i \in Markers, LookAtFirst(i) \/ RaiseFirst(i)
  PROVE  MarkersInv'
<1>1. pm.m[i].pc \in {"look", "swap"} /\ AtWork /\ UNCHANGED heap
  BY OneMarker DEF LookAtFirst, RaiseFirst, At, Helping, Busy, AtWork
<1>2. CASE LookAtFirst(i)
  <2>1. PICK r : r = [pm.m[i] EXCEPT !.first = Max({pm.m[i].first, pm.first_nonempty}), !.global = pm.first_nonempty,
                                     !.pc = IF pm.first_nonempty < pm.m[i].first THEN "swap" ELSE "look_at_top"]
    OBVIOUS
  <2>2. /\ Steps(i, r) /\ pm'.stack = pm.stack /\ pm'.invalid = pm.invalid /\ pm'.first_nonempty = pm.first_nonempty
        /\ pm'.helper_count = pm.helper_count /\ pm'.active_count = pm.active_count
    BY <1>2, <2>1, OneMarker DEF LookAtFirst, Set, Steps, SharedFields
  <2>3. Keeping(pm.m[i], r) /\ r.pc \in {"swap", "look_at_top"} /\ r.top = pm.m[i].top
    BY <2>1, OneMarker DEF GoodMarker, Keeping, MarkerFields
  <2>4. r.first \in {pm.m[i].first, pm.first_nonempty}
    <3>1. r.first = Max({pm.m[i].first, pm.first_nonempty})
      BY <2>1, OneMarker DEF GoodMarker, MarkerFields
    <3>2. pm.m[i].first \in Nat /\ pm.first_nonempty \in Nat
      BY OneMarker DEF GoodMarker, MarkersInv, MarkerShape
    <3> QED
      BY <3>1, <3>2, MaxOfTwo
  <2>5. GoodMarker(r) /\ Below(pm.first_nonempty) /\ Fits(r)
    <3>1. Below(pm.first_nonempty) /\ Below(pm.m[i].first)
      BY <1>1, OneMarker DEF Fits, Placed, Helping, Busy, AtWork
    <3>2. pm.m[i].pc = "look" /\ pm.m[i].pc \notin Owning
      BY <1>2 DEF LookAtFirst, At, Owning
    <3> QED
      BY <2>3, <2>4, <3>1, <3>2, OneMarker DEF GoodMarker, Keeping, Fits, Owning, Below
  <2>6. pm.m[i].pc = "look"
    BY <1>2 DEF LookAtFirst, At
  <2>7. Counted(pm.m[i].pc, r.pc) /\ r.pc # "done"
    BY <2>2, <2>3, <2>6 DEF Counted, After, Helping, Busy
  <2> QED
    BY <1>1, <2>2, <2>3, <2>5, <2>7, MoveKeeps DEF Keeping
<1>3. CASE RaiseFirst(i)
  <2>1. PICK r : r = [pm.m[i] EXCEPT !.pc = "look_at_top"]
    OBVIOUS
  <2>2. /\ Steps(i, r) /\ pm'.stack = pm.stack /\ pm'.invalid = pm.invalid
        /\ pm'.first_nonempty \in {pm.first_nonempty, pm.m[i].first}
        /\ pm'.helper_count = pm.helper_count /\ pm'.active_count = pm.active_count
    BY <1>3, <2>1, OneMarker DEF RaiseFirst, Goto, Steps, SharedFields
  <2>3. Keeping(pm.m[i], r) /\ r.pc = "look_at_top" /\ r.top = pm.m[i].top /\ r.first = pm.m[i].first
    BY <2>1, OneMarker DEF GoodMarker, Keeping, MarkerFields
  <2>4. pm.m[i].pc = "swap"
    BY <1>3 DEF RaiseFirst, At
  <2>5. GoodMarker(r) /\ Below(pm'.first_nonempty) /\ Fits(r)
    <3>1. Below(pm.first_nonempty) /\ Below(pm.m[i].first)
      BY <1>1, OneMarker DEF Fits, Placed, Helping, Busy, AtWork
    <3> QED
      BY <2>2, <2>3, <2>4, <3>1, OneMarker DEF GoodMarker, Keeping, Fits, Owning
  <2>6. Counted(pm.m[i].pc, r.pc) /\ r.pc # "done"
    BY <2>2, <2>3, <2>4 DEF Counted, After, Helping, Busy
  <2> QED
    BY <1>1, <2>2, <2>3, <2>5, <2>6, MoveKeeps DEF Keeping
<1> QED
  BY <1>2, <1>3

\* So does looking at the top of the stack.
LEMMA TopKeeps ==
  ASSUME MarkersInv, UNCHANGED <<th, table, gc, menu>>, NEW i \in Markers, LookAtTop(i)
  PROVE  MarkersInv'
<1>1. pm.m[i].pc = "look_at_top" /\ AtWork /\ UNCHANGED heap
  BY OneMarker DEF LookAtTop, At, Helping, Busy, AtWork
<1>2. PICK r : r = [pm.m[i] EXCEPT !.top = Len(pm.stack), !.got = 0, !.local = <<>>,
                                   !.pc = IF Len(pm.stack) < pm.m[i].first THEN "idle" ELSE "steal"]
  OBVIOUS
<1>3. /\ Steps(i, r) /\ pm'.stack = pm.stack /\ pm'.invalid = pm.invalid /\ pm'.first_nonempty = pm.first_nonempty
      /\ pm'.helper_count = pm.helper_count /\ pm'.active_count = pm.active_count
  BY <1>2, OneMarker DEF LookAtTop, Set, Steps, SharedFields
<1>4. pm.m[i].local = <<>>
  BY <1>1, OneMarker DEF GoodMarker, Owning
<1>5. Keeping(pm.m[i], r) /\ r.pc \in {"idle", "steal"} /\ r.top = Len(pm.stack) /\ r.first = pm.m[i].first
  BY <1>2, <1>4, OneMarker DEF GoodMarker, Keeping, MarkerFields
<1>6. GoodMarker(r) /\ Below(pm.first_nonempty) /\ Fits(r)
  <2>1. Below(pm.first_nonempty) /\ Below(pm.m[i].first)
    BY <1>1, OneMarker DEF Fits, Placed, Helping, Busy, AtWork
  <2> QED
    BY <1>1, <1>4, <1>5, <2>1, OneMarker DEF GoodMarker, Keeping, Fits, Owning
<1>7. Counted(pm.m[i].pc, r.pc) /\ r.pc # "done"
  BY <1>1, <1>3, <1>5 DEF Counted, After, Helping, Busy
<1> QED
  BY <1>1, <1>3, <1>5, <1>6, <1>7, MoveKeeps DEF Keeping

\* A marker looks for more to do, waits for more, or is done with the others.
LEMMA IdleKeeps ==
  ASSUME MarkersInv, AtWork, UNCHANGED heap, NEW i \in Markers, NEW p, pm' = Idle(p, i),
         DOMAIN p = SharedFields, p.m = pm.m, p.stack = pm.stack, p.invalid = pm.invalid,
         p.first_nonempty = pm.first_nonempty, p.helper_count = pm.helper_count,
         \/ pm.m[i].pc = "asleep" /\ p.active_count = pm.active_count
         \/ pm.m[i].pc = "idle" /\ p.active_count = pm.active_count - 1
  PROVE  MarkersInv'
<1>1. GoodMarker(pm.m[i]) /\ Below(pm.first_nonempty) /\ Fits(pm.m[i])
  BY OneMarker DEF AtWork
<1>2. p.m[i] = pm.m[i] /\ i \in DOMAIN p.m
  BY DEF MarkersInv, MarkerShape
<1>3. pm.active_count = Cardinality(MarkersIn(Busy)) /\ IsFiniteSet(MarkersIn(Busy))
  <2>1. IsFiniteSet(Markers)
    BY MarkThreads, FS_Union, FS_Singleton DEF Markers
  <2>2. MarkersIn(Busy) \subseteq Markers
    BY DEF MarkersIn
  <2> QED
    BY <2>1, <2>2, FS_Subset DEF MarkersInv, CountInv, AtWork
<1>4. pm.active_count \in Nat
  BY <1>3, FS_CardinalityType
<1>5. ASSUME NEW pc \in {"asleep", "done", "look"}, Counted(pm.m[i].pc, pc), pm'.m = [pm.m EXCEPT ![i].pc = pc],
             DOMAIN pm' = SharedFields, pm'.stack = pm.stack, pm'.invalid = pm.invalid,
             pm'.first_nonempty = pm.first_nonempty,
             pc = "done" => Pending = {} /\ AllFound = {}
      PROVE  MarkersInv'
  <2>1. PICK r : r = [pm.m[i] EXCEPT !.pc = pc]
    OBVIOUS
  <2>2. Steps(i, r)
    BY <1>5, <2>1 DEF Steps
  <2>3. Keeping(pm.m[i], r) /\ r.pc = pc /\ r.top = pm.m[i].top /\ r.first = pm.m[i].first
    BY <1>1, <2>1 DEF GoodMarker, Keeping, MarkerFields
  <2>4. GoodMarker(r) /\ Fits(r)
    BY <1>1, <1>5, <2>3 DEF GoodMarker, Keeping, Fits, Owning, Placed, Helping, Busy
  <2> QED
    BY <1>1, <1>5, <2>2, <2>3, <2>4, MoveKeeps DEF Keeping
<1>6. CASE p.active_count > 0 /\ NothingLeft(p)
  <2>1. pm' = [p EXCEPT !.asleep = @ \cup {i}, !.m[i].pc = "asleep"]
    BY <1>6 DEF Idle, GC_wait_marker
  <2>2. /\ DOMAIN pm' = SharedFields /\ pm'.m = [pm.m EXCEPT ![i].pc = "asleep"]
        /\ pm'.stack = pm.stack /\ pm'.invalid = pm.invalid /\ pm'.first_nonempty = pm.first_nonempty
        /\ pm'.helper_count = pm.helper_count /\ pm'.active_count = p.active_count
    BY <2>1 DEF SharedFields
  <2>3. Counted(pm.m[i].pc, "asleep")
    BY <2>2 DEF Counted, After, Helping, Busy
  <2> QED
    BY <1>5, <2>2, <2>3
<1>7. CASE p.active_count = 0 /\ NothingLeft(p)
  <2>1. PICK q : q = Goto([p EXCEPT !.helper_count = @ - 1], i, "done")
    OBVIOUS
  <2>2. /\ DOMAIN q = SharedFields /\ q.m = [pm.m EXCEPT ![i].pc = "done"]
        /\ q.stack = pm.stack /\ q.invalid = pm.invalid /\ q.first_nonempty = pm.first_nonempty
        /\ q.helper_count = pm.helper_count - 1 /\ q.active_count = p.active_count
    BY <2>1 DEF Goto, SharedFields
  <2>3. pm' = q \/ pm' = [q EXCEPT !.asleep = {}]
    BY <1>7, <2>1 DEF Idle, GC_notify_all_marker
  <2>4. /\ DOMAIN pm' = SharedFields /\ pm'.m = [pm.m EXCEPT ![i].pc = "done"]
        /\ pm'.stack = pm.stack /\ pm'.invalid = pm.invalid /\ pm'.first_nonempty = pm.first_nonempty
        /\ pm'.helper_count = pm.helper_count - 1 /\ pm'.active_count = p.active_count
    BY <2>2, <2>3 DEF SharedFields
  <2>5. Counted(pm.m[i].pc, "done")
    BY <2>4 DEF Counted, After, Helping, Busy
  <2>6. MarkersIn(Busy) \subseteq {i}
    <3>1. CASE pm.m[i].pc = "asleep"
      <4>1. Cardinality(MarkersIn(Busy)) = 0
        BY <1>3, <1>7, <3>1
      <4> QED
        BY <1>3, <4>1, FS_EmptySet
    <3>2. CASE pm.m[i].pc = "idle"
      <4>1. Cardinality(MarkersIn(Busy)) = 1
        BY <1>3, <1>4, <1>7, <3>2
      <4>2. i \in MarkersIn(Busy)
        BY <3>2 DEF MarkersIn, Busy
      <4>3. Cardinality(MarkersIn(Busy) \ {i}) = 0 /\ IsFiniteSet(MarkersIn(Busy) \ {i})
        BY <1>3, <4>1, <4>2, FS_RemoveElement
      <4> QED
        BY <4>3, FS_EmptySet
    <3> QED
      BY <3>1, <3>2
  <2>7. \A j \in Markers : pm.m[j].pc \notin Owning
    BY <2>6 DEF MarkersIn, Owning, Busy
  <2>8. NothingLeft(pm)
    BY <1>7 DEF NothingLeft
  <2>9. Pending = {} /\ AllFound = {}
    BY <1>1, <2>7, <2>8, NothingPending DEF MarkersInv
  <2> QED
    BY <1>5, <2>4, <2>5, <2>9
<1>8. CASE ~(p.active_count > 0 /\ NothingLeft(p)) /\ ~(p.active_count = 0 /\ NothingLeft(p))
  <2>1. pm' = Goto([p EXCEPT !.active_count = @ + 1], i, "look")
    BY <1>8 DEF Idle
  <2>2. /\ DOMAIN pm' = SharedFields /\ pm'.m = [pm.m EXCEPT ![i].pc = "look"]
        /\ pm'.stack = pm.stack /\ pm'.invalid = pm.invalid /\ pm'.first_nonempty = pm.first_nonempty
        /\ pm'.helper_count = pm.helper_count /\ pm'.active_count = p.active_count + 1
    BY <2>1 DEF SharedFields, Goto
  <2>3. Counted(pm.m[i].pc, "look")
    BY <1>4, <2>2 DEF Counted, After, Helping, Busy
  <2> QED
    BY <1>5, <2>2, <2>3
<1> QED
  BY <1>6, <1>7, <1>8

\* So do going idle and waking up.
LEMMA WaitKeeps ==
  ASSUME MarkersInv, UNCHANGED <<th, table, gc, menu>>, NEW i \in Markers, BecomeIdle(i) \/ WakeUp(i)
  PROVE  MarkersInv'
<1>1. pm.m[i].pc \in {"idle", "asleep"} /\ AtWork /\ UNCHANGED heap
  BY OneMarker DEF BecomeIdle, WakeUp, At, Helping, Busy, AtWork
<1>2. DOMAIN pm = SharedFields
  BY OneMarker
<1>3. CASE WakeUp(i)
  <2>1. PICK p : p = pm
    OBVIOUS
  <2>2. pm' = Idle(p, i) /\ pm.m[i].pc = "asleep"
    BY <1>3, <2>1 DEF WakeUp, At
  <2> QED
    BY <1>1, <1>2, <2>1, <2>2, IdleKeeps
<1>4. CASE BecomeIdle(i) /\ Len(pm.stack) >= pm.m[i].first
  <2>1. PICK r : r = [pm.m[i] EXCEPT !.top = Len(pm.stack), !.pc = "steal"]
    OBVIOUS
  <2>2. /\ Steps(i, r) /\ pm'.stack = pm.stack /\ pm'.invalid = pm.invalid /\ pm'.first_nonempty = pm.first_nonempty
        /\ pm'.helper_count = pm.helper_count /\ pm'.active_count = pm.active_count
    BY <1>2, <1>4, <2>1 DEF BecomeIdle, Set, Steps, SharedFields
  <2>3. Keeping(pm.m[i], r) /\ r.pc = "steal" /\ r.top = Len(pm.stack) /\ r.first = pm.m[i].first
    BY <2>1, OneMarker DEF GoodMarker, Keeping, MarkerFields
  <2>4. pm.m[i].pc = "idle"
    BY <1>4 DEF BecomeIdle, At
  <2>5. GoodMarker(r) /\ Below(pm.first_nonempty) /\ Fits(r)
    <3>1. Below(pm.first_nonempty) /\ Below(pm.m[i].first)
      BY <1>1, OneMarker DEF Fits, Placed, Helping, Busy, AtWork
    <3> QED
      BY <2>3, <2>4, <3>1, OneMarker DEF GoodMarker, Keeping, Fits, Owning
  <2>6. Counted(pm.m[i].pc, r.pc) /\ r.pc # "done"
    BY <2>2, <2>3, <2>4 DEF Counted, After, Helping, Busy
  <2> QED
    BY <1>1, <2>2, <2>3, <2>5, <2>6, MoveKeeps DEF Keeping
<1>5. CASE BecomeIdle(i) /\ ~(Len(pm.stack) >= pm.m[i].first)
  <2>1. PICK q : q = [pm EXCEPT !.active_count = @ - 1]
    OBVIOUS
  <2>2. PICK p : p = IF q.active_count = 0 THEN GC_notify_all_marker(q) ELSE q
    OBVIOUS
  <2>3. pm' = Idle(p, i) /\ pm.m[i].pc = "idle"
    BY <1>5, <2>1, <2>2 DEF BecomeIdle, At
  <2>4. /\ DOMAIN p = SharedFields /\ p.m = pm.m /\ p.stack = pm.stack /\ p.invalid = pm.invalid
        /\ p.first_nonempty = pm.first_nonempty /\ p.helper_count = pm.helper_count
        /\ p.active_count = pm.active_count - 1
    BY <1>2, <2>1, <2>2 DEF GC_notify_all_marker, SharedFields
  <2> QED
    BY <1>1, <2>3, <2>4, IdleKeeps
<1> QED
  BY <1>3, <1>4, <1>5

\* An entry is read: the marker remembers it, or passes over what is taken.
LEMMA ReadKeeps ==
  ASSUME MarkersInv, UNCHANGED <<th, table, gc, menu>>, NEW i \in Markers, ReadEntry(i)
  PROVE  MarkersInv'
<1>1. pm.m[i].pc = "steal" /\ AtWork /\ UNCHANGED heap
  BY OneMarker DEF ReadEntry, At, Helping, Busy, AtWork
<1>2. PICK me : me = pm.m[i]
  OBVIOUS
<1>3. GoodMarker(me) /\ Below(me.first) /\ Below(pm.first_nonempty) /\ me.top <= Len(pm.stack) /\ me.pc = "steal"
  BY <1>1, <1>2, OneMarker DEF Fits, Placed, Helping, Busy, AtWork
<1>4. PICK more \in BOOLEAN : more = (me.first <= me.top /\ me.got <= ENTRIES_TO_GET)
  OBVIOUS
<1>5. PICK r : r = IF ~more THEN [me EXCEPT !.pc = "mark"]
                   ELSE IF pm.stack[me.first] = TAKEN THEN [me EXCEPT !.first = @ + 1]
                   ELSE [me EXCEPT !.pc = "clear", !.entry = pm.stack[me.first]]
  OBVIOUS
<1>6. pm' = Set(i, r)
  BY <1>2, <1>4, <1>5 DEF ReadEntry
<1>7. /\ Steps(i, r) /\ pm'.stack = pm.stack /\ pm'.invalid = pm.invalid /\ pm'.first_nonempty = pm.first_nonempty
      /\ pm'.helper_count = pm.helper_count /\ pm'.active_count = pm.active_count
  BY <1>6, OneMarker DEF Set, Steps, SharedFields
<1>8. me.first \in Nat \ {0} /\ me.top \in Nat /\ Len(pm.stack) \in Nat /\ pm.stack \in Seq(MaybeObject)
  BY <1>3 DEF GoodMarker, MarkersInv, MarkerShape
<1>9. more => me.first \in 1..Len(pm.stack) /\ pm.stack[me.first] \in ToSet(pm.stack) /\ pm.stack[me.first] \in MaybeObject
  <2>1. more => me.first <= me.top
    BY <1>4
  <2>2. more => me.first \in 1..Len(pm.stack)
    BY <1>3, <1>8, <2>1
  <2>3. DOMAIN pm.stack = 1..Len(pm.stack)
    BY <1>8
  <2> QED
    BY <1>8, <2>2, <2>3 DEF ToSet
<1>10. DOMAIN r = MarkerFields /\ r.local = me.local /\ r.found = me.found /\ r.top = me.top
  BY <1>3, <1>5 DEF GoodMarker, MarkerFields
<1>11. \/ /\ r.pc = "mark" /\ r.entry = me.entry /\ r.first = me.first
       \/ /\ more /\ pm.stack[me.first] = TAKEN
          /\ r.pc = "steal" /\ r.entry = me.entry /\ r.first = me.first + 1
       \/ /\ more /\ pm.stack[me.first] # TAKEN
          /\ r.pc = "clear" /\ r.entry = pm.stack[me.first] /\ r.first = me.first
  BY <1>3, <1>5 DEF GoodMarker, MarkerFields
<1>12. GoodMarker(r)
  BY <1>3, <1>8, <1>9, <1>10, <1>11 DEF GoodMarker, Owning
<1>13. Fits(r)
  <2>1. ASSUME more, pm.stack[me.first] = TAKEN PROVE Below(me.first + 1)
    <3>1. me.first \in 1..Len(pm.stack)
      BY <1>9, <2>1
    <3>2. \A k \in 1..((me.first + 1) - 1) : k \in 1..(me.first - 1) \/ k = me.first
      BY <1>8
    <3>3. me.first + 1 \in 1..(Len(pm.stack) + 1)
      BY <1>8, <3>1
    <3> QED
      BY <1>3, <2>1, <3>2, <3>3 DEF Below
  <2> QED
    BY <1>3, <1>4, <1>8, <1>9, <1>10, <1>11, <2>1 DEF Fits
<1>14. Counted(pm.m[i].pc, r.pc) /\ r.pc # "done"
  BY <1>2, <1>3, <1>7, <1>11 DEF Counted, After, Helping, Busy
<1>15. r.entry = pm.m[i].entry \/ (pm.m[i].entry = TAKEN /\ r.entry \in ToSet(pm.stack))
  BY <1>2, <1>3, <1>9, <1>11 DEF GoodMarker
<1> QED
  BY <1>1, <1>2, <1>3, <1>7, <1>10, <1>12, <1>13, <1>14, <1>15, MoveKeeps

-----------------------------------------------------------------------------
\* What sequences are made of.
LEMMA OfAppend ==
  ASSUME NEW S, NEW s \in Seq(S), NEW x \in S
  PROVE  Append(s, x) \in Seq(S) /\ ToSet(Append(s, x)) = ToSet(s) \cup {x}
<1> DEFINE q == Append(s, x)
<1>1. /\ q \in Seq(S) /\ Len(q) = Len(s) + 1 /\ q[Len(s) + 1] = x
      /\ \A k \in 1..Len(s) : q[k] = s[k]
  OBVIOUS
<1> HIDE DEF q
<1>2. DOMAIN q = 1..(Len(s) + 1) /\ DOMAIN s = 1..Len(s) /\ Len(s) \in Nat
  BY <1>1
<1>3. \A k \in DOMAIN q : k \in DOMAIN s \/ k = Len(s) + 1
  BY <1>2
<1>4. Len(s) + 1 \in DOMAIN q /\ \A k \in DOMAIN s : k \in DOMAIN q
  BY <1>2
<1>5. ToSet(q) = ToSet(s) \cup {x}
  BY <1>1, <1>2, <1>3, <1>4 DEF ToSet
<1> QED
  BY <1>1, <1>5 DEF q

\* The concatenation of two sequences.
LEMMA OfConcat ==
  ASSUME NEW S, NEW s \in Seq(S), NEW q \in Seq(S)
  PROVE  /\ s \o q \in Seq(S) /\ Len(s \o q) = Len(s) + Len(q)
         /\ \A k \in 1..Len(s) : (s \o q)[k] = s[k]
         /\ ToSet(s \o q) = ToSet(s) \cup ToSet(q)
<1> DEFINE p == s \o q
           m == Len(s)
           n == Len(q)
<1>1. p \in Seq(S) /\ Len(p) = m + n /\ \A k \in 1..(m + n) : p[k] = IF k <= m THEN s[k] ELSE q[k - m]
  BY ConcatProperties
<1> HIDE DEF p
<1>2. m \in Nat /\ n \in Nat /\ DOMAIN s = 1..m /\ DOMAIN q = 1..n /\ DOMAIN p = 1..(m + n)
  BY <1>1
<1> HIDE DEF m, n
<1>3. \A k \in 1..m : k \in 1..(m + n) /\ p[k] = s[k]
  BY <1>1, <1>2
<1>4. \A k \in 1..n : k + m \in 1..(m + n) /\ p[k + m] = q[k]
  BY <1>1, <1>2
<1>5. \A k \in 1..(m + n) : (k \in 1..m /\ p[k] = s[k]) \/ (k - m \in 1..n /\ p[k] = q[k - m])
  BY <1>1, <1>2
<1>6. ToSet(p) = ToSet(s) \cup ToSet(q)
  <2>1. ToSet(p) \subseteq ToSet(s) \cup ToSet(q)
    BY <1>2, <1>5 DEF ToSet
  <2>2. ToSet(s) \subseteq ToSet(p)
    BY <1>2, <1>3 DEF ToSet
  <2>3. ToSet(q) \subseteq ToSet(p)
    BY <1>2, <1>4 DEF ToSet
  <2> QED
    BY <2>1, <2>2, <2>3
<1> QED
  BY <1>1, <1>3, <1>6 DEF p, m, n

\* A sequence cut in two.
LEMMA OfParts ==
  ASSUME NEW S, NEW s \in Seq(S), NEW n \in 0..Len(s)
  PROVE  /\ SubSeq(s, 1, n) \in Seq(S) /\ SubSeq(s, n + 1, Len(s)) \in Seq(S)
         /\ ToSet(s) = ToSet(SubSeq(s, 1, n)) \cup ToSet(SubSeq(s, n + 1, Len(s)))
<1> DEFINE p == SubSeq(s, 1, n)
           q == SubSeq(s, n + 1, Len(s))
<1>1. Len(s) \in Nat /\ DOMAIN s = 1..Len(s) /\ n \in Nat /\ n <= Len(s)
  OBVIOUS
<1>2. p \in Seq(S) /\ Len(p) = n /\ \A k \in 1..n : p[k] = s[k]
  BY <1>1, SubSeqProperties
<1>3. q \in Seq(S) /\ Len(q) = Len(s) - n /\ \A k \in 1..(Len(s) - n) : q[k] = s[k + n]
  <2>1. PICK a, z : a = n + 1 /\ z = Len(s)
    OBVIOUS
  <2>2. a \in Int /\ z \in Int /\ \A i \in a..z : s[i] \in S
    BY <1>1, <2>1
  <2>3. PICK r : r = SubSeq(s, a, z)
    OBVIOUS
  <2>4. /\ r \in Seq(S)
        /\ Len(r) = IF a <= z THEN z - a + 1 ELSE 0
        /\ \A i \in 1..(z - a + 1) : r[i] = s[a + i - 1]
    BY ONLY <2>2, <2>3, SubSeqProperties
  <2>5. z - a + 1 = Len(s) - n /\ (~(a <= z) => 0 = Len(s) - n)
    <3>1. z \in Nat /\ n \in Nat /\ n <= z
      BY <1>1, <2>1
    <3>2. z - (n + 1) + 1 = z - n /\ (~(n + 1 <= z) => 0 = z - n)
      BY ONLY <3>1
    <3> QED
      BY ONLY <2>1, <3>2
  <2>6. Len(r) = Len(s) - n
    BY ONLY <2>4, <2>5
  <2>7. ASSUME NEW k \in 1..(Len(s) - n) PROVE r[k] = s[k + n]
    <3>1. a + k - 1 = k + n
      BY <1>1, <2>1
    <3> QED
      BY ONLY <2>4, <2>5, <2>7, <3>1
  <2>8. q = r
    BY <2>1, <2>3
  <2> QED
    BY ONLY <2>4, <2>6, <2>7, <2>8
<1> HIDE DEF p, q
<1>4. DOMAIN p = 1..n /\ DOMAIN q = 1..(Len(s) - n)
  BY <1>1, <1>2, <1>3
<1>5. \A k \in DOMAIN s : (k \in DOMAIN p /\ p[k] = s[k]) \/ (k - n \in DOMAIN q /\ q[k - n] = s[k])
  BY <1>1, <1>2, <1>3, <1>4
<1>6. \A k \in DOMAIN p : k \in DOMAIN s /\ p[k] = s[k]
  BY <1>1, <1>2, <1>4
<1>7. \A k \in DOMAIN q : k + n \in DOMAIN s /\ q[k] = s[k + n]
  BY <1>1, <1>3, <1>4
<1>8. ToSet(s) = ToSet(p) \cup ToSet(q)
  BY <1>5, <1>6, <1>7 DEF ToSet
<1> QED
  BY <1>2, <1>3, <1>8 DEF p, q

\* A sequence without its last element.
LEMMA OfFront ==
  ASSUME NEW S, NEW s \in Seq(S), s # <<>>
  PROVE  Front(s) \in Seq(S) /\ Last(s) \in S /\ ToSet(s) = ToSet(Front(s)) \cup {Last(s)}
<1>1. Len(s) \in Nat /\ Len(s) # 0 /\ DOMAIN s = 1..Len(s)
  OBVIOUS
<1>2. PICK n : n = Len(s) - 1
  OBVIOUS
<1>3. n \in 0..Len(s) /\ n + 1 = Len(s)
  BY <1>1, <1>2
<1>4. Front(s) = SubSeq(s, 1, n) /\ Last(s) = s[Len(s)]
  BY <1>2 DEF Front, Last
<1>5. ToSet(SubSeq(s, n + 1, Len(s))) = {Last(s)}
  <2>1. PICK q : q = SubSeq(s, n + 1, Len(s))
    OBVIOUS
  <2>2. q \in Seq(S) /\ Len(q) = 1 /\ q[1] = s[n + 1]
    <3>1. n \in Int /\ n + 1 \in Int /\ Len(s) \in Int /\ n + 1 <= Len(s) + 1 /\ n + 1 <= Len(s)
      BY <1>1, <1>3
    <3>2. \A j \in (n + 1)..Len(s) : s[j] \in S
      BY <1>1, <1>3
    <3>3. Len(s) - (n + 1) + 1 = 1 /\ (n + 1) + 1 - 1 = n + 1
      BY <3>1, <1>3
    <3>4. q = [k \in 1..1 |-> s[n + k]]
      BY <1>1, <1>3, <2>1
    <3>5. n + 1 \in DOMAIN s
      BY <1>1, <1>3
    <3> QED
      BY <1>1, <3>4, <3>5
  <2>3. DOMAIN q = {1}
    BY <2>2
  <2>4. ToSet(q) = {q[1]}
    BY <2>3 DEF ToSet
  <2> QED
    BY <1>3, <1>4, <2>1, <2>2, <2>4
<1>6. Last(s) \in S
  BY <1>1, <1>4
<1>7. /\ SubSeq(s, 1, n) \in Seq(S)
      /\ ToSet(s) = ToSet(SubSeq(s, 1, n)) \cup ToSet(SubSeq(s, n + 1, Len(s)))
  BY <1>3, OfParts
<1> QED
  BY <1>4, <1>5, <1>6, <1>7

-----------------------------------------------------------------------------
\* A marker takes, scans and puts back entries.

\* Such a step in general.
LEMMA WorkKeeps ==
  ASSUME MarkersInv, AtWork, NEW i \in Markers, NEW r, Steps(i, r), GoodMarker(r), Counted(pm.m[i].pc, r.pc),
         pm'.stack \in Seq(MaybeObject), pm'.first_nonempty = pm.first_nonempty, Grows, Fits(r)', ScanInv'
  PROVE  MarkersInv'
<1>1. pm.first_nonempty \in Nat \ {0}
  BY DEF MarkersInv, MarkerShape
<1>2. MarkerShape'
  BY <1>1, ShapeKept DEF MarkersInv, AtWork
<1>3. CountInv'
  BY CountsKept DEF MarkersInv, AtWork
<1>4. PlaceInv'
  <2>1. PICK n : n = pm.first_nonempty
    OBVIOUS
  <2>2. Below(n)'
    BY <1>2, <2>1, StillBelow DEF MarkersInv, PlaceInv, AtWork
  <2>3. Below(pm.first_nonempty)'
    BY <2>1, <2>2 DEF Below
  <2> QED
    BY <1>2, <2>3, PlacesKept DEF MarkersInv, AtWork
<1> QED
  BY <1>2, <1>3, <1>4 DEF MarkersInv

\* The collector is not done while something is pending.
LEMMA NotDone ==
  ASSUME MarkerShape, ScanInv, gc.phase = "mark", NEW i \in Markers, NEW r, Steps(i, r), r.pc \notin {"done", "marked"},
         Pending # {} \/ AllFound # {}
  PROVE  pm'.m[COLLECTOR].pc \notin {"done", "marked"}
<1>1. COLLECTOR \in Markers
  BY DEF Markers
<1>2. pm.m[COLLECTOR].pc \notin {"done", "marked"}
  BY DEF ScanInv
<1> QED
  BY <1>1, <1>2, MarkersMove

\* Taking an entry away from the shared stack keeps MarkersInv.
LEMMA ClearKeeps ==
  ASSUME MarkersInv, UNCHANGED <<th, table, gc, menu>>, NEW i \in Markers, ClearEntry(i)
  PROVE  MarkersInv'
<1>1. pm.m[i].pc = "clear" /\ AtWork /\ UNCHANGED heap
  BY OneMarker DEF ClearEntry, At, Helping, Busy, AtWork
<1>2. PICK me : me = pm.m[i]
  OBVIOUS
<1>3. /\ GoodMarker(me) /\ me.pc = "clear" /\ Below(me.first) /\ me.top <= Len(pm.stack) /\ me.first <= me.top
      /\ pm.stack[me.first] \in {TAKEN, me.entry}
  BY <1>1, <1>2, OneMarker DEF Fits, Placed, Helping, Busy, AtWork
<1>4. PICK r : r = [me EXCEPT !.pc = "steal", !.first = @ + 1, !.got = @ + 1, !.local = Append(@, me.entry), !.entry = TAKEN]
  OBVIOUS
<1>5. pm' = [Set(i, r) EXCEPT !.stack[me.first] = TAKEN]
  BY <1>2, <1>4 DEF ClearEntry
<1>6. /\ Steps(i, r) /\ pm'.stack = [pm.stack EXCEPT ![me.first] = TAKEN]
      /\ pm'.invalid = pm.invalid /\ pm'.first_nonempty = pm.first_nonempty
      /\ pm'.helper_count = pm.helper_count /\ pm'.active_count = pm.active_count
  BY <1>5, OneMarker DEF Set, Steps, SharedFields
<1>7. /\ DOMAIN r = MarkerFields /\ r.pc = "steal" /\ r.first = me.first + 1 /\ r.local = Append(me.local, me.entry)
      /\ r.entry = TAKEN /\ r.found = me.found /\ r.top = me.top
  BY <1>3, <1>4 DEF GoodMarker, MarkerFields
<1>8. /\ me.first \in Nat \ {0} /\ me.top \in Nat /\ Len(pm.stack) \in Nat /\ pm.stack \in Seq(MaybeObject)
      /\ me.entry \in Objects /\ me.local \in Seq(Objects) /\ me.found = {}
  BY <1>3 DEF GoodMarker, MarkersInv, MarkerShape, MaybeObject, TAKEN
<1>9. me.first \in 1..Len(pm.stack)
  BY <1>3, <1>8
<1>10. /\ pm'.stack \in Seq(MaybeObject) /\ Len(pm'.stack) = Len(pm.stack)
       /\ \A k \in 1..Len(pm.stack) : pm'.stack[k] = IF k = me.first THEN TAKEN ELSE pm.stack[k]
  <2>1. TAKEN \in MaybeObject
    BY DEF TAKEN, MaybeObject
  <2> QED
    BY <1>6, <1>8, <1>9, <2>1, ExceptSeq
<1>11. Append(me.local, me.entry) \in Seq(Objects) /\ ToSet(Append(me.local, me.entry)) = ToSet(me.local) \cup {me.entry}
  BY <1>8, OfAppend
<1>12. GoodMarker(r)
  BY <1>7, <1>8, <1>11 DEF GoodMarker, Owning, MaybeObject, TAKEN
<1>13. Grows
  BY <1>8, <1>10 DEF Grows
<1>14. Fits(r)'
  <2>1. \A k \in 1..((me.first + 1) - 1) : k \in 1..(me.first - 1) \/ k = me.first
    BY <1>8
  <2>2. me.first + 1 \in 1..(Len(pm.stack) + 1)
    BY <1>8, <1>9
  <2>3. \A k \in 1..(me.first - 1) : pm.stack[k] = TAKEN /\ k \in 1..Len(pm.stack)
    BY <1>3, <1>8, <1>9 DEF Below
  <2>4. Below(r.first)'
    BY <1>7, <1>9, <1>10, <2>1, <2>2, <2>3 DEF Below
  <2> QED
    BY <1>3, <1>7, <1>10, <2>4 DEF Fits
<1>15. Counted(pm.m[i].pc, r.pc)
  BY <1>1, <1>6, <1>7 DEF Counted, After, Helping, Busy
<1>16. ScanInv'
  <2>1. /\ Pending = (ToSet(pm.stack) \cup ToSet(me.local) \cup {me.entry} \cup Elsewhere(i)) \ {TAKEN}
        /\ Pending' = (ToSet(pm'.stack) \cup ToSet(r.local) \cup {r.entry} \cup Elsewhere(i)) \ {TAKEN}
        /\ AllFound = me.found \cup FoundElsewhere(i) /\ AllFound' = r.found \cup FoundElsewhere(i)
    BY <1>2, <1>6, PendingWith DEF MarkersInv
  <2>2. ToSet(pm.stack) \subseteq ToSet(pm'.stack) \cup {TAKEN, me.entry}
    <3>1. DOMAIN pm.stack = 1..Len(pm.stack) /\ DOMAIN pm'.stack = 1..Len(pm.stack)
      BY <1>8, <1>10
    <3> QED
      BY <1>3, <1>10, <3>1 DEF ToSet
  <2>3. Pending \subseteq Pending' /\ AllFound = AllFound'
    BY <1>7, <1>11, <2>1, <2>2
  <2>4. me.entry \in Pending
    BY <1>3, <2>1 DEF GoodMarker
  <2>5. pm'.m[COLLECTOR].pc \notin {"done", "marked"}
    BY <1>1, <1>6, <1>7, <2>4, NotDone DEF MarkersInv, AtWork
  <2> QED
    BY <1>1, <1>6, <2>3, <2>5, ScanKept, SameRoots DEF MarkersInv, AtWork
<1> QED
  BY <1>1, <1>6, <1>10, <1>12, <1>13, <1>14, <1>15, <1>16, WorkKeeps

\* So does scanning an object,
LEMMA ScanKeeps ==
  ASSUME MarkersInv, ObjectInv, menu \in Menus, UNCHANGED <<th, table, gc, menu>>, NEW i \in Markers, Scan(i)
  PROVE  MarkersInv'
<1>1. pm.m[i].pc = "mark" /\ AtWork /\ UNCHANGED heap
  BY OneMarker DEF Scan, At, Helping, Busy, AtWork
<1>2. PICK me : me = pm.m[i]
  OBVIOUS
<1>3. GoodMarker(me) /\ me.pc = "mark" /\ Below(me.first) /\ Below(pm.first_nonempty)
  BY <1>1, <1>2, OneMarker DEF Fits, Placed, Helping, Busy, AtWork
<1>4. me.local \in Seq(Objects) /\ me.found = {} /\ me.entry = TAKEN
  BY <1>3 DEF GoodMarker
<1>5. CASE me.local = <<>>
  <2>1. PICK r : r = [me EXCEPT !.pc = "look"]
    OBVIOUS
  <2>2. /\ Steps(i, r) /\ pm'.stack = pm.stack /\ pm'.invalid = pm.invalid /\ pm'.first_nonempty = pm.first_nonempty
        /\ pm'.helper_count = pm.helper_count /\ pm'.active_count = pm.active_count
    BY <1>2, <1>5, <2>1, OneMarker DEF Scan, Set, Steps, SharedFields
  <2>3. Keeping(me, r) /\ r.pc = "look" /\ r.first = me.first /\ r.top = me.top
    BY <1>3, <2>1 DEF Keeping, GoodMarker, MarkerFields
  <2>4. GoodMarker(r) /\ Fits(r)
    BY <1>3, <1>5, <2>3 DEF GoodMarker, Keeping, Fits, Owning
  <2>5. Counted(pm.m[i].pc, r.pc) /\ r.pc # "done"
    BY <1>1, <2>2, <2>3 DEF Counted, After, Helping, Busy
  <2> QED
    BY <1>1, <1>2, <1>3, <2>2, <2>3, <2>4, <2>5, MoveKeeps DEF Keeping
<1>6. CASE me.local # <<>>
  <2>1. PICK o : o = Last(me.local)
    OBVIOUS
  <2>2. PICK r : r = [me EXCEPT !.found = Unmarked(o), !.local = Front(@), !.pc = "push"]
    OBVIOUS
  <2>3. /\ Steps(i, r) /\ pm'.stack = pm.stack /\ pm'.invalid = pm.invalid /\ pm'.first_nonempty = pm.first_nonempty
        /\ pm'.helper_count = pm.helper_count /\ pm'.active_count = pm.active_count
    BY <1>2, <1>6, <2>1, <2>2, OneMarker DEF Scan, Set, Steps, SharedFields
  <2>4. /\ DOMAIN r = MarkerFields /\ r.pc = "push" /\ r.first = me.first /\ r.top = me.top
        /\ r.local = Front(me.local) /\ r.found = Unmarked(o) /\ r.entry = me.entry
    BY <1>3, <2>2 DEF GoodMarker, MarkerFields
  <2>5. Front(me.local) \in Seq(Objects) /\ o \in Objects /\ ToSet(me.local) = ToSet(Front(me.local)) \cup {o}
    BY <1>4, <1>6, <2>1, OfFront
  <2>6. Unmarked(o) \in SUBSET Objects /\ heap.points[o] \subseteq heap.marked \cup Unmarked(o)
    BY <2>5 DEF Unmarked, ObjectInv, HeapInv
  <2>7. GoodMarker(r)
    BY <1>3, <2>4, <2>5, <2>6 DEF GoodMarker, Owning
  <2>8. Counted(pm.m[i].pc, r.pc)
    BY <1>1, <2>3, <2>4 DEF Counted, After, Helping, Busy
  <2>9. pm.stack \in Seq(MaybeObject) /\ Len(pm.stack) \in Nat
    BY DEF MarkersInv, MarkerShape
  <2>10. Grows
    BY <2>3, <2>9 DEF Grows
  <2>11. Fits(r)'
    BY <1>3, <2>3, <2>4 DEF Fits, Below
  <2>12. ScanInv'
    <3>1. /\ Pending = (ToSet(pm.stack) \cup ToSet(me.local) \cup {me.entry} \cup Elsewhere(i)) \ {TAKEN}
          /\ Pending' = (ToSet(pm'.stack) \cup ToSet(r.local) \cup {r.entry} \cup Elsewhere(i)) \ {TAKEN}
          /\ AllFound = me.found \cup FoundElsewhere(i) /\ AllFound' = r.found \cup FoundElsewhere(i)
      BY <1>2, <2>3, PendingWith DEF MarkersInv
    <3>2. Pending \subseteq Pending' \cup {o} /\ AllFound \subseteq AllFound' /\ Unmarked(o) \subseteq AllFound'
      BY <1>4, <2>3, <2>4, <2>5, <3>1
    <3>3. \A x \in Pending \ Pending' : heap.points[x] \subseteq heap'.marked \cup AllFound'
      BY <1>1, <2>6, <3>2
    <3>4. Pending # {}
      <4>1. o # TAKEN
        BY <2>5, ObjectFacts DEF TAKEN
      <4> QED
        BY <2>5, <3>1, <4>1
    <3>5. pm'.m[COLLECTOR].pc \notin {"done", "marked"}
      BY <1>1, <2>3, <2>4, <3>4, NotDone DEF MarkersInv, AtWork
    <3> QED
      BY <1>1, <2>3, <3>2, <3>3, <3>5, ScanKept, SameRoots DEF MarkersInv, AtWork
  <2> QED
    BY <1>1, <2>3, <2>7, <2>8, <2>9, <2>10, <2>11, <2>12, WorkKeeps
<1> QED
  BY <1>5, <1>6

\* marking what was found,
LEMMA PushKeeps ==
  ASSUME MarkersInv, ObjectInv, menu \in Menus, UNCHANGED <<th, table, gc, menu>>, NEW i \in Markers, Push(i)
  PROVE  MarkersInv'
<1>1. pm.m[i].pc = "push" /\ AtWork
  BY OneMarker DEF Push, At, Helping, Busy, AtWork
<1>2. PICK me : me = pm.m[i]
  OBVIOUS
<1>3. GoodMarker(me) /\ me.pc = "push" /\ Below(me.first)
  BY <1>1, <1>2, OneMarker DEF Fits, Placed, Helping, Busy, AtWork
<1>4. me.local \in Seq(Objects) /\ me.found \in SUBSET Objects /\ me.entry = TAKEN
  BY <1>3 DEF GoodMarker
<1>5. PICK found : found = SetToSeq(me.found)
  OBVIOUS
<1>6. found \in Seq(Objects) /\ ToSet(found) = me.found
  <2>1. IsFiniteSet(me.found)
    BY <1>4, ObjectFacts, FS_Subset
  <2>2. found \in Seq(me.found) /\ ToSet(found) = me.found
    BY <1>5, <2>1, AsSequence
  <2> QED
    BY <1>4, <2>2
<1>7. PICK local : local = me.local \o found
  OBVIOUS
<1>8. local \in Seq(Objects) /\ ToSet(local) = ToSet(me.local) \cup me.found
  BY <1>4, <1>6, <1>7, OfConcat
<1>9. PICK pc \in AfterMarking(local) : pm' = Set(i, [me EXCEPT !.local = local, !.found = {}, !.pc = pc])
  BY <1>2, <1>5, <1>7, Zenon DEF Push
<1>10. pc \in {"look", "mark", "return_all", "return_half"} /\ (pc = "look" <=> local = <<>>)
  BY <1>9 DEF AfterMarking
<1>11. PICK r : r = [me EXCEPT !.local = local, !.found = {}, !.pc = pc]
  OBVIOUS
<1>12. /\ Steps(i, r) /\ pm'.stack = pm.stack /\ pm'.invalid = pm.invalid /\ pm'.first_nonempty = pm.first_nonempty
       /\ pm'.helper_count = pm.helper_count /\ pm'.active_count = pm.active_count
  BY <1>9, <1>11, OneMarker DEF Set, Steps, SharedFields
<1>13. /\ DOMAIN r = MarkerFields /\ r.pc = pc /\ r.first = me.first /\ r.top = me.top
       /\ r.local = local /\ r.found = {} /\ r.entry = me.entry
  BY <1>3, <1>11 DEF GoodMarker, MarkerFields
<1>14. heap'.marked = heap.marked \cup me.found /\ heap'.points = heap.points
  BY <1>2 DEF Push, ObjectInv, HeapInv, HeapFields
<1>15. GoodMarker(r)
  BY <1>3, <1>8, <1>10, <1>13 DEF GoodMarker, Owning
<1>16. Counted(pm.m[i].pc, r.pc)
  BY <1>1, <1>10, <1>12, <1>13 DEF Counted, After, Helping, Busy
<1>17. pm.stack \in Seq(MaybeObject) /\ Len(pm.stack) \in Nat
  BY DEF MarkersInv, MarkerShape
<1>18. Grows
  BY <1>12, <1>17 DEF Grows
<1>19. Fits(r)'
  BY <1>3, <1>10, <1>12, <1>13 DEF Fits, Below
<1>20. ScanInv'
  <2>1. /\ Pending = (ToSet(pm.stack) \cup ToSet(me.local) \cup {me.entry} \cup Elsewhere(i)) \ {TAKEN}
        /\ Pending' = (ToSet(pm'.stack) \cup ToSet(r.local) \cup {r.entry} \cup Elsewhere(i)) \ {TAKEN}
        /\ AllFound = me.found \cup FoundElsewhere(i) /\ AllFound' = r.found \cup FoundElsewhere(i)
    BY <1>2, <1>12, PendingWith DEF MarkersInv
  <2>2. TAKEN \notin me.found
    BY <1>4, ObjectFacts DEF TAKEN
  <2>3. Pending' = Pending \cup me.found /\ AllFound = AllFound' \cup me.found
    BY <1>8, <1>12, <1>13, <2>1, <2>2
  <2>4. pm'.m[COLLECTOR].pc \in {"done", "marked"} => Pending' = {} /\ AllFound' = {}
    <3>1. r.pc \notin {"done", "marked"}
      BY <1>10, <1>13
    <3>2. CASE Pending # {} \/ AllFound # {}
      BY <1>1, <1>12, <3>1, <3>2, NotDone DEF MarkersInv, AtWork
    <3>3. CASE Pending = {} /\ AllFound = {}
      BY <2>3, <3>3
    <3> QED
      BY <3>2, <3>3
  <2>5. heap.marked \subseteq heap'.marked /\ heap'.marked \ heap.marked \subseteq Pending'
    BY <1>14, <2>3
  <2>6. AllFound \subseteq AllFound' \cup heap'.marked /\ Pending \ Pending' = {}
    BY <1>14, <2>3
  <2> QED
    BY <1>1, <1>12, <1>14, <2>4, <2>5, <2>6, ScanKept, SameRoots DEF MarkersInv, AtWork
<1> QED
  BY <1>1, <1>12, <1>15, <1>16, <1>17, <1>18, <1>19, <1>20, WorkKeeps

\* giving entries back,
LEMMA ReturnKeeps ==
  ASSUME MarkersInv, menu \in Menus, UNCHANGED <<th, table, gc, menu>>, NEW i \in Markers, GC_return_mark_stack(i)
  PROVE  MarkersInv'
<1>1. pm.m[i].pc \in {"return_all", "return_half"} /\ AtWork /\ UNCHANGED heap
  BY OneMarker DEF GC_return_mark_stack, At, Helping, Busy, AtWork
<1>2. PICK me : me = pm.m[i]
  OBVIOUS
<1>3. GoodMarker(me) /\ me.pc \in {"return_all", "return_half"} /\ Below(me.first)
  BY <1>1, <1>2, OneMarker DEF Fits, Placed, Helping, Busy, AtWork
<1>4. me.local \in Seq(Objects) /\ me.local # <<>> /\ me.found = {} /\ me.entry = TAKEN
  BY <1>3 DEF GoodMarker
<1>5. PICK n : n = IF At(i, "return_all") THEN Len(me.local) ELSE (Len(me.local) - 1) \div 2
  OBVIOUS
<1>6. n \in 0..Len(me.local)
  <2>1. Len(me.local) \in Nat \ {0}
    BY <1>4
  <2>2. PICK l : l = Len(me.local) - 1
    OBVIOUS
  <2>3. l \in Nat /\ l <= Len(me.local)
    BY <2>1, <2>2
  <2>4. l \div 2 \in 0..l
    BY <2>3, Z3
  <2>5. l \div 2 \in 0..Len(me.local)
    BY <2>1, <2>3, <2>4
  <2>6. CASE At(i, "return_all")
    BY <1>5, <2>1, <2>6
  <2>7. CASE ~At(i, "return_all")
    BY <1>5, <2>2, <2>5, <2>7
  <2> QED
    BY <2>6, <2>7
<1>7. PICK given, left : given = SubSeq(me.local, 1, n) /\ left = SubSeq(me.local, n + 1, Len(me.local))
  OBVIOUS
<1>8. given \in Seq(Objects) /\ left \in Seq(Objects) /\ ToSet(me.local) = ToSet(given) \cup ToSet(left)
  BY <1>4, <1>6, <1>7, OfParts
<1>9. PICK r : r = [me EXCEPT !.local = left, !.pc = IF left = <<>> THEN "look" ELSE "mark"]
  OBVIOUS
<1>10. PICK p : p = WithReturned(Set(i, r), given)
  BY ZenonT(30)
<1>11. pm' = GC_notify_all_marker(p)
  BY <1>2, <1>5, <1>7, <1>9, <1>10 DEF GC_return_mark_stack
<1>12. PICK q : q = Set(i, r)
  OBVIOUS
<1>13. /\ DOMAIN q = SharedFields /\ q.m = [pm.m EXCEPT ![i] = r] /\ q.stack = pm.stack
       /\ q.invalid = pm.invalid /\ q.first_nonempty = pm.first_nonempty
       /\ q.helper_count = pm.helper_count /\ q.active_count = pm.active_count
  BY <1>12, OneMarker DEF Set, SharedFields
<1>14. /\ DOMAIN p = SharedFields /\ p.m = [pm.m EXCEPT ![i] = r]
       /\ p.first_nonempty = pm.first_nonempty
       /\ p.helper_count = pm.helper_count /\ p.active_count = pm.active_count
       /\ \/ p.stack = pm.stack /\ p.invalid
          \/ p.stack = pm.stack \o given /\ p.invalid = pm.invalid
  BY <1>10, <1>12, <1>13 DEF WithReturned, SharedFields
<1>15. /\ Steps(i, r) /\ pm'.first_nonempty = pm.first_nonempty
       /\ pm'.helper_count = pm.helper_count /\ pm'.active_count = pm.active_count
       /\ \/ pm'.stack = pm.stack /\ pm'.invalid
          \/ pm'.stack = pm.stack \o given /\ pm'.invalid = pm.invalid
  BY <1>11, <1>14 DEF GC_notify_all_marker, Steps, SharedFields
<1>16. /\ DOMAIN r = MarkerFields /\ r.pc \in {"look", "mark"} /\ (r.pc = "look" <=> left = <<>>)
       /\ r.first = me.first /\ r.top = me.top
       /\ r.local = left /\ r.found = me.found /\ r.entry = me.entry
  BY <1>3, <1>9 DEF GoodMarker, MarkerFields
<1>17. pm.stack \in Seq(MaybeObject) /\ Len(pm.stack) \in Nat
  BY DEF MarkersInv, MarkerShape
<1>18. given \in Seq(MaybeObject)
  BY <1>8 DEF MaybeObject
<1>19. PICK stack : stack = pm.stack \o given
  OBVIOUS
<1>20. /\ stack \in Seq(MaybeObject) /\ Len(stack) = Len(pm.stack) + Len(given)
       /\ \A k \in 1..Len(pm.stack) : stack[k] = pm.stack[k]
       /\ ToSet(stack) = ToSet(pm.stack) \cup ToSet(given)
  BY <1>17, <1>18, <1>19, OfConcat
<1>21. GoodMarker(r)
  BY <1>3, <1>8, <1>16 DEF GoodMarker, Owning
<1>22. Counted(pm.m[i].pc, r.pc)
  BY <1>1, <1>15, <1>16 DEF Counted, After, Helping, Busy
<1>23. pm'.stack \in Seq(MaybeObject) /\ Grows
  <2>1. Len(given) \in Nat
    BY <1>18
  <2>2. CASE pm'.stack = pm.stack
    BY <1>17, <2>2 DEF Grows
  <2>3. CASE pm'.stack = stack
    <3>1. Len(pm'.stack) \in Nat /\ Len(pm.stack) <= Len(pm'.stack)
      BY <1>17, <1>20, <2>1, <2>3
    <3>2. \A k \in 1..Len(pm.stack) : pm'.stack[k] = pm.stack[k]
      BY <1>20, <2>3
    <3>3. pm'.stack \in Seq(MaybeObject)
      BY <1>20, <2>3
    <3> QED
      BY <3>1, <3>2, <3>3 DEF Grows
  <2> QED
    BY <1>15, <1>19, <2>2, <2>3
<1>24. Fits(r)'
  <2>1. Below(me.first)'
    <3>1. Len(pm'.stack) \in Nat
      BY <1>23
    <3>2. me.first \in Nat \ {0}
      BY <1>3 DEF GoodMarker
    <3> QED
      BY <1>3, <1>17, <1>23, <3>1, <3>2, SMTT(30) DEF Below, Grows
  <2> QED
    BY <1>16, <2>1 DEF Fits, Below
<1>25. ScanInv'
  <2>1. /\ Pending = (ToSet(pm.stack) \cup ToSet(me.local) \cup {me.entry} \cup Elsewhere(i)) \ {TAKEN}
        /\ Pending' = (ToSet(pm'.stack) \cup ToSet(r.local) \cup {r.entry} \cup Elsewhere(i)) \ {TAKEN}
        /\ AllFound = me.found \cup FoundElsewhere(i) /\ AllFound' = r.found \cup FoundElsewhere(i)
    BY <1>2, <1>15, PendingWith DEF MarkersInv
  <2>2. AllFound' = AllFound
    BY <1>16, <2>1
  <2>3. ~pm'.invalid => Pending \subseteq Pending'
    BY <1>8, <1>15, <1>16, <1>19, <1>20, <2>1
  <2>4. Pending # {}
    <3> DEFINE o == Last(me.local)
    <3>1. Front(me.local) \in Seq(Objects) /\ o \in Objects /\ ToSet(me.local) = ToSet(Front(me.local)) \cup {o}
      BY <1>4, OfFront
    <3> HIDE DEF o
    <3>2. o # TAKEN
      BY <3>1, ObjectFacts DEF TAKEN
    <3> QED
      BY <2>1, <3>1, <3>2
  <2>5. pm'.m[COLLECTOR].pc \notin {"done", "marked"}
    BY <1>1, <1>15, <1>16, <2>4, NotDone DEF MarkersInv, AtWork
  <2>6. pm.invalid => pm'.invalid
    BY <1>15
  <2> QED
    BY <1>1, <2>2, <2>3, <2>5, <2>6, ScanKept, SameRoots DEF MarkersInv, AtWork
<1> QED
  BY <1>1, <1>15, <1>21, <1>22, <1>23, <1>24, <1>25, WorkKeeps

\* Everything that GC_mark_local does.
LEMMA MarkLocalKeeps ==
  ASSUME MarkersInv, ObjectInv, menu \in Menus, UNCHANGED <<th, table, gc, menu>>, NEW i \in Markers, GC_mark_local(i)
  PROVE  MarkersInv'
BY JoinKeeps, LookKeeps, TopKeeps, WaitKeeps, ReadKeeps, ClearKeeps, ScanKeeps, PushKeeps, ReturnKeeps
   DEF GC_mark_local

-----------------------------------------------------------------------------
\* The collector begins and ends its marking, and the helpers wait for it.

\* A helper that does not help moves.
LEMMA HelperKeeps ==
  ASSUME MarkersInv, UNCHANGED <<th, table, gc, menu, heap>>, NEW i \in Helpers, NEW r, Steps(i, r), GoodMarker(r),
         pm.m[i].pc \notin Helping, r.pc \in {"off", "help", "done"},
         r.local = pm.m[i].local, r.found = pm.m[i].found, r.entry = pm.m[i].entry,
         pm'.stack = pm.stack, pm'.invalid = pm.invalid, pm'.first_nonempty = pm.first_nonempty,
         pm'.helper_count = pm.helper_count, pm'.active_count = pm.active_count, pm'.help_wanted = pm.help_wanted
  PROVE  MarkersInv'
<1>1. i \in Markers /\ i # COLLECTOR /\ COLLECTOR \in Markers
  BY MarkThreads DEF Markers
<1>2. /\ pm'.m[i] = r /\ \A j \in Markers \ {i} : pm'.m[j] = pm.m[j]
  BY <1>1, MarkersMove DEF MarkersInv
<1>3. MarkerShape /\ CountInv /\ PlaceInv /\ ScanInv /\ r.pc \notin Helping
  BY DEF MarkersInv, Helping, Busy
<1>4. MarkerShape'
  BY <1>1, <1>3, ShapeKept DEF MarkerShape
<1>5. Together' <=> Together
  BY <1>1, <1>2 DEF Together
<1>6. CountInv'
  <2>1. pm.m[i].pc \notin Busy /\ r.pc \notin Busy
    BY <1>3 DEF Helping
  <2>2. Cardinality(MarkersIn(Helping)') = Cardinality(MarkersIn(Helping))
    BY <1>1, <1>3, CountMoves
  <2>3. Cardinality(MarkersIn(Busy)') = Cardinality(MarkersIn(Busy))
    BY <1>1, <1>3, <2>1, CountMoves
  <2>4. \A j \in Helpers : pm'.m[j].pc \in {"off", "help", "done"} \cup Helping
    BY <1>1, <1>2, <1>3 DEF CountInv, Markers
  <2>5. ~Together => \A j \in Helpers : pm'.m[j].pc \notin Helping
    BY <1>1, <1>2, <1>3 DEF CountInv, Markers
  <2>6. pm'.m[COLLECTOR] = pm.m[COLLECTOR]
    BY <1>1, <1>2
  <2> QED
    BY <1>3, <1>5, <2>2, <2>3, <2>4, <2>5, <2>6 DEF CountInv
<1>7. PlaceInv'
  <2>1. \A n : Below(n) => Below(n)'
    BY DEF Below
  <2>2. \A me : Fits(me) => Fits(me)'
    BY DEF Fits, Below
  <2>3. Fits(r)
    BY <1>3 DEF Fits, Placed, Helping, Busy
  <2>4. ASSUME Together, NEW j \in Markers PROVE Fits(pm.m[j])'
    <3>1. PICK q : q = pm'.m[j]
      OBVIOUS
    <3>2. Fits(q)'
      BY <1>2, <1>3, <2>2, <2>3, <2>4, <3>1 DEF PlaceInv
    <3> QED
      BY <3>1, <3>2 DEF Fits
  <2>5. Together => Below(pm.first_nonempty)'
    BY <1>3, <2>1 DEF PlaceInv, Below
  <2> QED
    BY <1>5, <2>4, <2>5 DEF PlaceInv
<1>8. ScanInv'
  <2>1. CASE gc.phase = "mark"
    BY <1>1, <1>3, <2>1, SameRoots, MovesScan
  <2>2. CASE gc.phase # "mark"
    BY <2>2 DEF ScanInv
  <2> QED
    BY <2>1, <2>2
<1> QED
  BY <1>4, <1>6, <1>7, <1>8 DEF MarkersInv

\* and the steps of the helpers outside marking.
LEMMA HelpKeeps ==
  ASSUME MarkersInv, UNCHANGED <<th, table, gc, menu>>, NEW i \in Helpers, GC_help_marker(i) \/ GC_mark_thread(i)
  PROVE  MarkersInv'
<1>1. i \in Markers
  BY DEF Markers
<1>2. pm.m[i].pc \in {"help", "done"} /\ UNCHANGED heap /\ pm.m[i].pc \notin Helping
  BY DEF GC_help_marker, GC_mark_thread, At, Helping, Busy
<1>3. GoodMarker(pm.m[i]) /\ pm.m[i].pc \notin Owning
  BY <1>1, <1>2, OneMarker DEF Owning
<1>4. ASSUME NEW r, Keeping(pm.m[i], r), r.pc \in {"help", "join"}, r.first = pm.m[i].first, r.top = pm.m[i].top
      PROVE  GoodMarker(r)
  BY <1>2, <1>3, <1>4 DEF GoodMarker, Keeping, Owning
<1>5. PICK no : no = pm.m[i].mark_no
  OBVIOUS
<1>7. CASE GC_mark_thread(i)
  <2>1. PICK n : n = NextMark(no + 1)
    OBVIOUS
  <2>2. PICK r : r = [pm.m[i] EXCEPT !.pc = "help", !.mark_no = n]
    OBVIOUS
  <2>3. pm' = Set(i, r)
    BY <1>5, <1>7, <2>1, <2>2 DEF GC_mark_thread
  <2>4. /\ Steps(i, r) /\ pm'.stack = pm.stack /\ pm'.invalid = pm.invalid /\ pm'.first_nonempty = pm.first_nonempty
        /\ pm'.helper_count = pm.helper_count /\ pm'.active_count = pm.active_count
        /\ pm'.help_wanted = pm.help_wanted
    BY <1>1, <2>3, OneMarker DEF Set, Steps, SharedFields
  <2>5. Keeping(pm.m[i], r) /\ r.pc = "help" /\ r.first = pm.m[i].first /\ r.top = pm.m[i].top
    BY <1>3, <2>2 DEF GoodMarker, Keeping, MarkerFields
  <2>6. GoodMarker(r)
    BY <1>4, <2>5
  <2> QED
    BY <1>2, <2>4, <2>5, <2>6, HelperKeeps DEF Keeping
<1>8. CASE GC_help_marker(i)
  <2>1. CASE pm.mark_no < no \/ (~pm.help_wanted /\ pm.mark_no = no)
    <3>1. pm' = GC_wait_marker(pm, i, "help")
      BY <1>5, <1>8, <2>1 DEF GC_help_marker
    <3>3. PICK r : r = [pm.m[i] EXCEPT !.pc = "help"]
      OBVIOUS
    <3>4. /\ Steps(i, r) /\ pm'.stack = pm.stack /\ pm'.invalid = pm.invalid /\ pm'.first_nonempty = pm.first_nonempty
          /\ pm'.helper_count = pm.helper_count /\ pm'.active_count = pm.active_count
          /\ pm'.help_wanted = pm.help_wanted
      BY <1>1, <3>1, <3>3, OneMarker DEF GC_wait_marker, Steps, SharedFields
    <3>5. Keeping(pm.m[i], r) /\ r.pc = "help" /\ r.first = pm.m[i].first /\ r.top = pm.m[i].top
      BY <1>3, <3>3 DEF GoodMarker, Keeping, MarkerFields
    <3>6. GoodMarker(r)
      BY <1>4, <3>5
    <3> QED
      BY <1>2, <3>4, <3>5, <3>6, HelperKeeps DEF Keeping
  <2>2. CASE ~(pm.mark_no < no \/ (~pm.help_wanted /\ pm.mark_no = no)) /\ (pm.mark_no # no \/ pm.helper_count > pm.markers_m1)
    <3>1. PICK n : n = NextMark(no + 1)
      OBVIOUS
    <3>2. pm' = Set(i, [pm.m[i] EXCEPT !.mark_no = n])
      BY <1>5, <1>8, <2>2, <3>1 DEF GC_help_marker
    <3>4. pm.m[i].pc = "help"
      BY <1>8 DEF GC_help_marker, At
    <3>5. PICK r : r = [pm.m[i] EXCEPT !.mark_no = n]
      OBVIOUS
    <3>6. /\ Steps(i, r) /\ pm'.stack = pm.stack /\ pm'.invalid = pm.invalid /\ pm'.first_nonempty = pm.first_nonempty
          /\ pm'.helper_count = pm.helper_count /\ pm'.active_count = pm.active_count
          /\ pm'.help_wanted = pm.help_wanted
      BY <1>1, <3>2, <3>5, OneMarker DEF Set, Steps, SharedFields
    <3>7. Keeping(pm.m[i], r) /\ r.pc = "help" /\ r.first = pm.m[i].first /\ r.top = pm.m[i].top
      BY <1>3, <3>4, <3>5 DEF GoodMarker, Keeping, MarkerFields
    <3>8. GoodMarker(r)
      BY <1>4, <3>7
    <3> QED
      BY <1>2, <3>6, <3>7, <3>8, HelperKeeps DEF Keeping
  <2>3. CASE ~(pm.mark_no < no \/ (~pm.help_wanted /\ pm.mark_no = no)) /\ ~(pm.mark_no # no \/ pm.helper_count > pm.markers_m1)
    <3>1. pm.help_wanted /\ pm' = Goto([pm EXCEPT !.helper_count = @ + 1], i, "join")
      BY <1>5, <1>8, <2>3 DEF GC_help_marker
    <3>2. AtWork
      BY <3>1 DEF AtWork, MarkersInv, CountInv, Together, Helping, Busy
    <3>4. PICK r : r = [pm.m[i] EXCEPT !.pc = "join"]
      OBVIOUS
    <3>5. /\ Steps(i, r) /\ pm'.stack = pm.stack /\ pm'.invalid = pm.invalid /\ pm'.first_nonempty = pm.first_nonempty
          /\ pm'.helper_count = pm.helper_count + 1 /\ pm'.active_count = pm.active_count
      BY <1>1, <3>1, <3>4, OneMarker DEF Goto, Steps, SharedFields
    <3>6. GoodMarker(r) /\ Keeping(pm.m[i], r) /\ r.pc = "join"
      <4>1. Keeping(pm.m[i], r) /\ r.pc = "join" /\ r.first = pm.m[i].first /\ r.top = pm.m[i].top
        BY <1>3, <3>4 DEF GoodMarker, Keeping, MarkerFields
      <4> QED
        BY <1>4, <4>1
    <3>7. Counted(pm.m[i].pc, r.pc)
      BY <1>2, <3>5, <3>6 DEF Counted, After, Helping, Busy
    <3>8. Fits(r) /\ Below(pm.first_nonempty)
      BY <1>1, <3>2, <3>6, OneMarker DEF Fits, Placed, AtWork
    <3> QED
      BY <1>1, <1>2, <3>2, <3>5, <3>6, <3>7, <3>8, MoveKeeps DEF Keeping
  <2> QED
    BY <2>1, <2>2, <2>3
<1> QED
  BY <1>7, <1>8

\* The collector begins to mark, alone.
LEMMA BeginKeeps ==
  ASSUME MarkersInv, UNCHANGED <<th, table, gc, menu>>, BeginParallelMark
  PROVE  MarkersInv'
<1>1. COLLECTOR \in Markers /\ COLLECTOR \notin Helpers /\ \A j \in Markers : j = COLLECTOR \/ j \in Helpers
  BY MarkThreads DEF Markers
<1>2. pm.m[COLLECTOR].pc = "begin" /\ UNCHANGED heap
  BY DEF BeginParallelMark, At
<1>3. MarkerShape /\ CountInv /\ ScanInv
  BY DEF MarkersInv
<1>4. gc.phase = "mark" /\ ~Together
  BY <1>2, <1>3 DEF CountInv, Together, Helping, Busy
<1>5. \A j \in Helpers : pm.m[j].pc \notin Helping
  BY <1>3, <1>4 DEF CountInv
<1>6. PICK r : r = [pm.m[COLLECTOR] EXCEPT !.pc = "join"]
  OBVIOUS
<1>7. /\ Steps(COLLECTOR, r) /\ pm'.stack = pm.stack /\ pm'.invalid = pm.invalid /\ pm'.first_nonempty = 1
      /\ pm'.helper_count = 1 /\ pm'.active_count = 0
  BY <1>1, <1>6, OneMarker DEF BeginParallelMark, GC_notify_all_marker, Goto, Steps, SharedFields
<1>8. Keeping(pm.m[COLLECTOR], r) /\ r.pc = "join" /\ r.first = pm.m[COLLECTOR].first /\ r.top = pm.m[COLLECTOR].top
  BY <1>1, <1>6, OneMarker DEF GoodMarker, Keeping, MarkerFields
<1>9. GoodMarker(r)
  BY <1>1, <1>2, <1>8, OneMarker DEF GoodMarker, Keeping, Owning
<1>10. /\ pm'.m[COLLECTOR] = r /\ \A j \in Helpers : pm'.m[j] = pm.m[j]
  <2>1. pm'.m[COLLECTOR] = r /\ \A j \in Markers \ {COLLECTOR} : pm'.m[j] = pm.m[j]
    BY <1>1, <1>3, <1>7, MarkersMove
  <2> QED
    BY <1>1, <2>1 DEF Markers
<1>11. MarkerShape'
  BY <1>1, <1>3, <1>7, <1>9, ShapeKept DEF MarkerShape
<1>12. Together'
  BY <1>8, <1>10 DEF Together, Helping
<1>13. CountInv'
  <2>1. MarkersIn(Helping)' = {COLLECTOR}
    BY <1>1, <1>5, <1>8, <1>10 DEF MarkersIn, Helping
  <2>2. MarkersIn(Busy)' = {}
    BY <1>1, <1>5, <1>8, <1>10 DEF MarkersIn, Helping, Busy
  <2>3. pm'.helper_count = Cardinality(MarkersIn(Helping)') /\ pm'.active_count = Cardinality(MarkersIn(Busy)')
    BY <1>7, <2>1, <2>2, FS_EmptySet, FS_Singleton
  <2>4. MarkersIn(Helping)' = {j \in Markers : pm'.m[j].pc \in Helping} /\ MarkersIn(Busy)' = {j \in Markers : pm'.m[j].pc \in Busy}
    BY DEF MarkersIn
  <2>5. \A j \in Helpers : pm'.m[j].pc \in {"off", "help", "done"} \cup Helping
    BY <1>3, <1>10 DEF CountInv
  <2>6. pm'.m[COLLECTOR].pc \in Helping
    BY <1>8, <1>10 DEF Helping
  <2> QED
    BY <1>4, <1>12, <2>3, <2>5, <2>6 DEF CountInv
<1>14. PlaceInv'
  <2>1. Below(1)'
    <3>1. Len(pm.stack) \in Nat
      BY <1>3 DEF MarkerShape
    <3> QED
      BY <1>7, <3>1 DEF Below
  <2>2. Below(pm.first_nonempty)'
    BY <1>7, <2>1 DEF Below
  <2>3. ASSUME NEW j \in Markers PROVE Fits(pm.m[j])'
    <3>1. pm'.m[j].pc \notin Placed
      BY <1>1, <1>5, <1>8, <1>10 DEF Placed, Busy
    <3> QED
      BY <3>1 DEF Fits, Placed, Helping, Busy
  <2> QED
    BY <2>2, <2>3 DEF PlaceInv
<1>15. ScanInv'
  <2>1. COLLECTOR = COLLECTOR /\ r.pc \in {"done", "marked"} => pm.m[COLLECTOR].pc \in {"done", "marked"}
    BY <1>8
  <2> QED
    BY <1>1, <1>2, <1>3, <1>4, <1>7, <1>8, <2>1, SameRoots, MovesScan DEF Keeping
<1> QED
  BY <1>11, <1>13, <1>14, <1>15 DEF MarkersInv

\* The collector waits until nobody helps any more.
LEMMA EndKeeps ==
  ASSUME MarkersInv, UNCHANGED <<th, table, gc, menu>>, EndParallelMark
  PROVE  MarkersInv'
<1>1. COLLECTOR \in Markers /\ COLLECTOR \notin Helpers /\ \A j \in Markers : j = COLLECTOR \/ j \in Helpers
  BY MarkThreads DEF Markers
<1>2. pm.m[COLLECTOR].pc = "done" /\ UNCHANGED heap
  BY DEF EndParallelMark, At
<1>3. MarkerShape /\ CountInv /\ PlaceInv /\ ScanInv
  BY DEF MarkersInv
<1>4. AtWork
  BY <1>2, <1>3 DEF AtWork, CountInv, Together
<1>5. PICK me : me = pm.m[COLLECTOR]
  OBVIOUS
<1>6. GoodMarker(me) /\ me.pc = "done" /\ Below(pm.first_nonempty)
  BY <1>1, <1>2, <1>4, <1>5, OneMarker DEF AtWork
<1>7. Pending = {} /\ AllFound = {}
  BY <1>2, <1>3, <1>4 DEF ScanInv, AtWork
<1>8. CASE pm.helper_count > 0
  <2>1. PICK r : r = [me EXCEPT !.pc = "done"]
    OBVIOUS
  <2>2. /\ Steps(COLLECTOR, r) /\ pm'.stack = pm.stack /\ pm'.invalid = pm.invalid /\ pm'.first_nonempty = pm.first_nonempty
        /\ pm'.helper_count = pm.helper_count /\ pm'.active_count = pm.active_count
    BY <1>1, <1>5, <1>8, <2>1, OneMarker DEF EndParallelMark, GC_wait_marker, Steps, SharedFields
  <2>3. Keeping(me, r) /\ r.pc = "done" /\ r.first = me.first /\ r.top = me.top
    BY <1>6, <2>1 DEF GoodMarker, Keeping, MarkerFields
  <2>4. GoodMarker(r) /\ Fits(r)
    BY <1>6, <2>3 DEF GoodMarker, Keeping, Owning, Fits, Placed, Helping, Busy
  <2>5. Counted(pm.m[COLLECTOR].pc, r.pc)
    BY <1>2, <2>2, <2>3 DEF Counted, After, Helping, Busy
  <2> QED
    BY <1>1, <1>2, <1>4, <1>5, <1>6, <1>7, <2>2, <2>3, <2>4, <2>5, MoveKeeps DEF Keeping
<1>9. CASE ~(pm.helper_count > 0)
  <2>1. PICK r : r = [me EXCEPT !.pc = "marked"]
    OBVIOUS
  <2>2. /\ Steps(COLLECTOR, r) /\ pm'.stack = pm.stack /\ pm'.invalid = pm.invalid /\ pm'.first_nonempty = pm.first_nonempty
        /\ ~pm'.help_wanted
    BY <1>1, <1>5, <1>9, <2>1, OneMarker DEF EndParallelMark, GC_notify_all_marker, Goto, Steps, SharedFields
  <2>3. Keeping(me, r) /\ r.pc = "marked" /\ r.first = me.first /\ r.top = me.top
    BY <1>6, <2>1 DEF GoodMarker, Keeping, MarkerFields
  <2>4. GoodMarker(r)
    BY <1>6, <2>3 DEF GoodMarker, Keeping, Owning
  <2>5. /\ pm'.m[COLLECTOR] = r /\ \A j \in Helpers : pm'.m[j] = pm.m[j]
    <3>1. pm'.m[COLLECTOR] = r /\ \A j \in Markers \ {COLLECTOR} : pm'.m[j] = pm.m[j]
      BY <1>1, <1>3, <2>2, MarkersMove
    <3> QED
      BY <1>1, <3>1 DEF Markers
  <2>6. MarkerShape'
    BY <1>1, <1>3, <2>2, <2>4, ShapeKept DEF MarkerShape
  <2>7. ~Together'
    BY <2>3, <2>5 DEF Together, Helping, Busy
  <2>8. \A j \in Helpers : pm.m[j].pc \notin Helping
    <3>1. pm.helper_count = Cardinality(MarkersIn(Helping))
      BY <1>3, <1>4 DEF CountInv, AtWork
    <3>2. IsFiniteSet(MarkersIn(Helping))
      <4>1. IsFiniteSet(Markers)
        BY MarkThreads, FS_AddElement, FS_EmptySet, FS_Union, FS_Singleton DEF Markers
      <4>2. MarkersIn(Helping) \subseteq Markers
        BY DEF MarkersIn
      <4> QED
        BY <4>1, <4>2, FS_Subset
    <3>3. Cardinality(MarkersIn(Helping)) = 0
      BY <1>9, <3>1, <3>2, FS_CardinalityType
    <3>4. MarkersIn(Helping) = {}
      BY <3>2, <3>3, FS_EmptySet
    <3> QED
      BY <1>1, <3>4 DEF MarkersIn, Markers
  <2>9. CountInv'
    <3>1. \A j \in Helpers : pm'.m[j].pc \in {"off", "help", "done"} \cup Helping
      BY <1>3, <2>5 DEF CountInv
    <3>2. \A j \in Helpers : pm'.m[j].pc \notin Helping
      BY <2>5, <2>8
    <3>3. gc'.phase = "mark" /\ pm'.m[COLLECTOR].pc = "marked"
      BY <1>4, <2>3, <2>5 DEF AtWork
    <3> QED
      BY <2>2, <2>7, <3>1, <3>2, <3>3 DEF CountInv
  <2>10. PlaceInv'
    BY <2>7 DEF PlaceInv
  <2>11. ScanInv'
    BY <1>1, <1>2, <1>3, <1>4, <1>5, <1>7, <2>2, <2>3, SameRoots, MovesScan DEF Keeping, AtWork
  <2> QED
    BY <2>6, <2>9, <2>10, <2>11 DEF MarkersInv
<1> QED
  BY <1>8, <1>9

\* Everything that the markers do.
LEMMA MarkerKeeps ==
  ASSUME MarkersInv, ObjectInv, menu \in Menus, UNCHANGED <<th, table, gc, menu>>, NEW i \in Markers, MarkerStep(i)
  PROVE  MarkersInv'
BY MarkLocalKeeps, HelpKeeps, BeginKeeps, EndKeeps DEF MarkerStep

-----------------------------------------------------------------------------
\* What the collector and the markers do to the objects.

\* A marker marks objects.
LEMMA MarkerObjects ==
  ASSUME ObjectInv, MarkersInv, NEW i \in Markers, Marking(i), UNCHANGED menu
  PROVE  ObjectInv'
<1>1. UNCHANGED <<th, table>>
  BY DEF Marking
<1>2. ThreadsFrom /\ TableFrom
  BY <1>1, SameThreads, SameEntries
<1>3. CASE Push(i)
  <2>1. PICK found : found = pm.m[i].found
    OBVIOUS
  <2>2. heap' = [heap EXCEPT !.marked = @ \cup found]
    BY <1>3, <2>1 DEF Push
  <2>3. found \in SUBSET Objects
    BY <2>1, OneMarker DEF GoodMarker
  <2>4. heap.marked \cup found \in SUBSET Objects
    BY <2>3 DEF ObjectInv, HeapInv
  <2>5. HeapFrom
    BY <2>2, <2>4, NewMarks
  <2> QED
    BY <1>2, <2>5, ObjectStep
<1>4. CASE ~Push(i)
  <2>1. MarkerStep(i)
    BY DEF Marking
  <2>2. UNCHANGED heap
    BY <1>4, <2>1, Zenon
       DEF MarkerStep, GC_mark_local, Join, LookAtFirst, RaiseFirst, LookAtTop, BecomeIdle, WakeUp, ReadEntry, ClearEntry,
           Scan, GC_return_mark_stack, BeginParallelMark, EndParallelMark, GC_help_marker, GC_mark_thread
  <2> QED
    BY <1>2, <2>2, SameHeap, ObjectStep
<1> QED
  BY <1>3, <1>4

\* What the collector starts from are objects.
LEMMA RootsAreObjects ==
  ASSUME ObjectInv, gc.by \in Threads
  PROVE  /\ Roots \in SUBSET Objects /\ ListMarks \in SUBSET Blank
         /\ Reached(heap.points, Roots) \in SUBSET Objects \/ menu \notin Menus
<1>1. Stack(gc.by) \in SUBSET Objects
  BY DEF Stack, ObjectInv, Carries, MaybeObject
<1>2. \A k \in Unfinished(table) : OnStack(k) \in SUBSET Objects /\ table[k].tlfs.list \in SUBSET Blank
  BY <1>1 DEF OnStack, ObjectInv, Keeps, Unfinished
<1>3. \A k \in DOMAIN table : table[k].status \in MaybeObject
  BY DEF ObjectInv, Keeps
<1>4. Roots \in SUBSET Objects
  BY <1>2, <1>3 DEF Roots, MaybeObject
<1>5. ListMarks \in SUBSET Blank
  BY <1>2 DEF ListMarks
<1>6. ASSUME menu \in Menus PROVE Reached(heap.points, Roots) \in SUBSET Objects
  <2>1. Roots \subseteq Objects /\ \A o \in Objects : heap.points[o] \subseteq Objects
    BY <1>4 DEF ObjectInv, HeapInv
  <2>2. PICK points, from : points = heap.points /\ from = Roots
    OBVIOUS
  <2>3. from \subseteq Objects /\ \A o \in Objects : points[o] \subseteq Objects
    BY <2>1, <2>2
  <2>4. Reached(points, from) \subseteq Objects
    BY <1>6, <2>3, ReachedWithin
  <2> QED
    BY <2>2, <2>4
<1> QED
  BY <1>4, <1>5, <1>6

\* A collection marks objects, and leaves blocks to sweep.
LEMMA CollectorObjects ==
  ASSUME WorldInv, ObjectInv, Collecting, UNCHANGED menu
  PROVE  ObjectInv'
<1>1. gc.by \in Threads /\ menu \in Menus /\ ShapeInv
  BY DEF Collecting, WorldInv, LockInv, ShapeInv
<1>2. ASSUME UNCHANGED <<th, table>>, NEW marked \in SUBSET Objects, heap' = [heap EXCEPT !.marked = marked]
      PROVE  ObjectInv'
  BY <1>2, SameThreads, SameEntries, NewMarks, ObjectStep
<1>3. ASSUME UNCHANGED <<th, table, heap>> PROVE ObjectInv'
  BY <1>3, SameThreads, SameEntries, SameHeap, ObjectStep
<1>4. CASE WaitBeforeMarking \/ GC_stop_world \/ StartWorld
  <2>1. UNCHANGED <<th, table, heap>>
    BY <1>4, Zenon DEF WaitBeforeMarking, GC_stop_world, StartWorld
  <2> QED
    BY <1>3, <2>1
<1>5. CASE GC_clear_marks
  BY <1>2, <1>5 DEF GC_clear_marks
<1>6. CASE Mark
  <2>1. UNCHANGED <<th, table>>
    BY <1>6 DEF Mark
  <2>2. Blank \in SUBSET Objects
    BY DEF Blank
  <2>3. Roots \cup ListMarks \in SUBSET Objects /\ Reached(heap.points, Roots) \cup ListMarks \in SUBSET Objects
    BY <1>1, <2>2, RootsAreObjects
  <2>4. \/ UNCHANGED heap
        \/ heap' = [heap EXCEPT !.marked = Roots \cup ListMarks]
        \/ heap' = [heap EXCEPT !.marked = Reached(heap.points, Roots) \cup ListMarks]
    BY <1>6 DEF Mark
  <2>5. PICK roots, reached : roots = Roots \cup ListMarks /\ reached = Reached(heap.points, Roots) \cup ListMarks
    OBVIOUS
  <2> QED
    BY <1>2, <1>3, <2>1, <2>3, <2>4, <2>5
<1>7. CASE AfterParallelMark
  <2>1. UNCHANGED <<th, table>>
    BY <1>7 DEF AfterParallelMark
  <2>2. PICK again : again = UNION {Unmarked(o) : o \in heap.marked}
    OBVIOUS
  <2>3. heap.marked \cup again \in SUBSET Objects
    BY <2>2 DEF Unmarked, ObjectInv, HeapInv
  <2>4. UNCHANGED heap \/ heap' = [heap EXCEPT !.marked = @ \cup again]
    BY <1>7, <2>2 DEF AfterParallelMark
  <2> QED
    BY <1>2, <1>3, <2>1, <2>3, <2>4
<1>8. CASE GC_finish_collection
  <2>1. UNCHANGED table
    BY <1>8 DEF GC_finish_collection
  <2>2. ThreadsFrom
    <3>1. gc.then \in {"run", "core_again", "many_again", "start_again"}
      BY DEF Collecting, WorldInv, LockInv
    <3>2. PICK t, pc : t = gc.by /\ pc = gc.then
      OBVIOUS
    <3>3. Became(t, With(t, pc))
      BY <1>8, <3>2 DEF GC_finish_collection
    <3> QED
      BY <1>1, <3>1, <3>2, <3>3, OneGoes
  <2>3. /\ DOMAIN heap' = HeapFields /\ heap'.free = {} /\ heap'.reclaimable = Reclaimable(heap.marked)
        /\ heap'.marked = heap.marked /\ heap'.points = heap.points
    BY <1>8 DEF GC_finish_collection, ObjectInv, HeapInv, HeapFields
  <2>4. HeapFrom
    BY <2>3 DEF HeapFrom, HeapInv, ObjectInv, Objects, Blank, Reclaimable
  <2> QED
    BY <2>1, <2>2, <2>4, SameEntries, ObjectStep
<1> QED
  BY <1>4, <1>5, <1>6, <1>7, <1>8 DEF Collecting

\* At the start every thread carries what the menu says.
LEMMA ObjectsBegin ==
  ASSUME Init
  PROVE  ObjectInv
<1>1. menu \in Menus
  BY DEF Init
<1>2. /\ Objects \in SUBSET Nat /\ menu.points \in [Objects -> SUBSET Objects] /\ menu.held \in SUBSET Objects
  BY <1>1, ObjectFacts
<1>3. Reached(menu.points, menu.held) \in SUBSET Objects
  <2>1. PICK points, from : points = menu.points /\ from = menu.held
    OBVIOUS
  <2>2. from \subseteq Objects /\ \A o \in Objects : points[o] \subseteq Objects
    BY <1>2, <2>1
  <2>3. Reached(points, from) \subseteq Objects
    BY <1>1, <2>2, ReachedWithin
  <2> QED
    BY <2>1, <2>3
<1>4. HeapInv
  <2>1. PICK marked : marked = Reached(menu.points, menu.held)
    OBVIOUS
  <2>2. heap = [free |-> {}, reclaimable |-> Reclaimable(marked), marked |-> marked, points |-> menu.points]
    BY <2>1 DEF Init
  <2> QED
    BY <1>2, <1>3, <2>1, <2>2 DEF HeapInv, HeapFields, Reclaimable
<1>5. ASSUME NEW t \in Threads PROVE Carries(th[t])
  <2>1. PICK pc : th[t] = [Thread(pc, t) EXCEPT !.held = IF t = "Main" THEN menu.held ELSE {}]
    BY DEF Init
  <2>2. /\ th[t].held \in {menu.held, {}} /\ th[t].saved = {} /\ th[t].build = {}
        /\ th[t].obj = NULL /\ th[t].result = NULL /\ th[t].pc = pc
    BY <2>1 DEF Thread
  <2>3. pc \in {"run", menu.at, "gone"}
    <3>1. th[t] = [Thread(IF t \in ToSet(menu.registered) THEN "run" ELSE IF t \in menu.others THEN menu.at ELSE "gone", t)
                     EXCEPT !.held = IF t = "Main" THEN menu.held ELSE {}]
      BY DEF Init
    <3>2. th[t].pc = IF t \in ToSet(menu.registered) THEN "run" ELSE IF t \in menu.others THEN menu.at ELSE "gone"
      BY <3>1 DEF Thread
    <3> QED
      BY <2>2, <3>2
  <2>4. pc # "take"
    BY <1>1, <2>3, Programs
  <2> QED
    BY <1>2, <2>2, <2>4 DEF Carries, MaybeObject
<1>6. ASSUME NEW k \in DOMAIN table PROVE Keeps(table[k])
  <2>1. table = InitTable(menu)
    BY DEF Init
  <2>2. table[k] = [Entry(menu.registered[k], menu.registered[k]) EXCEPT
                      !.flags = IF menu.registered[k] = "Main" THEN {DETACHED, MAIN_THREAD} ELSE {}]
    BY <2>1 DEF InitTable
  <2>3. PICK of, id, flags : table[k] = [Entry(of, id) EXCEPT !.flags = flags]
    BY <2>2
  <2>4. table[k].stack = {} /\ table[k].status = NULL /\ table[k].tlfs = [counting |-> FALSE, list |-> {}]
    BY <2>3 DEF Entry
  <2> QED
    BY <2>4 DEF Keeps, MaybeObject
<1> QED
  BY <1>4, <1>5, <1>6 DEF ObjectInv

-----------------------------------------------------------------------------
\* While the world is stopped the program changes nothing that the markers see.

\* The collector starts from the same objects.
LEMMA RootsStay ==
  ASSUME UNCHANGED gc, th'[gc.by] = th[gc.by], DOMAIN table' = DOMAIN table,
         \A k \in DOMAIN table :
           /\ table'[k].id = table[k].id /\ table'[k].flags = table[k].flags
           /\ table'[k].stack = table[k].stack /\ table'[k].status = table[k].status
  PROVE  Roots' = Roots
<1>1. Unfinished(table)' = Unfinished(table) /\ \A k \in Unfinished(table) : k \in DOMAIN table
  BY DEF Unfinished
<1>2. Stack(gc.by)' = Stack(gc.by)
  BY DEF Stack
<1>3. \A k \in Unfinished(table) : OnStack(k)' = OnStack(k)
  BY <1>1, <1>2 DEF OnStack
<1>4. {OnStack(k) : k \in Unfinished(table)}' = {OnStack(k) : k \in Unfinished(table)}
  BY <1>1, <1>3
<1>5. {table[k].status : k \in DOMAIN table}' = {table[k].status : k \in DOMAIN table}
  OBVIOUS
<1> QED
  BY <1>4, <1>5 DEF Roots

\* No known thread but a blocked one runs then.
LEMMA NobodyRuns ==
  ASSUME WorldInv, gc.phase \in {"mark", "start"}, NEW t \in Threads, CanRun(t)
  PROVE  (th[t].pc \notin Plain /\ lock \notin {NULL, t}) \/ (t = gc.by /\ th[t].pc = "collect")
<1>1. gc.by \in Threads /\ lock = gc.by /\ th[gc.by].pc = "collect"
  BY DEF WorldInv, LockInv
<1>2. CASE t = gc.by
  BY <1>1, <1>2
<1>3. CASE t # gc.by
  <2>1. SUFFICES ASSUME th[t].pc \in Plain PROVE FALSE
    BY <1>1, <1>3, Nobody
  <2>2. Known(t) /\ Alive(t) /\ th[t].pc # "blocked"
    BY <2>1, KnownIsAlive DEF Known, Plain
  <2>3. PICK k \in Index : Owner(k) = t
    BY <2>2 DEF WorldInv, TableInv
  <2>4. table[k].id # th[gc.by].id
    <3>1. Alive(gc.by)
      BY <1>1 DEF Alive
    <3> QED
      BY <1>1, <1>3, <2>2, <2>3, <3>1 DEF WorldInv, TableInv
  <2>5. k \in Others
    BY <2>2, <2>3, <2>4 DEF WorldInv, TableInv, Others, Unfinished, Index
  <2>6. Answered(t)
    BY <2>3, <2>5 DEF WorldInv, AnswerInv
  <2> QED
    BY <2>6 DEF Answered, CanRun, InHandler
<1> QED
  BY <1>2, <1>3

\* Threads that the collector does not know can still end or come.
LEMMA OnlyEnds ==
  ASSUME WorldInv, gc.phase \in {"mark", "start"}, NEW t \in Threads, Program(t)
  PROVE  EndThread(t) \/ Appear(t)
<1>1. SUFFICES ASSUME ~EndThread(t), ~Appear(t) PROVE FALSE
  OBVIOUS
<1>2. ASSUME NEW pc, In(t, pc), pc \in Plain PROVE FALSE
  <2>1. CanRun(t) /\ th[t].pc = pc
    BY <1>2 DEF In
  <2> QED
    BY <1>2, <2>1, NobodyRuns DEF Plain
<1>3. ASSUME NEW pc, In(t, pc), lock \in {NULL, t}, pc # "collect" PROVE FALSE
  <2>1. CanRun(t) /\ th[t].pc = pc
    BY <1>3 DEF In
  <2> QED
    BY <1>3, <2>1, NobodyRuns
<1>4. ~(Allocating(t) \/ Building(t) \/ Forget(t) \/ GC_gcollect(t))
  <2>1. ~(GC_malloc(t) \/ TakeHead(t) \/ TakeFilled(t) \/ Forget(t) \/ GC_gcollect(t))
    BY <1>2 DEF GC_malloc, TakeHead, TakeFilled, Forget, GC_gcollect, Plain
  <2>2. ~(GC_core_malloc(t) \/ GC_generic_malloc_many(t))
    BY <1>2 DEF GC_core_malloc, GC_generic_malloc_many, Plain
  <2>3. ~Building(t)
    BY <1>2 DEF Building, JoinBuilders, SweepBlock, StoreList, LeaveBuilders, Plain
  <2> QED
    BY <2>1, <2>2, <2>3 DEF Allocating
<1>5. ~(GC_pthread_create(t) \/ Registered(t) \/ Return(t) \/ GC_thread_exit_proc(t) \/ GC_unregister_my_thread(t))
  BY <1>2, Zenon DEF GC_pthread_create, Registered, Return, GC_thread_exit_proc, GC_unregister_my_thread, Plain
<1>6. ~(GC_start_rtn_prepare_thread(t) \/ HasCollected(t) \/ GC_register_my_thread(t))
  <2>1. ASSUME GC_start_rtn_prepare_thread(t) PROVE FALSE
    <3>1. In(t, "start") /\ lock = NULL
      BY <2>1, Zenon DEF GC_start_rtn_prepare_thread
    <3> QED
      BY <1>3, <3>1
  <2>2. ASSUME HasCollected(t) PROVE FALSE
    <3>1. In(t, "start_again")
      BY <2>2 DEF HasCollected
    <3>2. lock = t
      BY <3>1 DEF In, WorldInv, LockInv, Locking
    <3> QED
      BY <1>3, <3>1, <3>2
  <2>3. ASSUME GC_register_my_thread(t) PROVE FALSE
    <3>1. (In(t, "register") \/ In(t, "ending")) /\ lock = NULL
      BY <2>3, Zenon DEF GC_register_my_thread
    <3> QED
      BY <1>3, <3>1
  <2> QED
    BY <2>1, <2>2, <2>3
<1>7. ~(GC_pthread_join(t) \/ GC_pthread_detach(t))
  <2>1. ASSUME GC_pthread_join(t) \/ GC_pthread_detach(t) PROVE FALSE
    <3>1. In(t, "run") \/ In(t, "join") \/ In(t, "joined") \/ In(t, "detach") \/ In(t, "detached")
      BY <2>1, Zenon DEF GC_pthread_join, GC_pthread_detach, LookUp
    <3> QED
      BY <1>2, <3>1 DEF Plain
  <2> QED
    BY <2>1
<1>8. ~(GC_do_blocking(t) \/ EndBlocking(t) \/ GC_call_with_gc_active(t))
  BY <1>2, <1>3 DEF GC_do_blocking, EndBlocking, GC_call_with_gc_active, Plain
<1>9. ~Fork(t)
  BY <1>2 DEF Fork, PrepareFork, fork_prepare_proc, fork_parent_proc, fork_child_proc, Plain
<1> QED
  BY <1>1, <1>4, <1>5, <1>6, <1>7, <1>8, <1>9 DEF Program, Living

\* While the world is stopped the program changes nothing that the markers see.
LEMMA Frozen ==
  ASSUME WorldInv, gc.phase \in {"mark", "start"}, NEW t \in Threads, Signal(t) \/ UserSignal(t) \/ Program(t)
  PROVE  UNCHANGED <<heap, pm, gc>> /\ Roots' = Roots
<1>1. CASE Program(t)
  <2>1. EndThread(t) \/ Appear(t)
    BY <1>1, OnlyEnds
  <2>2. UNCHANGED <<heap, pm, gc, table>> /\ th[t].pc \in {"ending", "outside"} /\ \E r : Became(t, r)
    BY <2>1 DEF EndThread, Appear, In
  <2>3. t # gc.by
    BY <2>2 DEF WorldInv, LockInv
  <2>4. th'[gc.by] = th[gc.by]
    BY <2>2, <2>3 DEF Became, WorldInv, ShapeInv, LockInv
  <2> QED
    BY <2>2, <2>4, RootsStay
<1>2. CASE Signal(t) \/ UserSignal(t)
  <2>1. UNCHANGED <<th, gc, heap, pm>>
    BY <1>2, Zenon DEF Signal, UserSignal
  <2>2. CASE UNCHANGED table
    BY <2>1, <2>2, SameRoots
  <2>3. CASE NoteStop(t)
    <3>1. PICK k, n : table' = [table EXCEPT ![k].last_stop_count = n]
      BY <2>3 DEF NoteStop
    <3>2. DOMAIN table' = DOMAIN table /\ \A j \in DOMAIN table : DOMAIN table[j] = EntryFields
      BY <3>1 DEF WorldInv, ShapeInv, Index
    <3>3. ASSUME NEW j \in DOMAIN table
          PROVE  /\ table'[j].id = table[j].id /\ table'[j].flags = table[j].flags
                 /\ table'[j].stack = table[j].stack /\ table'[j].status = table[j].status
      <4>1. CASE j = k
        <5>1. table'[j] = [table[j] EXCEPT !.last_stop_count = n]
          BY <3>1, <3>2, <4>1 DEF WorldInv, ShapeInv
        <5> QED
          BY <3>2, <5>1 DEF EntryFields
      <4>2. CASE j # k
        <5>1. table'[j] = table[j]
          BY <3>1, <3>2, <4>2 DEF WorldInv, ShapeInv
        <5> QED
          BY <5>1
      <4> QED
        BY <4>1, <4>2
    <3> QED
      BY <2>1, <3>2, <3>3, RootsStay
  <2>4. ~Answer(t)
    BY DEF Answer, InHandler, WorldInv, SignalInv
  <2>5. UNCHANGED table \/ NoteStop(t)
    BY <1>2, <2>4, Zenon
       DEF Signal, UserSignal, GC_suspend_handler, EnterHandler, Restarted, Disturbed, Woken, GC_restart_handler
  <2> QED
    BY <2>1, <2>2, <2>3, <2>5
<1> QED
  BY <1>1, <1>2

-----------------------------------------------------------------------------
\* The other steps and the markers.

\* The markers are where they were.
LEMMA SameMarkers ==
  ASSUME MarkerShape, PlaceInv, UNCHANGED <<pm, menu>>
  PROVE  MarkerShape' /\ PlaceInv'
<1>1. Objects' = Objects /\ MaybeObject' = MaybeObject
  BY DEF Objects, MaybeObject
<1>2. \A q : GoodMarker(q) => GoodMarker(q)'
  BY <1>1 DEF GoodMarker
<1>3. \A q : Fits(q) => Fits(q)'
  BY DEF Fits, Below
<1>4. ASSUME NEW j \in Markers
      PROVE  GoodMarker(pm.m[j])' /\ (Together => Fits(pm.m[j])')
  <2>1. PICK q : q = pm.m[j]
    OBVIOUS
  <2>2. GoodMarker(q)' /\ (Together => Fits(q)')
    BY <1>2, <1>3, <2>1 DEF MarkerShape, PlaceInv
  <2> QED
    BY <2>1, <2>2 DEF GoodMarker, Fits
<1>5. MarkerShape'
  BY <1>1, <1>4 DEF MarkerShape
<1>6. PlaceInv'
  <2>1. Together' <=> Together
    BY DEF Together
  <2>2. Together => Below(pm.first_nonempty)'
    BY DEF PlaceInv, Below
  <2> QED
    BY <1>4, <2>1, <2>2 DEF PlaceInv
<1> QED
  BY <1>5, <1>6

\* Nobody marks.
LEMMA QuietKeeps ==
  ASSUME MarkersInv, UNCHANGED <<pm, menu>>, gc.phase # "mark", gc'.phase # "mark"
  PROVE  MarkersInv'
<1>1. MarkerShape' /\ PlaceInv'
  BY SameMarkers DEF MarkersInv
<1>2. CountInv'
  BY DEF MarkersInv, CountInv, Together, MarkersIn
<1>3. ScanInv'
  BY DEF ScanInv
<1> QED
  BY <1>1, <1>2, <1>3 DEF MarkersInv

\* Another thread makes a step while the markers work.
LEMMA StillKeeps ==
  ASSUME MarkersInv, UNCHANGED <<pm, heap, gc, menu>>, Roots' = Roots
  PROVE  MarkersInv'
<1>1. MarkerShape' /\ PlaceInv'
  BY SameMarkers DEF MarkersInv
<1>2. CountInv'
  BY DEF MarkersInv, CountInv, Together, MarkersIn
<1>3. Pending' = Pending /\ AllFound' = AllFound
  BY DEF Pending, AllFound
<1>4. ScanInv'
  BY <1>3 DEF MarkersInv, ScanInv
<1> QED
  BY <1>1, <1>2, <1>4 DEF MarkersInv

\* What a set leads to does not depend on the time.
LEMMA ReachedStays ==
  ASSUME UNCHANGED menu, NEW points, NEW from
  PROVE  Reached(points, from)' = Reached(points, from)
BY DEF Reached, Objects

\* Nothing that is marked or leads to what is marked changes.
LEMMA StillComplete ==
  ASSUME MarkingIsComplete, UNCHANGED <<heap, menu>>, Roots' = Roots, gc'.phase = gc.phase
  PROVE  MarkingIsComplete'
<1>1. PICK points, from : points = heap.points /\ from = Roots
  OBVIOUS
<1>2. Reached(points, from)' = Reached(points, from)
  BY ReachedStays
<1>3. Reached(heap.points, Roots)' = Reached(points, from)'
  BY <1>1 DEF Reached, Objects
<1> QED
  BY <1>1, <1>2, <1>3 DEF MarkingIsComplete

\* A process with no markers but the collector, which does not mark.
LEMMA NoMarkers ==
  ASSUME MarkersInv, gc.phase # "mark", UNCHANGED <<gc, menu>>,
         pm' = [pm EXCEPT !.parallel = FALSE, !.m = [i \in Markers |-> Marker("off")], !.asleep = {}]
  PROVE  MarkersInv'
<1>1. COLLECTOR \in Markers /\ Helpers \subseteq Markers
  BY DEF Markers
<1>2. ~pm.help_wanted
  BY DEF MarkersInv, CountInv, Together, Helping, Busy
<1>3. /\ DOMAIN pm' = SharedFields /\ pm'.m = [i \in Markers |-> Marker("off")]
      /\ pm'.stack = pm.stack /\ pm'.first_nonempty = pm.first_nonempty /\ pm'.help_wanted = pm.help_wanted
  BY DEF MarkersInv, MarkerShape, SharedFields
<1>4. Objects' = Objects /\ MaybeObject' = MaybeObject
  BY DEF Objects, MaybeObject
<1>5. PICK off : off = Marker("off")
  OBVIOUS
<1>6. GoodMarker(off)' /\ off.pc = "off"
  BY <1>4, <1>5 DEF GoodMarker, Marker, MarkerFields, Owning, MaybeObject, TAKEN
<1>7. \A j \in Markers : pm'.m[j] = off
  BY <1>3, <1>5
<1>8. MarkerShape'
  <2>1. ASSUME NEW j \in Markers PROVE GoodMarker(pm.m[j])'
    BY <1>6, <1>7 DEF GoodMarker
  <2> QED
    BY <1>3, <1>4, <2>1 DEF MarkersInv, MarkerShape
<1>9. ~Together'
  BY <1>1, <1>6, <1>7 DEF Together, Helping, Busy
<1>10. CountInv'
  BY <1>1, <1>2, <1>3, <1>6, <1>7, <1>9 DEF CountInv, Helping, Busy
<1> QED
  BY <1>8, <1>9, <1>10 DEF MarkersInv, PlaceInv, ScanInv

\* The mark stack is filled, or marked to be filled again.
LEMMA FilledKeeps ==
  ASSUME menu \in Menus, UNCHANGED menu, gc'.phase = "mark",
         NEW p, DOMAIN p = SharedFields, DOMAIN p.m = Markers, p.first_nonempty \in Nat \ {0}, ~p.help_wanted,
         \A j \in Markers : GoodMarker(p.m[j]),
         p.m[COLLECTOR].pc = "off", \A j \in Helpers : p.m[j].pc \in {"off", "help", "done"},
         NEW entries \in SUBSET Objects, pm' = Filled(p, entries),
         Roots' \subseteq heap'.marked, \A o \in heap'.marked \ entries : heap'.points[o] \subseteq heap'.marked
  PROVE  MarkersInv'
<1>1. COLLECTOR \in Markers /\ COLLECTOR \notin Helpers /\ \A j \in Markers : j = COLLECTOR \/ j \in Helpers
  BY MarkThreads DEF Markers
<1>2. PICK stack, invalid, pc :
        /\ pm' = Goto([p EXCEPT !.stack = stack, !.invalid = invalid], COLLECTOR, pc)
        /\ \/ stack = <<>> /\ invalid = TRUE /\ pc = "marked"
           \/ stack = SetToSeq(entries) /\ invalid = FALSE /\ pc = "begin"
  BY Zenon DEF Filled
<1>3. /\ DOMAIN pm' = SharedFields /\ pm'.first_nonempty = p.first_nonempty /\ pm'.help_wanted = p.help_wanted
      /\ pm'.stack = stack /\ pm'.invalid = invalid /\ pm'.m = [p.m EXCEPT ![COLLECTOR].pc = pc]
  BY <1>2 DEF Goto, SharedFields
<1>4. PICK r : r = [p.m[COLLECTOR] EXCEPT !.pc = pc]
  OBVIOUS
<1>5. /\ DOMAIN pm'.m = Markers /\ pm'.m[COLLECTOR] = r /\ \A j \in Helpers : pm'.m[j] = p.m[j]
  BY <1>1, <1>3, <1>4 DEF Markers
<1>6. Keeping(p.m[COLLECTOR], r) /\ r.pc = pc /\ r.first = p.m[COLLECTOR].first /\ r.top = p.m[COLLECTOR].top
  BY <1>1, <1>4 DEF GoodMarker, Keeping, MarkerFields
<1>7. GoodMarker(r)
  BY <1>1, <1>2, <1>6 DEF GoodMarker, Keeping, Owning
<1>8. Objects' = Objects /\ MaybeObject' = MaybeObject
  BY DEF Objects, MaybeObject
<1>9. \A j \in Markers : GoodMarker(pm'.m[j]) /\ pm'.m[j].pc \in {"off", "help", "done", "marked", "begin"}
  BY <1>1, <1>2, <1>5, <1>6, <1>7
<1>10. stack \in Seq(MaybeObject) /\ ToSet(stack) \subseteq entries /\ (~invalid => ToSet(stack) = entries)
  <2>1. IsFiniteSet(entries)
    BY ObjectFacts, FS_Subset
  <2>2. SetToSeq(entries) \in Seq(entries) /\ ToSet(SetToSeq(entries)) = entries
    BY <2>1, AsSequence
  <2>3. SetToSeq(entries) \in Seq(MaybeObject)
    BY <2>2 DEF MaybeObject
  <2>4. <<>> \in Seq(MaybeObject) /\ ToSet(<<>>) = {}
    BY DEF ToSet
  <2> QED
    BY <1>2, <2>2, <2>3, <2>4
<1>11. MarkerShape'
  <2>1. ASSUME NEW j \in Markers PROVE GoodMarker(pm.m[j])'
    <3>1. PICK q : q = pm'.m[j]
      OBVIOUS
    <3>2. GoodMarker(q)'
      BY <1>8, <1>9, <3>1 DEF GoodMarker
    <3> QED
      BY <3>1, <3>2 DEF GoodMarker
  <2> QED
    BY <1>3, <1>5, <1>8, <1>10, <2>1 DEF MarkerShape
<1>12. pm'.m[COLLECTOR].pc \in {"marked", "begin"} /\ ~Together'
  BY <1>2, <1>5, <1>6 DEF Together, Helping, Busy
<1>13. CountInv'
  <2>1. \A j \in Helpers : pm'.m[j].pc \in {"off", "help", "done"}
    BY <1>5
  <2> QED
    BY <1>3, <1>12, <2>1 DEF CountInv, Helping, Busy
<1>14. PlaceInv'
  BY <1>12 DEF PlaceInv
<1>15. ScanInv'
  <2>1. \A j \in Markers : pm'.m[j].local = <<>> /\ pm'.m[j].entry = TAKEN /\ pm'.m[j].found = {}
    BY <1>9 DEF GoodMarker, Owning
  <2>2. AllFound' = {}
    BY <2>1 DEF AllFound
  <2>3. UNION {ToSet(pm'.m[j].local) \cup {pm'.m[j].entry} : j \in Markers} = {TAKEN}
    <3>1. ToSet(<<>>) = {}
      BY DEF ToSet
    <3> QED
      BY <1>1, <2>1, <3>1
  <2>4. Pending' = ToSet(stack)
    <3>1. TAKEN \notin ToSet(stack)
      BY <1>10, ObjectFacts DEF TAKEN
    <3> QED
      BY <1>3, <2>3, <3>1 DEF Pending
  <2>5. pm'.m[COLLECTOR].pc = "marked" => Pending' = {}
    <3>1. ToSet(<<>>) = {}
      BY DEF ToSet
    <3> QED
      BY <1>2, <1>5, <1>6, <2>4, <3>1
  <2> QED
    BY <1>3, <1>10, <1>12, <2>2, <2>4, <2>5 DEF ScanInv
<1> QED
  BY <1>11, <1>13, <1>14, <1>15 DEF MarkersInv

\* The collector starts from the same objects in its next phase.
LEMMA RootsInPhase ==
  ASSUME UNCHANGED <<th, table>>, gc'.by = gc.by
  PROVE  Roots' = Roots
BY DEF Roots, OnStack, Stack, Unfinished

\* GC_mark_some begins with the roots.
LEMMA MarkKeeps ==
  ASSUME WorldInv, ObjectInv, MarkersInv, Mark, UNCHANGED menu
  PROVE  MarkersInv' /\ MarkingIsComplete'
<1>1. gc.phase = "suspend" /\ gc.by \in Threads /\ menu \in Menus /\ DOMAIN gc = CollectorFields /\ HeapInv
  BY DEF Mark, AllAnswered, Phase, WorldInv, LockInv, ShapeInv, ObjectInv
<1>2. FoundMe \/ gc.in_creation
  BY <1>1, FindsItself
<1>3. Roots \in SUBSET Objects /\ ListMarks \in SUBSET Blank
  BY <1>1, RootsAreObjects
<1>4. PICK roots, marks : roots = Roots /\ marks = ListMarks
  OBVIOUS
<1>5. CASE pm.parallel
  <2>1. heap' = [heap EXCEPT !.marked = roots \cup marks] /\ pm' = Filled(pm, roots) /\ gc' = [gc EXCEPT !.phase = "mark"]
    BY <1>2, <1>4, <1>5 DEF Mark
  <2>2. heap'.marked = roots \cup marks /\ heap'.points = heap.points /\ gc'.phase = "mark" /\ gc'.by = gc.by
    BY <1>1, <2>1 DEF HeapInv, HeapFields, CollectorFields
  <2>3. Roots' = roots
    BY <1>4, <2>2, RootsInPhase DEF Mark
  <2>4. /\ DOMAIN pm = SharedFields /\ DOMAIN pm.m = Markers /\ pm.first_nonempty \in Nat \ {0}
        /\ \A j \in Markers : GoodMarker(pm.m[j])
    BY DEF MarkersInv, MarkerShape
  <2>5. ~pm.help_wanted /\ pm.m[COLLECTOR].pc = "off" /\ \A j \in Helpers : pm.m[j].pc \in {"off", "help", "done"}
    BY <1>1 DEF MarkersInv, CountInv, Together, Helping, Busy
  <2>6. \A o \in heap'.marked \ roots : heap'.points[o] \subseteq heap'.marked
    BY <1>3, <1>4, <2>2 DEF Blank
  <2>7. MarkersInv'
    BY <1>1, <1>3, <1>4, <2>1, <2>2, <2>3, <2>4, <2>5, <2>6, FilledKeeps
  <2> QED
    BY <2>2, <2>7 DEF MarkingIsComplete
<1>6. CASE ~pm.parallel
  <2>1. PICK reached : reached = Reached(heap.points, Roots)
    OBVIOUS
  <2>2. heap' = [heap EXCEPT !.marked = reached \cup marks] /\ UNCHANGED pm /\ gc' = [gc EXCEPT !.phase = "start"]
    BY <1>2, <1>4, <1>6, <2>1 DEF Mark
  <2>3. heap'.marked = reached \cup marks /\ heap'.points = heap.points /\ gc'.phase = "start" /\ gc'.by = gc.by
    BY <1>1, <2>2 DEF HeapInv, HeapFields, CollectorFields
  <2>4. MarkersInv'
    BY <1>1, <2>2, <2>3, QuietKeeps
  <2>5. Roots' = Roots
    BY <2>3, RootsInPhase DEF Mark
  <2>6. Reached(heap.points, Roots)' = reached
    <3>1. PICK points, from : points = heap.points /\ from = Roots
      OBVIOUS
    <3>2. Reached(points, from)' = Reached(points, from)
      BY ReachedStays
    <3>3. Reached(heap.points, Roots)' = Reached(points, from)'
      BY <2>3, <2>5, <3>1 DEF Reached, Objects
    <3> QED
      BY <2>1, <3>1, <3>2, <3>3
  <2> QED
    BY <2>3, <2>4, <2>6 DEF MarkingIsComplete
<1> QED
  BY <1>5, <1>6

\* The markers are done, or the stack was too small and is filled again.
LEMMA AfterKeeps ==
  ASSUME WorldInv, ObjectInv, MarkersInv, AfterParallelMark, UNCHANGED menu
  PROVE  MarkersInv' /\ MarkingIsComplete'
<1>1. gc.phase = "mark" /\ gc.by \in Threads /\ menu \in Menus /\ DOMAIN gc = CollectorFields /\ HeapInv
  BY DEF AfterParallelMark, Phase, WorldInv, LockInv, ShapeInv, ObjectInv
<1>2. pm.m[COLLECTOR].pc = "marked" /\ COLLECTOR \in Markers /\ COLLECTOR \notin Helpers
  BY MarkThreads DEF AfterParallelMark, At, Markers
<1>3. MarkerShape /\ CountInv /\ ScanInv
  BY DEF MarkersInv
<1>4. ~Together
  BY <1>2 DEF Together, Helping, Busy
<1>5. PICK empty : empty = [pm EXCEPT !.stack = <<>>, !.m[COLLECTOR] = Marker("off")]
  OBVIOUS
<1>6. /\ DOMAIN empty = SharedFields /\ empty.stack = <<>> /\ empty.m = [pm.m EXCEPT ![COLLECTOR] = Marker("off")]
      /\ empty.first_nonempty = pm.first_nonempty /\ empty.help_wanted = pm.help_wanted
  BY <1>3, <1>5 DEF MarkerShape, SharedFields
<1>7. /\ DOMAIN empty.m = Markers /\ empty.m[COLLECTOR] = Marker("off") /\ \A j \in Markers \ {COLLECTOR} : empty.m[j] = pm.m[j]
  BY <1>2, <1>3, <1>6 DEF MarkerShape
<1>8. GoodMarker(Marker("off")) /\ Marker("off").pc = "off"
  BY DEF GoodMarker, Marker, MarkerFields, Owning, MaybeObject, TAKEN
<1>9. \A j \in Markers : GoodMarker(empty.m[j])
  BY <1>3, <1>7, <1>8 DEF MarkerShape
<1>10. empty.m[COLLECTOR].pc = "off" /\ \A j \in Helpers : empty.m[j].pc \in {"off", "help", "done"}
  <2>1. \A j \in Helpers : pm.m[j].pc \in {"off", "help", "done"}
    BY <1>3, <1>4 DEF CountInv
  <2> QED
    BY <1>2, <1>7, <1>8, <2>1 DEF Markers
<1>11. ~empty.help_wanted /\ empty.first_nonempty \in Nat \ {0}
  BY <1>3, <1>4, <1>6 DEF CountInv, MarkerShape
<1>12. CASE pm.invalid
  <2>1. PICK again : again = UNION {Unmarked(o) : o \in heap.marked}
    OBVIOUS
  <2>2. PICK p : p = [empty EXCEPT !.size = 2 * @]
    OBVIOUS
  <2>3. pm' = Filled(p, again) /\ heap' = [heap EXCEPT !.marked = @ \cup again] /\ UNCHANGED gc
    BY <1>5, <1>12, <2>1, <2>2 DEF AfterParallelMark
  <2>4. DOMAIN p = SharedFields /\ p.m = empty.m /\ p.first_nonempty = empty.first_nonempty /\ p.help_wanted = empty.help_wanted
    BY <1>6, <2>2 DEF SharedFields
  <2>5. heap'.marked = heap.marked \cup again /\ heap'.points = heap.points
    BY <1>1, <2>3 DEF HeapInv, HeapFields
  <2>6. again \in SUBSET Objects
    BY <1>1, <2>1 DEF Unmarked, HeapInv
  <2>7. Roots' \subseteq heap'.marked
    <3>1. Roots' = Roots
      BY <2>3, RootsInPhase DEF AfterParallelMark
    <3> QED
      BY <1>1, <1>3, <2>5, <3>1 DEF ScanInv
  <2>8. \A o \in heap'.marked \ again : heap'.points[o] \subseteq heap'.marked
    BY <2>1, <2>5 DEF Unmarked
  <2>9. MarkersInv'
    BY <1>1, <1>7, <1>9, <1>10, <1>11, <2>3, <2>4, <2>6, <2>7, <2>8, FilledKeeps
  <2> QED
    BY <1>1, <2>3, <2>9 DEF MarkingIsComplete
<1>13. CASE ~pm.invalid
  <2>1. pm' = empty /\ gc' = [gc EXCEPT !.phase = "start"] /\ UNCHANGED heap
    BY <1>5, <1>13 DEF AfterParallelMark
  <2>2. gc'.phase = "start" /\ gc'.by = gc.by
    BY <1>1, <2>1 DEF CollectorFields
  <2>3. Objects' = Objects /\ MaybeObject' = MaybeObject
    BY DEF Objects, MaybeObject
  <2>4. MarkerShape'
    <3>1. ASSUME NEW j \in Markers PROVE GoodMarker(pm.m[j])'
      <4>1. PICK q : q = empty.m[j]
        OBVIOUS
      <4>2. GoodMarker(q)'
        BY <1>9, <2>3, <4>1 DEF GoodMarker
      <4> QED
        BY <2>1, <4>1, <4>2 DEF GoodMarker
    <3>2. <<>> \in Seq(MaybeObject)
      OBVIOUS
    <3> QED
      BY <1>6, <1>7, <1>11, <2>1, <2>3, <3>1, <3>2 DEF MarkerShape
  <2>5. ~Together'
    BY <1>10, <2>1 DEF Together, Helping, Busy
  <2>6. CountInv'
    BY <1>10, <1>11, <2>1, <2>2, <2>5 DEF CountInv, Helping, Busy
  <2>7. MarkersInv'
    BY <2>2, <2>4, <2>5, <2>6 DEF MarkersInv, PlaceInv, ScanInv
  <2>8. Roots \subseteq heap.marked /\ \A o \in heap.marked : heap.points[o] \subseteq heap.marked
    BY <1>1, <1>2, <1>3, <1>13 DEF ScanInv
  <2>9. Roots' = Roots
    BY <2>2, RootsInPhase DEF AfterParallelMark
  <2>10. Reached(heap.points, Roots)' \subseteq heap'.marked
    <3>1. PICK points, from, marked : points = heap.points /\ from = Roots /\ marked = heap.marked
      OBVIOUS
    <3>2. Reached(points, from) \subseteq marked
      BY <1>1, <2>8, <3>1, ReachedWithin
    <3>3. Reached(points, from)' = Reached(points, from)
      BY ReachedStays
    <3>4. Reached(heap.points, Roots)' = Reached(points, from)'
      BY <2>1, <2>9, <3>1 DEF Reached, Objects
    <3> QED
      BY <2>1, <3>1, <3>2, <3>3, <3>4
  <2> QED
    BY <2>7, <2>10 DEF MarkingIsComplete
<1> QED
  BY <1>12, <1>13

-----------------------------------------------------------------------------
\* All the steps together.

\* A collection.
LEMMA CollectorKeeps ==
  ASSUME WorldInv, ObjectInv, MarkersInv, Collecting, UNCHANGED menu
  PROVE  MarkersInv' /\ MarkingIsComplete'
<1>1. DOMAIN gc = CollectorFields
  BY DEF WorldInv, ShapeInv
<1>2. CASE Mark
  BY <1>2, MarkKeeps
<1>3. CASE AfterParallelMark
  BY <1>3, AfterKeeps
<1>4. CASE WaitBeforeMarking \/ GC_clear_marks \/ GC_stop_world \/ StartWorld \/ GC_finish_collection
  <2>1. UNCHANGED pm
    BY <1>4, Zenon DEF WaitBeforeMarking, GC_clear_marks, GC_stop_world, StartWorld, GC_finish_collection
  <2>2. gc.phase # "mark" /\ gc'.phase \notin {"mark", "start"}
    <3>1. CASE WaitBeforeMarking
      <4>1. gc.phase = "wait_for_reclaim" /\ (gc' = [gc EXCEPT !.phase = "clear"] \/ gc' = [gc EXCEPT !.asleep = @ \cup {gc.by}])
        BY <3>1 DEF WaitBeforeMarking, WaitForReclaim, Phase
      <4> QED
        BY <1>1, <4>1 DEF CollectorFields
    <3>2. CASE GC_clear_marks
      BY <1>1, <3>2 DEF GC_clear_marks, Phase, CollectorFields
    <3>3. CASE GC_stop_world
      BY <1>1, <3>3 DEF GC_stop_world, BeginStop, GC_suspend_all, AwaitAnswer, Phase, CollectorFields
    <3>4. CASE StartWorld
      BY <1>1, <3>4 DEF StartWorld, BeginStart, GC_start_world, Phase, CollectorFields
    <3>5. CASE GC_finish_collection
      BY <1>1, <3>5 DEF GC_finish_collection, AllRestarted, Phase, CollectorFields
    <3> QED
      BY <1>4, <3>1, <3>2, <3>3, <3>4, <3>5
  <2> QED
    BY <2>1, <2>2, QuietKeeps DEF MarkingIsComplete
<1> QED
  BY <1>2, <1>3, <1>4 DEF Collecting

\* The markers, and the helpers that wait for a collection.
LEMMA MarkingKeeps ==
  ASSUME WorldInv, ObjectInv, MarkersInv, MarkingIsComplete, NEW i \in Markers, Marking(i), UNCHANGED menu
  PROVE  MarkersInv' /\ MarkingIsComplete'
<1>1. UNCHANGED <<th, table, gc, menu>> /\ MarkerStep(i) /\ menu \in Menus
  BY DEF Marking, WorldInv, ShapeInv
<1>2. MarkersInv'
  BY <1>1, MarkerKeeps
<1>3. CASE gc.phase # "start"
  BY <1>1, <1>2, <1>3 DEF MarkingIsComplete
<1>4. CASE gc.phase = "start"
  <2>1. ~Push(i)
    <3>1. pm.m[i].pc \notin Helping
      BY <1>4, OneMarker
    <3> QED
      BY <3>1, Zenon DEF Push, At, Helping, Busy
  <2>2. UNCHANGED heap
    BY <1>1, <2>1, Zenon
       DEF MarkerStep, GC_mark_local, Join, LookAtFirst, RaiseFirst, LookAtTop, BecomeIdle, WakeUp, ReadEntry, ClearEntry,
           Scan, GC_return_mark_stack, BeginParallelMark, EndParallelMark, GC_help_marker, GC_mark_thread
  <2> QED
    BY <1>1, <1>2, <2>2, SameRoots, StillComplete
<1> QED
  BY <1>3, <1>4

\* The threads of the program, and their signal handlers.
LEMMA ProgramKeeps ==
  ASSUME WorldInv, MarkersInv, MarkingIsComplete, NEW t \in Threads, Signal(t) \/ UserSignal(t) \/ Program(t), UNCHANGED menu
  PROVE  MarkersInv' /\ MarkingIsComplete'
<1>1. CASE gc.phase \in {"mark", "start"}
  <2>1. UNCHANGED <<heap, pm, gc>> /\ Roots' = Roots
    BY <1>1, Frozen
  <2> QED
    BY <2>1, StillKeeps, StillComplete
<1>2. CASE gc.phase \notin {"mark", "start"}
  <2>1. CASE fork_child_proc(t)
    <3>1. UNCHANGED gc /\ pm' = [pm EXCEPT !.parallel = FALSE, !.m = [i \in Markers |-> Marker("off")], !.asleep = {}]
      BY <2>1 DEF fork_child_proc
    <3> QED
      BY <1>2, <3>1, NoMarkers DEF MarkingIsComplete
  <2>2. CASE ~fork_child_proc(t)
    <3>1. UNCHANGED pm
      BY <2>2, Zenon
         DEF Signal, UserSignal, Program, Allocating, GC_malloc, TakeHead, TakeFilled, GC_core_malloc, GC_generic_malloc_many,
             Building, JoinBuilders, SweepBlock, StoreList, LeaveBuilders, Forget, GC_gcollect, Living, GC_pthread_create,
             Registered, Return, GC_thread_exit_proc, GC_unregister_my_thread, GC_unregister_my_thread_inner, EndThread,
             GC_start_rtn_prepare_thread, HasCollected, Appear, GC_register_my_thread, GC_pthread_join, GC_pthread_detach, LookUp,
             GC_do_blocking, EndBlocking, GC_call_with_gc_active, Unblocked, Fork, PrepareFork, fork_prepare_proc,
             fork_parent_proc
    <3>2. gc'.phase \notin {"mark", "start"}
      <4>1. \/ UNCHANGED gc
            \/ \E then, in_creation : StartGC(t, then, in_creation)
            \/ JoinBuilders(t) \/ LeaveBuilders(t) \/ fork_prepare_proc(t)
        BY <2>2, Zenon
           DEF Signal, UserSignal, Program, Allocating, GC_malloc, TakeHead, TakeFilled, GC_core_malloc,
               GC_generic_malloc_many, FillFromBlock, FillFromFreeList, FillWithOne,
               Building, SweepBlock, StoreList, Forget, GC_gcollect, Living, GC_pthread_create,
               Registered, Return, GC_thread_exit_proc, GC_unregister_my_thread, GC_unregister_my_thread_inner, EndThread,
               GC_start_rtn_prepare_thread, HasCollected, Appear, GC_register_my_thread, GC_register_my_thread_inner,
               RegisterNew, GC_pthread_join, GC_pthread_detach, LookUp,
               GC_do_blocking, EndBlocking, GC_call_with_gc_active, Unblocked, Fork, PrepareFork, fork_parent_proc
      <4>2. DOMAIN gc = CollectorFields
        BY DEF WorldInv, ShapeInv
      <4>3. CASE \E then, in_creation : StartGC(t, then, in_creation)
        BY <4>2, <4>3 DEF StartGC, CollectorFields
      <4>4. CASE JoinBuilders(t) \/ LeaveBuilders(t)
        BY <1>2, <4>2, <4>4 DEF JoinBuilders, LeaveBuilders, CollectorFields
      <4>5. CASE fork_prepare_proc(t)
        <5>1. gc' = gc \/ gc' = [gc EXCEPT !.asleep = @ \cup {t}]
          BY <4>5 DEF fork_prepare_proc, WaitForReclaim
        <5> QED
          BY <1>2, <4>2, <5>1 DEF CollectorFields
      <4> QED
        BY <1>2, <4>1, <4>3, <4>4, <4>5
    <3> QED
      BY <1>2, <3>1, <3>2, QuietKeeps DEF MarkingIsComplete
  <2> QED
    BY <2>1, <2>2
<1> QED
  BY <1>1, <1>2

\* At the start the markers wait.
LEMMA MarkersBegin ==
  ASSUME Init
  PROVE  MarkersInv /\ MarkingIsComplete
<1>1. menu \in Menus /\ gc.phase = "none" /\ menu.helpers \in SUBSET Helpers
  BY ObjectFacts DEF Init
<1>2. COLLECTOR \in Markers /\ COLLECTOR \notin Helpers
  BY MarkThreads DEF Markers
<1>3. PICK helpers : helpers = menu.helpers
  OBVIOUS
<1>4. /\ DOMAIN pm = SharedFields /\ pm.stack = <<>> /\ pm.first_nonempty = 1 /\ ~pm.help_wanted
      /\ pm.m = [i \in Markers |-> Marker(IF i \in helpers THEN "help" ELSE "off")]
  BY <1>3 DEF Init, MarkInit, SharedFields
<1>5. ASSUME NEW pc \in {"help", "off"} PROVE GoodMarker(Marker(pc)) /\ Marker(pc).pc = pc
  BY DEF GoodMarker, Marker, MarkerFields, Owning, MaybeObject, TAKEN
<1>6. \A j \in Markers : GoodMarker(pm.m[j]) /\ pm.m[j].pc \in {"help", "off"}
  BY <1>4, <1>5
<1>7. pm.m[COLLECTOR].pc = "off"
  <2>1. pm.m[COLLECTOR] = Marker("off")
    BY <1>1, <1>2, <1>3, <1>4
  <2> QED
    BY <1>5, <2>1
<1>8. MarkerShape
  <2>1. <<>> \in Seq(MaybeObject)
    OBVIOUS
  <2> QED
    BY <1>4, <1>6, <2>1 DEF MarkerShape
<1>9. ~Together
  BY <1>7 DEF Together, Helping, Busy
<1>10. CountInv
  BY <1>1, <1>4, <1>6, <1>7, <1>9 DEF CountInv, Helping, Busy, Markers
<1> QED
  BY <1>1, <1>8, <1>9, <1>10 DEF MarkersInv, PlaceInv, ScanInv, MarkingIsComplete

\* Every step preserves what is said of the objects and of the markers.
LEMMA MarkingStep ==
  ASSUME WorldInv, ObjectInv, MarkersInv, MarkingIsComplete, [Next]_vars
  PROVE  ObjectInv' /\ MarkersInv' /\ MarkingIsComplete'
<1>1. CASE UNCHANGED vars
  <2>1. UNCHANGED <<th, table, gc, heap, pm, menu>>
    BY <1>1 DEF vars
  <2>2. ObjectInv'
    BY <2>1, SameHeap, SameThreads, SameEntries, ObjectStep
  <2> QED
    BY <2>1, <2>2, SameRoots, StillKeeps, StillComplete
<1>2. CASE Collecting /\ UNCHANGED menu
  BY <1>2, CollectorObjects, CollectorKeeps
<1>3. ASSUME NEW i \in Markers, Marking(i), UNCHANGED menu PROVE ObjectInv' /\ MarkersInv' /\ MarkingIsComplete'
  BY <1>3, MarkerObjects, MarkingKeeps
<1>4. ASSUME NEW t \in Threads, Signal(t) \/ UserSignal(t) \/ Program(t), UNCHANGED menu
      PROVE  ObjectInv' /\ MarkersInv' /\ MarkingIsComplete'
  BY <1>4, ProgramObjects, ProgramKeeps
<1> QED
  BY <1>1, <1>2, <1>3, <1>4 DEF Next

\* When the markers agree that they are done, every object that the stacks and
\* the entries lead to is marked: for any number of helpers, however they take
\* entries from the shared mark stack, put some back, find the same one twice,
\* wait for each other, and lose entries for which there is no room
\* (GC_do_parallel_mark, GC_mark_local, GC_steal_mark_stack,
\* GC_return_mark_stack).  Threads begin with ids as FreeIds has them.
THEOREM MarksComplete == Spec => []MarkingIsComplete
<1> DEFINE Inv == WorldInv /\ ObjectInv /\ MarkersInv /\ MarkingIsComplete
<1>1. Init => Inv
  BY WorldBegins, ObjectsBegin, MarkersBegin
<1>2. Inv /\ [Next]_vars => Inv'
  BY WorldStep, MarkingStep
<1>3. Inv => MarkingIsComplete
  OBVIOUS
<1> QED
  BY <1>1, <1>2, <1>3, PTL DEF Spec
=============================================================================
