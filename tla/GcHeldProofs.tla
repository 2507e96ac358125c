---------------------------- MODULE GcHeldProofs ----------------------------
(***************************************************************************)
(* That what is in use is never given out again, proved for any number of  *)
(* threads and markers, any programs and any finite heap; but a thread     *)
(* that registers itself or forks has an id for which the table has no     *)
(* entry when it begins (FreeIds).                                         *)
(*                                                                         *)
(* What is free, what waits to be swept, what lies on the list of a        *)
(* thread, what a thread builds such a list of, and what is in use are     *)
(* apart from one another (OwnerInv). That stays so when a thread begins,  *)
(* ends, is joined, blocks or forks because every thread that holds        *)
(* something has an entry from which a collection finds it, or a creator   *)
(* that holds it too (SoundInv, OtherInv). A list is built outside the     *)
(* lock, but not across the clearing of the marks (BuildInv). What is      *)
(* swept when a collection ends is not in use: by MarkingIsComplete all    *)
(* that is in use is marked by then (MarkedInv).                           *)
(***************************************************************************)
EXTENDS GcThreadsProofs

-----------------------------------------------------------------------------
\* Where the objects are.

\* What a thread of record r holds: on its stack, in the part of it from before
\* it blocked, and its result while somebody may join it.
HeldBy(r) ==
  r.held \cup {o \in r.saved : r.active} \cup {o \in {r.result} \ {NULL} : r.joinable}
AllHeld == UNION {HeldBy(th[t]) : t \in Threads}
\* What has to stay.
Live == Reached(heap.points, AllHeld)

\* The entries of a thread, of which there is one at most, and what is on their lists.
EntriesOf(t) == {table[k] : k \in {j \in Index : Owner(j) = t}}
ListOf(E) == UNION {e.tlfs.list : e \in E}
\* What a thread of record r is about to put on its list.
PartOf(r, marked) ==
  IF r.pc = "store_list" THEN r.build
  ELSE IF r.pc \in {"join_builders", "sweep"} THEN r.build \ marked ELSE {}
\* What thread t may give out.
Place(t) == ListOf(EntriesOf(t)) \cup PartOf(th[t], heap.marked)
\* What will be swept.
Unswept == IF Sweeping THEN Waiting ELSE {}

\* No object is in two places.
OwnerInv ==
  /\ heap.free \cap Unswept = {} /\ heap.free \cap Live = {} /\ Unswept \cap Live = {}
  /\ \A t \in Threads : Place(t) \cap heap.free = {} /\ Place(t) \cap Unswept = {} /\ Place(t) \cap Live = {}
  /\ \A t, u \in Threads : t # u => Place(t) \cap Place(u) = {}

-----------------------------------------------------------------------------
\* What threads and their entries say.

\* What a thread of record r has when it is where it is.  A thread that has not
\* begun or has ended holds nothing.
Decent(r, in_creation) ==
  /\ r.pc \notin {"take", "created"} => r.obj = NULL
  /\ r.pc = "created" => r.obj \in r.held \cup {NULL}
  /\ r.pc \notin Plain \cup {"blocked", "collect"} => r.held = {} /\ ~r.active
  /\ r.pc = "collect" /\ in_creation => r.held = {} /\ ~r.active
  /\ r.pc = "blocked" => r.saved \subseteq r.held /\ ~r.active
  /\ r.pc = "exit" => ~r.active
  /\ r.pc \in {"none", "dead"} => r.joinable
  /\ r.pc = "gone" /\ r.joinable => r.result = NULL
  /\ r.pc \in {"register", "ending"} => r.unregisters

\* A thread that pthread_create has made and that is not registered yet.
Starting(r, in_creation) ==
  ~r.unregisters /\ (r.pc \in {"start", "start_again"} \/ (r.pc = "collect" /\ in_creation))
\* What is on the stack of a thread of record r.
Shows(r) == r.held \cup ({r.obj} \ {NULL}) \cup {o \in r.saved : r.active}
\* Where a thread is in its handler that has saved its stack.
Saved == {"answered", "waiting", "woken"}

\* What the entry e of thread t says of it, h being where it is in its handler.
Tells(t, r, e, h) ==
  /\ r.joinable => r.result \in {NULL, e.status}
  /\ DETACHED \in e.flags /\ r.joinable => r.result = NULL /\ (t = "Main" \/ r.unregisters \/ r.pc = "gone")
  /\ r.pc = "blocked" \/ h \in Saved => Shows(r) \subseteq e.stack
  /\ FINISHED \in e.flags => e.tlfs.list = {}
  /\ r.pc = "take" => r.obj \in e.tlfs.list

\* The collector finds what thread t holds, or nothing depends on it.
Sound(t, r, E, h, in_creation) ==
  /\ Decent(r, in_creation)
  /\ \A e \in E : Tells(t, r, e, h)
  /\ E = {} /\ r.joinable /\ ~Starting(r, in_creation) => r.result = NULL
SoundInv == \A t \in Threads : Sound(t, th[t], EntriesOf(t), stop.handler[t].pc, gc.in_creation)

\* Nobody will join thread t any more.
Left(r) == r.pc = "gone" \/ (~r.joinable /\ r.pc # "none")

\* What threads have to do with others: the creator of a thread that starts holds
\* the argument, and who joins or detaches has found another thread.
Awaited(t) == \E c \in Threads : th[c].pc = "created" /\ th[c].of = t /\ th[c].obj = th[t].result
OtherInv ==
  \A t \in Threads :
    /\ Starting(th[t], gc.in_creation) => Awaited(t)
    /\ th[t].pc \in {"join", "detach"} =>
         th[t].of \in Threads /\ ~Starting(th[th[t].of], gc.in_creation) /\ th[th[t].of].pc # "none"
    /\ th[t].pc = "detach" => th[t].entry \in Threads /\ (th[t].entry = th[t].of \/ Left(th[th[t].entry]))
    /\ th[t].pc = "detached" => th[t].entry \in Threads /\ Left(th[th[t].entry])

\* The threads that build a list keep a collection from clearing the marks.
Sweeper == {"sweep", "store_list", "leave_builders"}
Builders == {t \in Threads : th[t].pc \in Sweeper}
BuildInv ==
  /\ IsFiniteSet(Builders) /\ gc.builders = Cardinality(Builders)
  /\ ~Sweeping => Builders = {}
  /\ \A t \in Threads : th[t].pc \in Sweeper \cup {"join_builders"} => pm.parallel
  /\ \A t \in Threads : th[t].pc = "fork" => Builders = {}

\* What a collection has to find is marked in time.
MarkedInv ==
  /\ gc.phase \in {"mark", "start", "restart"} => \A t \in Threads : ListOf(EntriesOf(t)) \subseteq heap.marked
  /\ gc.phase \in {"start", "restart"} => Live \subseteq heap.marked

HeldInv == SoundInv /\ OtherInv /\ BuildInv /\ OwnerInv /\ MarkedInv

-----------------------------------------------------------------------------
\* What is in reach of the threads.

\* What has to stay are objects, what is held is in it, and it leads nowhere else.
LEMMA LiveFacts ==
  ASSUME WorldInv, ObjectInv
  PROVE  /\ AllHeld \in SUBSET Objects /\ Live \in SUBSET Objects /\ AllHeld \subseteq Live
         /\ \A o \in Live : heap.points[o] \subseteq Live
<1>1. menu \in Menus /\ heap.points \in [Objects -> SUBSET Objects]
  BY DEF WorldInv, ShapeInv, ObjectInv, HeapInv
<1>2. AllHeld \in SUBSET Objects
  <2>1. ASSUME NEW t \in Threads PROVE HeldBy(th[t]) \in SUBSET Objects
    BY DEF HeldBy, ObjectInv, Carries, MaybeObject
  <2> QED
    BY <2>1 DEF AllHeld
<1>3. /\ Live \in SUBSET Objects
      /\ \A o \in Live : heap.points[o] \subseteq Live
  BY <1>1, <1>2, ReachedClosed DEF Live
<1>4. AllHeld \subseteq Live
  BY <1>1, <1>2, <1>3, ReachedWithin DEF Live
<1> QED
  BY <1>2, <1>3, <1>4

\* New objects come into reach only by way of what threads take, since nothing
\* that points to anything does.
LEMMA LiveGrows ==
  ASSUME WorldInv, ObjectInv, UNCHANGED menu, NEW new,
         AllHeld' \subseteq Live \cup new,
         \A o \in Live : heap'.points[o] \subseteq heap.points[o],
         \A o \in new : heap'.points[o] = {}
  PROVE  Live' \subseteq Live \cup new
<1>1. PICK points, from : points = heap'.points /\ from = AllHeld'
  OBVIOUS
<1>2. Live' = Reached(points, from)
  <2>1. Live' = Reached(points, from)'
    BY <1>1 DEF Live, Reached, Objects
  <2> QED
    BY <2>1, ReachedStays
<1>3. \A o \in Live \cup new : points[o] \subseteq Live \cup new
  BY <1>1, LiveFacts
<1> QED
  BY <1>1, <1>2, <1>3, ReachedWithin DEF WorldInv, ShapeInv

\* A step of one thread that moves objects between the places that are its own or
\* everybody's, some of them to its stack.
LEMMA OwnerStep ==
  ASSUME WorldInv, ObjectInv, OwnerInv, UNCHANGED menu, NEW t \in Threads, NEW new,
         AllHeld' \subseteq Live \cup new,
         \A o \in Live : heap'.points[o] \subseteq heap.points[o],
         \A o \in new : heap'.points[o] = {},
         \A u \in Threads \ {t} : Place(u)' \subseteq Place(u),
         heap'.free \subseteq heap.free \cup Unswept \cup Place(t),
         Unswept' \subseteq heap.free \cup Unswept \cup Place(t),
         Place(t)' \subseteq heap.free \cup Unswept \cup Place(t),
         new \subseteq heap.free \cup Unswept \cup Place(t),
         heap'.free \cap Unswept' = {}, heap'.free \cap Place(t)' = {}, Unswept' \cap Place(t)' = {},
         new \cap heap'.free = {}, new \cap Unswept' = {}, new \cap Place(t)' = {}
  PROVE  OwnerInv' /\ Live' \subseteq Live \cup new
<1>1. Live' \subseteq Live \cup new
  BY LiveGrows
<1>2. ASSUME NEW u \in Threads \ {t}
      PROVE  /\ Place(u) \cap heap.free = {} /\ Place(u) \cap Unswept = {} /\ Place(u) \cap Live = {}
             /\ Place(u) \cap Place(t) = {} /\ Place(u)' \subseteq Place(u)
  BY DEF OwnerInv
<1>3. /\ Place(t) \cap heap.free = {} /\ Place(t) \cap Unswept = {} /\ Place(t) \cap Live = {}
      /\ heap.free \cap Unswept = {} /\ heap.free \cap Live = {} /\ Unswept \cap Live = {}
  BY DEF OwnerInv
<1>4. /\ heap'.free \cap Unswept' = {} /\ heap'.free \cap Live' = {} /\ Unswept' \cap Live' = {}
      /\ Place(t)' \cap heap'.free = {} /\ Place(t)' \cap Unswept' = {} /\ Place(t)' \cap Live' = {}
  BY <1>1, <1>3
<1>5. ASSUME NEW u \in Threads \ {t}
      PROVE  /\ Place(u)' \cap heap'.free = {} /\ Place(u)' \cap Unswept' = {} /\ Place(u)' \cap Live' = {}
             /\ Place(u)' \cap Place(t)' = {}
  BY <1>1, <1>2
<1>6. ASSUME NEW u \in Threads \ {t}, NEW v \in Threads \ {t}, u # v
      PROVE  Place(u)' \cap Place(v)' = {}
  BY <1>6 DEF OwnerInv
<1>7. \A u, v \in Threads : u # v => Place(u)' \cap Place(v)' = {}
  BY <1>5, <1>6
<1>8. \A u \in Threads : Place(u)' \cap heap'.free = {} /\ Place(u)' \cap Unswept' = {} /\ Place(u)' \cap Live' = {}
  BY <1>4, <1>5
<1> QED
  BY <1>1, <1>4, <1>7, <1>8 DEF OwnerInv

-----------------------------------------------------------------------------
\* The entries of the threads.

\* A known thread has one entry, its own.
LEMMA KnownEntry ==
  ASSUME WorldInv, NEW t \in Threads, Known(t)
  PROVE  EntriesOf(t) = {table[Own(t)]} /\ Own(t) \in Index /\ Owner(Own(t)) = t /\ Mine(t) = Own(t)
<1>1. /\ Own(t) \in Index /\ Owner(Own(t)) = t /\ Mine(t) = Own(t)
      /\ \A k \in Index : Owner(k) = t => k = Own(t)
  BY OwnEntry DEF WorldInv
<1> QED
  BY <1>1 DEF EntriesOf

\* A thread that has not begun has no entry.
LEMMA NoEntryYet ==
  ASSUME WorldInv, NEW t \in Threads, ~Known(t), th[t].pc \notin Past
  PROVE  EntriesOf(t) = {}
<1>1. \A k \in Index : Owner(k) # t
  BY DEF WorldInv, TableInv
<1> QED
  BY <1>1 DEF EntriesOf

\* A thread that has ended has no entry or one, which is FINISHED.
LEMMA PastEntries ==
  ASSUME WorldInv, NEW t \in Threads, NEW e \in EntriesOf(t)
  PROVE  /\ Known(t) \/ th[t].pc \in Past
         /\ FINISHED \in e.flags <=> ~Known(t)
         /\ e.thread_blocked <=> th[t].pc = "blocked"
         /\ \E k \in Index : Owner(k) = t /\ e = table[k] /\ EntriesOf(t) = {e}
<1>1. PICK k \in Index : Owner(k) = t /\ e = table[k]
  BY DEF EntriesOf
<1>2. \A j \in Index : Owner(j) = t => j = k
  BY <1>1 DEF WorldInv, TableInv
<1>3. EntriesOf(t) = {e}
  BY <1>1, <1>2 DEF EntriesOf
<1> QED
  BY <1>1, <1>3 DEF WorldInv, TableInv

\* Nothing of the table changes.
LEMMA SameEntriesOf ==
  ASSUME UNCHANGED table, NEW u
  PROVE  EntriesOf(u)' = EntriesOf(u)
BY DEF EntriesOf, Index, Owner

\* One entry gets new contents.
LEMMA EntryGets ==
  ASSUME WorldInv, NEW t, NEW k \in Index, Owner(k) = t, NEW e, e.of = t, table' = [table EXCEPT ![k] = e]
  PROVE  EntriesOf(t)' = {e} /\ \A u : u # t => EntriesOf(u)' = EntriesOf(u)
<1>1. PICK E : table \in Seq(E)
  BY DEF WorldInv, ShapeInv
<1>2. Index' = Index /\ \A j \in Index : table'[j] = IF j = k THEN e ELSE table[j]
  BY <1>1 DEF Index
<1>3. \A j \in Index : Owner(j) = t => j = k
  BY DEF WorldInv, TableInv
<1>4. \A j \in Index : Owner(j)' = Owner(j)
  BY <1>2 DEF Owner
<1>5. EntriesOf(t)' = {e}
  BY <1>2, <1>3, <1>4 DEF EntriesOf
<1>6. ASSUME NEW u, u # t PROVE EntriesOf(u)' = EntriesOf(u)
  <2>1. \A j \in Index : Owner(j) = u => j # k
    BY <1>6
  <2>2. {j \in Index' : Owner(j)' = u} = {j \in Index : Owner(j) = u}
    BY <1>2, <1>4
  <2> QED
    BY <1>2, <2>1, <2>2 DEF EntriesOf
<1> QED
  BY <1>5, <1>6

\* One entry is deleted, if there is one.
LEMMA EntryIsDeleted ==
  ASSUME WorldInv, NEW t, NEW k \in Index \cup {0}, k # 0 => Owner(k) = t, table' = RemoveAt(table, k)
  PROVE  /\ k = 0 => \A u : EntriesOf(u)' = EntriesOf(u)
         /\ k # 0 => EntriesOf(t)' = {} /\ \A u : u # t => EntriesOf(u)' = EntriesOf(u)
<1>1. PICK E : table \in Seq(E)
  BY DEF WorldInv, ShapeInv
<1>2. /\ k = 0 => table' = table
      /\ k # 0 => /\ \A j \in Index' : Moved(k, j) \in Index \ {k} /\ table'[j] = table[Moved(k, j)]
                  /\ \A j \in Index \ {k} : \E i \in Index' : j = Moved(k, i)
  BY <1>1, Removed DEF Index
<1>3. CASE k = 0
  BY <1>2, <1>3, SameEntriesOf
<1>4. CASE k # 0
  <2>1. Owner(k) = t /\ \A j \in Index : Owner(j) = t => j = k
    BY <1>4 DEF WorldInv, TableInv
  <2>2. ASSUME NEW u PROVE EntriesOf(u)' = {table[j] : j \in {i \in Index \ {k} : Owner(i) = u}}
    <3>1. \A j \in Index' : Moved(k, j) \in Index \ {k} /\ table'[j] = table[Moved(k, j)] /\ Owner(j)' = Owner(Moved(k, j))
      BY <1>2, <1>4 DEF Owner
    <3>2. \A j \in Index \ {k} : \E i \in Index' : j = Moved(k, i)
      BY <1>2, <1>4
    <3>3. EntriesOf(u)' = {table'[j] : j \in {i \in Index' : Owner(i)' = u}}
      BY DEF EntriesOf
    <3>4. ASSUME NEW x PROVE x \in EntriesOf(u)' <=> x \in {table[j] : j \in {i \in Index \ {k} : Owner(i) = u}}
      BY <3>1, <3>2, <3>3
    <3> QED
      BY <3>4
  <2>3. EntriesOf(t)' = {}
    BY <2>1, <2>2
  <2>4. ASSUME NEW u, u # t PROVE EntriesOf(u)' = EntriesOf(u)
    BY <2>1, <2>2, <2>4 DEF EntriesOf
  <2> QED
    BY <1>4, <2>3, <2>4
<1> QED
  BY <1>3, <1>4

\* A new entry comes first.
LEMMA EntryIsAdded ==
  ASSUME WorldInv, NEW t, NEW e, e.of = t, table' = <<e>> \o table
  PROVE  EntriesOf(t)' = EntriesOf(t) \cup {e} /\ \A u : u # t => EntriesOf(u)' = EntriesOf(u)
<1>1. PICK E : table \in Seq(E)
  BY DEF WorldInv, ShapeInv
<1>2. PICK n \in Nat : Index = 1..n /\ n = Len(table)
  BY <1>1 DEF Index
<1>3. /\ Index' = 1..(n + 1) /\ table'[1] = e /\ \A j \in Index : table'[j + 1] = table[j]
  BY <1>1, <1>2 DEF Index
<1>4. ASSUME NEW u, NEW x PROVE x \in EntriesOf(u)' <=> (x \in EntriesOf(u) \/ (u = t /\ x = e))
  <2>1. EntriesOf(u)' = {table'[j] : j \in {i \in Index' : table'[i].of = u}}
    BY DEF EntriesOf, Owner
  <2>2. \A j \in Index' : j = 1 \/ (j - 1 \in Index /\ table'[j] = table[j - 1])
    BY <1>2, <1>3
  <2>3. \A j \in Index : j + 1 \in Index'
    BY <1>2, <1>3
  <2>4. 1 \in Index'
    BY <1>2, <1>3
  <2>5. CASE x \in EntriesOf(u)'
    <3>1. PICK j \in Index' : x = table'[j] /\ table'[j].of = u
      BY <2>1, <2>5
    <3>2. CASE j = 1
      BY <1>3, <2>5, <3>1, <3>2
    <3>3. CASE j # 1
      <4>1. j - 1 \in Index /\ x = table[j - 1] /\ Owner(j - 1) = u
        BY <2>2, <3>1, <3>3 DEF Owner
      <4> QED
        BY <2>5, <4>1 DEF EntriesOf
    <3> QED
      BY <3>2, <3>3
  <2>6. CASE x \in EntriesOf(u)
    BY <1>3, <2>1, <2>3, <2>6 DEF EntriesOf, Owner
  <2>7. CASE u = t /\ x = e
    BY <1>3, <2>1, <2>4, <2>7
  <2> QED
    BY <2>5, <2>6, <2>7
<1>5. \A u : \A x : x \in EntriesOf(u)' <=> (x \in EntriesOf(u) \/ (u = t /\ x = e))
  BY <1>4
<1>6. EntriesOf(t)' = EntriesOf(t) \cup {e}
  BY <1>5
<1>7. ASSUME NEW u, u # t PROVE EntriesOf(u)' = EntriesOf(u)
  <2>1. \A x : x \in EntriesOf(u)' <=> x \in EntriesOf(u)
    BY <1>5, <1>7
  <2> QED
    BY <2>1
<1> QED
  BY <1>6, <1>7

-----------------------------------------------------------------------------
\* One thread makes a step.

\* The collector goes on as before, or a collection begins.
CollectorGoesOnOrBegins ==
  \/ gc'.phase = gc.phase /\ (gc'.in_creation <=> gc.in_creation)
  \/ gc.phase = "none" /\ gc'.phase = "wait_for_reclaim"

\* What is said of the threads that do nothing stays true.
LEMMA SoundStep ==
  ASSUME WorldInv, SoundInv, CollectorGoesOnOrBegins, NEW S \in SUBSET Threads,
         \A u \in Threads \ S :
           th'[u] = th[u] /\ EntriesOf(u)' = EntriesOf(u) /\ stop'.handler[u].pc = stop.handler[u].pc,
         \A u \in S : Sound(u, th[u], EntriesOf(u), stop.handler[u].pc, gc.in_creation)'
  PROVE  SoundInv'
<1>1. ASSUME NEW u \in Threads \ S
      PROVE  Sound(u, th[u], EntriesOf(u), stop.handler[u].pc, gc.in_creation)'
  <2>1. Sound(u, th[u], EntriesOf(u), stop.handler[u].pc, gc.in_creation)
    BY DEF SoundInv
  <2>2. th[u].pc = "collect" => (gc'.in_creation <=> gc.in_creation)
    BY DEF CollectorGoesOnOrBegins, WorldInv, LockInv
  <2>3. PICK r, E, h, i, j : r = th[u] /\ E = EntriesOf(u) /\ h = stop.handler[u].pc /\ i = gc.in_creation /\ j = gc'.in_creation
    OBVIOUS
  <2>4. Sound(u, r, E, h, j)
    BY <2>1, <2>2, <2>3 DEF Sound, Decent, Starting
  <2> QED
    BY <2>3, <2>4 DEF Sound, Decent, Starting, Tells, Shows, Saved
<1> QED
  BY <1>1 DEF SoundInv

\* What thread t does not do to others by becoming r.
Leaves(t, r) ==
  /\ Starting(r, gc'.in_creation) => Starting(th[t], gc.in_creation) /\ r.result = th[t].result
  /\ th[t].pc = "created" =>
       \/ r.pc = "created" /\ r.of = th[t].of /\ r.obj = th[t].obj
       \/ ~Starting(th[th[t].of], gc.in_creation)
  /\ r.pc = "none" => th[t].pc = "none"
  /\ Left(th[t]) => Left(r)
  /\ r.pc \in {"join", "detach"} => r.of \in Threads \ {t} /\ ~Starting(th[r.of], gc.in_creation) /\ th[r.of].pc # "none"
  /\ r.pc = "detach" => r.entry \in Threads /\ (r.entry = r.of \/ (r.entry # t /\ Left(th[r.entry])))
  /\ r.pc = "detached" => r.entry \in Threads \ {t} /\ Left(th[r.entry])

LEMMA OtherStep ==
  ASSUME WorldInv, OtherInv, CollectorGoesOnOrBegins, NEW t \in Threads, NEW r, th' = [th EXCEPT ![t] = r],
         Leaves(t, r)
  PROVE  OtherInv'
<1>1. /\ DOMAIN th = Threads /\ th'[t] = r
      /\ \A u \in Threads \ {t} : th'[u] = th[u]
  BY DEF WorldInv, ShapeInv
<1>2. ASSUME NEW u \in Threads \ {t} PROVE Starting(th[u], gc.in_creation)' <=> Starting(th[u], gc.in_creation)
  BY <1>1 DEF Starting, CollectorGoesOnOrBegins, WorldInv, LockInv
<1>3. Starting(th[t], gc.in_creation)' => Starting(th[t], gc.in_creation)
  BY <1>1 DEF Starting, Leaves
<1>4. ASSUME NEW u \in Threads, Starting(th[u], gc.in_creation)'
      PROVE  Awaited(u)'
  <2>1. Starting(th[u], gc.in_creation) /\ th'[u].result = th[u].result
    BY <1>1, <1>2, <1>3, <1>4 DEF Leaves, Starting
  <2>2. Awaited(u)
    BY <2>1 DEF OtherInv
  <2>3. PICK c \in Threads : th[c].pc = "created" /\ th[c].of = u /\ th[c].obj = th[u].result
    BY <2>2 DEF Awaited
  <2>4. th'[c].pc = "created" /\ th'[c].of = u /\ th'[c].obj = th[u].result
    BY <1>1, <2>1, <2>3 DEF Leaves
  <2> QED
    BY <2>1, <2>2, <2>4 DEF Awaited
<1>5. ASSUME NEW u \in Threads
      PROVE  /\ Left(th[u]) => Left(th[u])'
             /\ th'[u].pc = "none" => th[u].pc = "none"
             /\ Starting(th[u], gc.in_creation)' => Starting(th[u], gc.in_creation)
  BY <1>1, <1>2, <1>3 DEF Leaves, Left
<1>6. ASSUME NEW u \in Threads \ {t}
      PROVE  /\ th'[u].pc \in {"join", "detach"} =>
                  th'[u].of \in Threads /\ ~Starting(th[th[u].of], gc.in_creation)' /\ th'[th'[u].of].pc # "none"
             /\ th'[u].pc = "detach" =>
                  th'[u].entry \in Threads /\ (th'[u].entry = th'[u].of \/ Left(th[th[u].entry])')
             /\ th'[u].pc = "detached" => th'[u].entry \in Threads /\ Left(th[th[u].entry])'
  <2>1. PICK n, e : n = th[u].of /\ e = th[u].entry
    OBVIOUS
  <2>2. /\ n \in Threads => (~Starting(th[n], gc.in_creation) => ~Starting(th[n], gc.in_creation)')
        /\ n \in Threads => (th[n].pc # "none" => th'[n].pc # "none")
        /\ e \in Threads => (Left(th[e]) => Left(th[e])')
    BY <1>5
  <2> QED
    BY <1>1, <2>1, <2>2 DEF OtherInv, Left, Starting
<1>7. /\ th'[t].pc \in {"join", "detach"} =>
           th'[t].of \in Threads /\ ~Starting(th[th[t].of], gc.in_creation)' /\ th'[th'[t].of].pc # "none"
      /\ th'[t].pc = "detach" =>
           th'[t].entry \in Threads /\ (th'[t].entry = th'[t].of \/ Left(th[th[t].entry])')
      /\ th'[t].pc = "detached" => th'[t].entry \in Threads /\ Left(th[th[t].entry])'
  <2>1. PICK n, e : n = r.of /\ e = r.entry
    OBVIOUS
  <2>2. /\ n \in Threads \ {t} => (~Starting(th[n], gc.in_creation) => ~Starting(th[n], gc.in_creation)')
        /\ n \in Threads \ {t} => (th[n].pc # "none" => th'[n].pc # "none")
        /\ e \in Threads \ {t} => (Left(th[e]) => Left(th[e])')
    BY <1>1, <1>5
  <2> QED
    BY <1>1, <2>1, <2>2 DEF Leaves, Left, Starting
<1> QED
  BY <1>1, <1>4, <1>6, <1>7 DEF OtherInv

\* The threads that build stay the same.
LEMMA BuildStep ==
  ASSUME WorldInv, BuildInv, CollectorGoesOnOrBegins, gc'.builders = gc.builders, pm'.parallel = pm.parallel,
         NEW t \in Threads, NEW r, th' = [th EXCEPT ![t] = r],
         r.pc \in Sweeper <=> th[t].pc \in Sweeper, r.pc = "join_builders" => pm.parallel, r.pc = "fork" => Builders = {}
  PROVE  BuildInv'
<1>1. /\ DOMAIN th = Threads /\ th'[t] = r
      /\ \A u \in Threads \ {t} : th'[u] = th[u]
  BY DEF WorldInv, ShapeInv
<1>2. Builders' = Builders
  BY <1>1 DEF Builders
<1>3. ~Sweeping' => ~Sweeping
  BY DEF Sweeping, CollectorGoesOnOrBegins
<1>4. \A u \in Threads : th'[u].pc \in Sweeper \cup {"join_builders"} => pm'.parallel
  BY <1>1 DEF BuildInv
<1>5. \A u \in Threads : th'[u].pc = "fork" => Builders = {}
  BY <1>1 DEF BuildInv
<1> QED
  BY <1>2, <1>3, <1>4, <1>5 DEF BuildInv, CollectorGoesOnOrBegins

\* A step of thread t that moves objects from place to place.
LEMMA MovingStep ==
  ASSUME WorldInv, ObjectInv, HeldInv, UNCHANGED <<stop, menu>>, pm'.parallel = pm.parallel,
         CollectorGoesOnOrBegins,
         NEW t \in Threads, NEW r, th' = [th EXCEPT ![t] = r],
         \A u \in Threads \ {t} : EntriesOf(u)' = EntriesOf(u),
         Sound(t, th[t], EntriesOf(t), stop.handler[t].pc, gc.in_creation)',
         Leaves(t, r), BuildInv',
         heap'.marked = heap.marked,
         NEW new, HeldBy(r) \subseteq Live \cup new,
         \A o \in Live : heap'.points[o] \subseteq heap.points[o],
         \A o \in new : heap'.points[o] = {},
         heap'.free \subseteq heap.free \cup Unswept \cup Place(t),
         Unswept' \subseteq heap.free \cup Unswept \cup Place(t),
         Place(t)' \subseteq heap.free \cup Unswept \cup Place(t),
         new \subseteq heap.free \cup Unswept \cup Place(t),
         heap'.free \cap Unswept' = {}, heap'.free \cap Place(t)' = {}, Unswept' \cap Place(t)' = {},
         new \cap heap'.free = {}, new \cap Unswept' = {}, new \cap Place(t)' = {},
         gc.phase \in {"mark", "start", "restart"} =>
           ListOf(EntriesOf(t))' \subseteq ListOf(EntriesOf(t)) /\ new \subseteq ListOf(EntriesOf(t))
  PROVE  HeldInv'
<1>1. /\ DOMAIN th = Threads /\ th'[t] = r
      /\ \A u \in Threads \ {t} : th'[u] = th[u]
  BY DEF WorldInv, ShapeInv
<1>2. SoundInv'
  <2>1. PICK S \in SUBSET Threads : S = {t}
    OBVIOUS
  <2>2. \A u \in Threads \ S :
          th'[u] = th[u] /\ EntriesOf(u)' = EntriesOf(u) /\ stop'.handler[u].pc = stop.handler[u].pc
    BY <1>1, <2>1
  <2>3. \A u \in S : Sound(u, th[u], EntriesOf(u), stop.handler[u].pc, gc.in_creation)'
    BY <2>1
  <2> QED
    BY <2>2, <2>3, SoundStep DEF HeldInv
<1>3. OtherInv'
  BY OtherStep DEF HeldInv
<1>4. AllHeld' \subseteq Live \cup new
  <2>1. ASSUME NEW u \in Threads PROVE HeldBy(th[u])' \subseteq Live \cup new
    <3>1. CASE u = t
      BY <1>1, <3>1 DEF HeldBy
    <3>2. CASE u # t
      <4>1. HeldBy(th[u]) \subseteq AllHeld
        BY DEF AllHeld
      <4> QED
        BY <1>1, <3>2, <4>1, LiveFacts DEF HeldBy
    <3> QED
      BY <3>1, <3>2
  <2> QED
    BY <2>1 DEF AllHeld
<1>5. \A u \in Threads \ {t} : Place(u)' \subseteq Place(u)
  BY <1>1 DEF Place, ListOf, PartOf
<1>6. OwnerInv' /\ Live' \subseteq Live \cup new
  BY <1>4, <1>5, OwnerStep DEF HeldInv
<1>7. MarkedInv'
  <2>1. CASE gc'.phase \in {"mark", "start", "restart"}
    <3>1. gc'.phase = gc.phase
      BY <2>1 DEF CollectorGoesOnOrBegins
    <3>2. \A u \in Threads : ListOf(EntriesOf(u))' \subseteq ListOf(EntriesOf(u))
      BY <2>1, <3>1 DEF ListOf
    <3> QED
      BY <1>6, <2>1, <3>1, <3>2 DEF HeldInv, MarkedInv
  <2> QED
    BY <2>1 DEF MarkedInv
<1> QED
  BY <1>2, <1>3, <1>6, <1>7 DEF HeldInv

\* A step of thread t that leaves the heap alone, and takes nothing.
LEMMA QuietStep ==
  ASSUME WorldInv, ObjectInv, HeldInv, UNCHANGED <<stop, heap, menu>>, pm'.parallel = pm.parallel,
         CollectorGoesOnOrBegins,
         NEW t \in Threads, NEW r, th' = [th EXCEPT ![t] = r],
         \A u \in Threads \ {t} : EntriesOf(u)' = EntriesOf(u),
         Sound(t, th[t], EntriesOf(t), stop.handler[t].pc, gc.in_creation)',
         Leaves(t, r), BuildInv',
         HeldBy(r) \subseteq Live, Place(t)' \subseteq Place(t),
         gc.phase \in {"mark", "start", "restart"} => ListOf(EntriesOf(t))' \subseteq ListOf(EntriesOf(t))
  PROVE  HeldInv'
<1>1. Unswept' = Unswept
  BY DEF Unswept, Sweeping, Waiting, Swept, CollectorGoesOnOrBegins
<1>2. /\ Place(t) \cap heap.free = {} /\ Place(t) \cap Unswept = {} /\ heap.free \cap Unswept = {}
  BY DEF HeldInv, OwnerInv
<1> DEFINE new == {}
<1>3. /\ heap'.free \subseteq heap.free \cup Unswept \cup Place(t)
      /\ Unswept' \subseteq heap.free \cup Unswept \cup Place(t)
      /\ Place(t)' \subseteq heap.free \cup Unswept \cup Place(t)
      /\ heap'.free \cap Unswept' = {} /\ heap'.free \cap Place(t)' = {} /\ Unswept' \cap Place(t)' = {}
  BY <1>1, <1>2
<1>4. /\ HeldBy(r) \subseteq Live \cup new
      /\ \A o \in Live : heap'.points[o] \subseteq heap.points[o]
      /\ \A o \in new : heap'.points[o] = {}
      /\ new \subseteq heap.free \cup Unswept \cup Place(t)
      /\ new \cap heap'.free = {} /\ new \cap Unswept' = {} /\ new \cap Place(t)' = {}
      /\ new \subseteq ListOf(EntriesOf(t))
      /\ heap'.marked = heap.marked
  OBVIOUS
<1> HIDE DEF new
<1> QED
  BY <1>3, <1>4, MovingStep

-----------------------------------------------------------------------------
\* Threads allocate.

\* Where a thread is that has nothing to do with another one.
Alone ==
  {"run", "take", "core", "core_again", "many", "many_again", "join_builders", "sweep", "store_list",
   "leave_builders", "filled", "prepare_fork", "fork"}

\* The entry of a known thread is still there, with contents e.
EntryIs(t, e) ==
  /\ EntriesOf(t)' = {e} /\ \A u \in Threads \ {t} : EntriesOf(u)' = EntriesOf(u)
  /\ e.flags = table[Own(t)].flags /\ e.status = table[Own(t)].status

\* A thread that works on its own stays sound.
LEMMA AloneStep ==
  ASSUME WorldInv, SoundInv, NEW t \in Threads, CanRun(t), UNCHANGED stop, th[t].pc \in Alone,
         NEW r, th' = [th EXCEPT ![t] = r],
         r.pc \in Alone \/ (r.pc = "collect" /\ ~gc'.in_creation),
         r.joinable = th[t].joinable, r.result = th[t].result, r.unregisters = th[t].unregisters,
         NEW e, EntryIs(t, e),
         IF r.pc = "take" THEN r.obj \in e.tlfs.list ELSE r.obj = NULL
  PROVE  Sound(t, th[t], EntriesOf(t), stop.handler[t].pc, gc.in_creation)' /\ Leaves(t, r)
<1>1. th'[t] = r /\ Known(t)
  BY DEF WorldInv, ShapeInv, Known, Alone, Plain
<1>2. EntriesOf(t) = {table[Own(t)]} /\ FINISHED \notin table[Own(t)].flags
  BY <1>1, KnownEntry DEF WorldInv, TableInv
<1>3. /\ r.joinable => r.result \in {NULL, e.status}
      /\ DETACHED \in e.flags /\ r.joinable => r.result = NULL /\ (t = "Main" \/ r.unregisters \/ r.pc = "gone")
      /\ FINISHED \notin e.flags
  <2>1. Tells(t, th[t], table[Own(t)], stop.handler[t].pc)
    BY <1>2 DEF SoundInv, Sound
  <2> QED
    BY <1>2, <2>1 DEF Tells, EntryIs, Alone
<1>4. stop'.handler[t].pc = "none"
  BY DEF CanRun, InHandler
<1>5. Decent(r, gc'.in_creation) /\ r.pc # "blocked"
  BY DEF Decent, Alone, Plain
<1>6. Sound(t, th[t], EntriesOf(t), stop.handler[t].pc, gc.in_creation)'
  <2>1. Tells(t, r, e, "none")
    BY <1>3, <1>5 DEF Tells, Saved
  <2> QED
    BY <1>1, <1>4, <1>5, <2>1 DEF Sound, EntryIs, Tells, Decent, Shows, Saved
<1>7. Leaves(t, r)
  BY DEF Leaves, Starting, Left, Alone
<1> QED
  BY <1>6, <1>7

\* The table stays.
LEMMA EntryStays ==
  ASSUME WorldInv, NEW t \in Threads, Known(t), UNCHANGED table
  PROVE  EntryIs(t, table[Own(t)])
BY KnownEntry, SameEntriesOf DEF EntryIs

\* A list is stored.
LEMMA ListGets ==
  ASSUME WorldInv, ObjectInv, NEW t \in Threads, Known(t), NEW list,
         table' = [table EXCEPT ![Own(t)].tlfs.list = list]
  PROVE  \E e : EntryIs(t, e) /\ e.tlfs.list = list /\ e.stack = table[Own(t)].stack
<1>1. PICK k : k = Own(t)
  OBVIOUS
<1>2. PICK e : e = [table[k] EXCEPT !.tlfs.list = list]
  OBVIOUS
<1>3. k \in Index /\ Owner(k) = t /\ DOMAIN table[k] = EntryFields /\ Keeps(table[k])
  BY <1>1, KnownEntry DEF WorldInv, ShapeInv, ObjectInv, Index
<1>4. /\ e.of = t /\ e.flags = table[k].flags /\ e.status = table[k].status /\ e.stack = table[k].stack
      /\ e.tlfs = [table[k].tlfs EXCEPT !.list = list]
  BY <1>2, <1>3 DEF EntryFields, Owner
<1>5. e.tlfs.list = list
  BY <1>3, <1>4 DEF Keeps
<1>6. table' = [table EXCEPT ![k] = e]
  BY <1>1, <1>2
<1>7. EntriesOf(t)' = {e} /\ \A u : u # t => EntriesOf(u)' = EntriesOf(u)
  BY ONLY WorldInv, <1>3, <1>4, <1>6, EntryGets
<1>8. EntryIs(t, e)
  BY <1>1, <1>4, <1>7 DEF EntryIs
<1> QED
  BY <1>1, <1>4, <1>5, <1>8

\* What becomes of a thread whose place changes, and nothing else of note.
Same(r, q) ==
  /\ r.joinable = q.joinable /\ r.result = q.result /\ r.unregisters = q.unregisters
  /\ r.held \subseteq q.held /\ r.saved = q.saved /\ r.active = q.active

LEMMA GoesTo ==
  ASSUME WorldInv, NEW t \in Threads, NEW pc, NEW r, r = With(t, pc)
  PROVE  /\ Same(r, th[t]) /\ r.pc = pc /\ r.obj = th[t].obj /\ r.build = th[t].build
         /\ r.held = th[t].held /\ r.of = th[t].of /\ r.entry = th[t].entry /\ r.id = th[t].id
<1>1. DOMAIN th[t] = ThreadFields
  BY DEF WorldInv, ShapeInv
<1> QED
  BY <1>1 DEF Same, With, ThreadFields

\* A thread that works on its own leaves the heap and its list as they are.
LEMMA QuietAlone ==
  ASSUME WorldInv, ObjectInv, HeldInv, UNCHANGED <<stop, heap, menu>>, pm'.parallel = pm.parallel,
         CollectorGoesOnOrBegins, NEW t \in Threads, CanRun(t), th[t].pc \in Alone,
         NEW r, th' = [th EXCEPT ![t] = r],
         r.pc \in Alone \/ (r.pc = "collect" /\ ~gc'.in_creation), Same(r, th[t]),
         NEW e, EntryIs(t, e), e.tlfs.list = table[Own(t)].tlfs.list,
         IF r.pc = "take" THEN r.obj \in e.tlfs.list ELSE r.obj = NULL,
         BuildInv', PartOf(r, heap.marked) \subseteq PartOf(th[t], heap.marked)
  PROVE  HeldInv'
<1>1. Sound(t, th[t], EntriesOf(t), stop.handler[t].pc, gc.in_creation)' /\ Leaves(t, r)
  BY AloneStep DEF HeldInv, Same
<1>2. th'[t] = r /\ Known(t)
  BY DEF WorldInv, ShapeInv, Known, Alone, Plain
<1>3. ListOf(EntriesOf(t))' = ListOf(EntriesOf(t))
  BY <1>2, KnownEntry DEF ListOf, EntryIs
<1>4. Place(t)' \subseteq Place(t)
  BY <1>2, <1>3 DEF Place, PartOf
<1>5. HeldBy(r) \subseteq HeldBy(th[t]) /\ HeldBy(th[t]) \subseteq AllHeld
  BY DEF HeldBy, Same, AllHeld
<1> QED
  BY <1>1, <1>3, <1>4, <1>5, LiveFacts, QuietStep DEF EntryIs

\* The head of a list is only read.
LEMMA ReadsHeadHeld ==
  ASSUME WorldInv, ObjectInv, HeldInv, NEW t \in Threads, CanRun(t), th[t].pc \in {"run", "filled"}, ReadHead(t),
         UNCHANGED <<table, stop, gc, heap, pm, menu>>
  PROVE  HeldInv'
<1>1. Known(t) /\ th[t].pc \in Alone
  BY DEF Known, Plain, Alone
<1>2. EntryIs(t, table[Own(t)]) /\ Own(t) \in DOMAIN table
  BY <1>1, EntryStays, KnownEntry DEF Index
<1>3. PICK list : list = table[Own(t)].tlfs.list
  OBVIOUS
<1>4. list \in SUBSET Nat
  BY <1>2, <1>3, ObjectFacts DEF ObjectInv, Keeps, Blank, WorldInv, ShapeInv
<1>5. PICK r : /\ Became(t, r) /\ Same(r, th[t]) /\ r.pc \in {"run", "take"}
               /\ IF r.pc = "take" THEN r.obj \in list ELSE r.obj = NULL
  <2>1. CASE list # {}
    <3>1. PICK q : q = With(t, "take")
      OBVIOUS
    <3>2. PICK r : r = [q EXCEPT !.obj = Min(list)]
      OBVIOUS
    <3>3. Became(t, r) /\ Min(list) \in list
      BY <1>3, <1>4, <2>1, <3>1, <3>2, MinIn DEF ReadHead
    <3>4. Same(r, th[t]) /\ r.pc = "take" /\ r.obj = Min(list)
      BY <3>1, <3>2 DEF Same, With, WorldInv, ShapeInv, ThreadFields
    <3> QED
      BY <3>3, <3>4
  <2>2. CASE list = {}
    <3>1. PICK r : r = With(t, "run")
      OBVIOUS
    <3>2. Became(t, r) /\ th[t].obj = NULL
      BY <1>3, <2>2, <3>1 DEF ReadHead, HeldInv, SoundInv, Sound, Decent
    <3> QED
      BY <3>1, <3>2, GoesTo
  <2> QED
    BY <2>1, <2>2
<1>6. CollectorGoesOnOrBegins /\ th' = [th EXCEPT ![t] = r]
  BY <1>5 DEF CollectorGoesOnOrBegins, Became
<1>7. BuildInv'
  BY <1>5, <1>6, BuildStep DEF HeldInv, Sweeper
<1>8. PartOf(r, heap.marked) = {} /\ r.pc \in Alone
  BY <1>5 DEF PartOf, Alone
<1> QED
  BY <1>1, <1>2, <1>3, <1>5, <1>6, <1>7, <1>8, QuietAlone

\* GC_malloc.
LEMMA MallocHeld ==
  ASSUME WorldInv, ObjectInv, HeldInv, NEW t \in Threads, GC_malloc(t), UNCHANGED menu
  PROVE  HeldInv'
<1>1. /\ th[t].pc = "run" /\ CanRun(t) /\ UNCHANGED <<stop, gc, heap, pm>>
  BY DEF GC_malloc, In
<1>2. Known(t) /\ th[t].pc \in Alone /\ th[t].obj = NULL
  BY <1>1 DEF Known, Plain, Alone, HeldInv, SoundInv, Sound, Decent
<1>3. ASSUME NEW pc \in {"core", "many"}, Became(t, With(t, pc)), NEW e, EntryIs(t, e), e.tlfs.list = table[Own(t)].tlfs.list
      PROVE  HeldInv'
  <2>1. PICK r : r = With(t, pc)
    OBVIOUS
  <2>2. Same(r, th[t]) /\ r.pc = pc /\ r.obj = NULL
    BY <1>2, <2>1, GoesTo
  <2>3. CollectorGoesOnOrBegins /\ th' = [th EXCEPT ![t] = r]
    BY <1>1, <1>3, <2>1 DEF CollectorGoesOnOrBegins, Became
  <2>4. BuildInv'
    BY <1>1, <2>2, <2>3, BuildStep DEF HeldInv, Sweeper
  <2>5. PartOf(r, heap.marked) = {} /\ r.pc \in Alone
    BY <2>2 DEF PartOf, Alone
  <2> QED
    BY <1>1, <1>2, <1>3, <2>2, <2>3, <2>4, <2>5, QuietAlone
<1>4. CASE table[Own(t)].tlfs.counting
  <2>1. table' = [table EXCEPT ![Own(t)].tlfs.counting = FALSE] /\ Became(t, With(t, "core"))
    BY <1>4 DEF GC_malloc
  <2>2. PICK k : k = Own(t)
    OBVIOUS
  <2>3. PICK e : e = [table[k] EXCEPT !.tlfs.counting = FALSE]
    OBVIOUS
  <2>4. k \in Index /\ Owner(k) = t /\ DOMAIN table[k] = EntryFields /\ Keeps(table[k])
    BY <1>2, <2>2, KnownEntry DEF WorldInv, ShapeInv, ObjectInv, Index
  <2>5. /\ e.of = t /\ e.flags = table[k].flags /\ e.status = table[k].status
        /\ e.tlfs = [table[k].tlfs EXCEPT !.counting = FALSE]
    BY <2>3, <2>4 DEF EntryFields, Owner
  <2>6. e.tlfs.list = table[k].tlfs.list
    BY <2>4, <2>5 DEF Keeps
  <2>7. table' = [table EXCEPT ![k] = e]
    BY <2>1, <2>2, <2>3
  <2>8. EntriesOf(t)' = {e} /\ \A u : u # t => EntriesOf(u)' = EntriesOf(u)
    BY ONLY WorldInv, <2>4, <2>5, <2>7, EntryGets
  <2>9. EntryIs(t, e)
    BY <2>2, <2>5, <2>8 DEF EntryIs
  <2> QED
    BY <1>3, <2>1, <2>2, <2>6, <2>9
<1>5. CASE ~table[Own(t)].tlfs.counting /\ Became(t, With(t, "many")) /\ UNCHANGED table
  BY <1>2, <1>3, <1>5, EntryStays
<1>6. CASE ReadHead(t) /\ UNCHANGED table
  BY <1>1, <1>6, ReadsHeadHeld
<1> QED
  BY <1>4, <1>5, <1>6 DEF GC_malloc

\* The head of a list is taken; nothing points anywhere from it.
LEMMA TakeHeadHeld ==
  ASSUME WorldInv, ObjectInv, HeldInv, NEW t \in Threads, TakeHead(t), UNCHANGED menu
  PROVE  HeldInv'
<1>1. /\ th[t].pc = "take" /\ CanRun(t) /\ UNCHANGED <<stop, gc, heap, pm>>
  BY DEF TakeHead, In
<1>2. Known(t) /\ th[t].pc \in Alone
  BY <1>1 DEF Known, Plain, Alone
<1>3. EntriesOf(t) = {table[Own(t)]} /\ Own(t) \in DOMAIN table
  BY <1>2, KnownEntry DEF Index
<1>4. PICK o, list : o = th[t].obj /\ list = table[Own(t)].tlfs.list
  OBVIOUS
<1>5. o \in list /\ o \in Objects /\ o # NULL /\ heap.points[o] = {}
  <2>1. o \in list
    BY <1>1, <1>3, <1>4 DEF HeldInv, SoundInv, Sound, Tells
  <2> QED
    BY <1>3, <1>4, <2>1, ObjectFacts DEF ObjectInv, Keeps, Blank, WorldInv, ShapeInv
<1>6. PICK e : EntryIs(t, e) /\ e.tlfs.list = list \ {o}
  <2>1. table' = [table EXCEPT ![Own(t)].tlfs.list = list \ {o}]
    BY <1>4 DEF TakeHead
  <2> QED
    BY ONLY WorldInv, ObjectInv, t \in Threads, <1>2, <2>1, ListGets, ZenonT(30)
<1>7. PICK r : r = [With(t, "run") EXCEPT !.held = @ \cup {o}, !.obj = NULL]
  OBVIOUS
<1>8. /\ r.held = th[t].held \cup {o} /\ r.saved = th[t].saved /\ r.active = th[t].active
      /\ r.obj = NULL /\ r.pc = "run"
      /\ r.joinable = th[t].joinable /\ r.result = th[t].result /\ r.unregisters = th[t].unregisters
  BY <1>7 DEF With, WorldInv, ShapeInv, ThreadFields
<1>9. th' = [th EXCEPT ![t] = r] /\ th'[t] = r
  BY <1>4, <1>7 DEF TakeHead, Became, WorldInv, ShapeInv
<1>10. CollectorGoesOnOrBegins
  BY <1>1 DEF CollectorGoesOnOrBegins
<1>11. Sound(t, th[t], EntriesOf(t), stop.handler[t].pc, gc.in_creation)' /\ Leaves(t, r)
  BY <1>1, <1>2, <1>6, <1>8, <1>9, AloneStep DEF HeldInv, Alone
<1>12. BuildInv'
  BY <1>1, <1>8, <1>9, <1>10, BuildStep DEF HeldInv, Sweeper
<1>13. Place(t) = list /\ Place(t)' = list \ {o} /\ ListOf(EntriesOf(t)) = list /\ ListOf(EntriesOf(t))' = list \ {o}
  <2>1. ListOf(EntriesOf(t)) = list /\ ListOf(EntriesOf(t))' = list \ {o}
    BY <1>3, <1>4, <1>6 DEF ListOf, EntryIs
  <2> QED
    BY <1>1, <1>8, <1>9, <2>1 DEF Place, PartOf
<1>14. HeldBy(r) \subseteq Live \cup {o}
  <2>1. HeldBy(th[t]) \subseteq Live
    BY LiveFacts DEF AllHeld
  <2> QED
    BY <1>8, <2>1 DEF HeldBy
<1>15. Unswept' = Unswept
  BY <1>1 DEF Unswept, Sweeping, Waiting, Swept
<1>16. /\ list \cap heap.free = {} /\ list \cap Unswept = {} /\ heap.free \cap Unswept = {}
  BY <1>13 DEF HeldInv, OwnerInv
<1> DEFINE new == {o}
<1>17. /\ heap'.free \subseteq heap.free \cup Unswept \cup Place(t)
       /\ Unswept' \subseteq heap.free \cup Unswept \cup Place(t)
       /\ Place(t)' \subseteq heap.free \cup Unswept \cup Place(t)
       /\ new \subseteq heap.free \cup Unswept \cup Place(t)
       /\ heap'.free \cap Unswept' = {} /\ heap'.free \cap Place(t)' = {} /\ Unswept' \cap Place(t)' = {}
       /\ new \cap heap'.free = {} /\ new \cap Unswept' = {} /\ new \cap Place(t)' = {}
  BY <1>1, <1>5, <1>13, <1>15, <1>16
<1>18. /\ \A x \in Live : heap'.points[x] \subseteq heap.points[x]
       /\ \A x \in new : heap'.points[x] = {}
       /\ new \subseteq ListOf(EntriesOf(t)) /\ HeldBy(r) \subseteq Live \cup new
       /\ heap'.marked = heap.marked /\ pm'.parallel = pm.parallel
  BY <1>1, <1>5, <1>13, <1>14
<1> HIDE DEF new
<1> QED
  BY <1>1, <1>6, <1>9, <1>10, <1>11, <1>12, <1>13, <1>17, <1>18, MovingStep DEF EntryIs

\* A collection starts.
LEMMA StartHeld ==
  ASSUME WorldInv, ObjectInv, HeldInv, NEW t \in Threads, CanRun(t), th[t].pc \in Alone, th[t].obj = NULL, NEW then,
         StartGC(t, then, FALSE), gc.phase = "none", th[t].pc \notin Sweeper,
         UNCHANGED <<table, stop, heap, pm, menu>>
  PROVE  HeldInv'
<1>1. PICK r : r = With(t, "collect")
  OBVIOUS
<1>2. Same(r, th[t]) /\ r.pc = "collect" /\ r.obj = NULL
  BY <1>1, GoesTo
<1>3. th' = [th EXCEPT ![t] = r]
  BY <1>1 DEF StartGC, Became
<1>4. CollectorGoesOnOrBegins /\ ~gc'.in_creation /\ gc'.builders = gc.builders
  BY DEF StartGC, CollectorGoesOnOrBegins, WorldInv, ShapeInv, CollectorFields
<1>5. BuildInv'
  BY <1>2, <1>3, <1>4, BuildStep DEF HeldInv, Sweeper
<1>6. PartOf(r, heap.marked) = {}
  BY <1>2 DEF PartOf
<1>7. EntryIs(t, table[Own(t)])
  BY EntryStays DEF Known, Alone, Plain
<1> QED
  BY <1>2, <1>3, <1>4, <1>5, <1>6, <1>7, QuietAlone

\* A thread joins those that build a list.  It has the lock, so nobody collects or forks.
LEMMA JoinBuildersHeld ==
  ASSUME WorldInv, ObjectInv, HeldInv, NEW t \in Threads, JoinBuilders(t), UNCHANGED menu
  PROVE  HeldInv'
<1>1. /\ th[t].pc = "join_builders" /\ CanRun(t) /\ UNCHANGED <<table, stop, heap, pm>>
      /\ gc' = [gc EXCEPT !.builders = @ + 1]
  BY DEF JoinBuilders, In
<1>2. PICK r : r = With(t, "sweep")
  OBVIOUS
<1>3. Same(r, th[t]) /\ r.pc = "sweep" /\ r.obj = NULL /\ r.build = th[t].build
  BY <1>1, <1>2, GoesTo DEF HeldInv, SoundInv, Sound, Decent
<1>4. th' = [th EXCEPT ![t] = r] /\ th'[t] = r /\ \A u \in Threads \ {t} : th'[u] = th[u]
  BY <1>2 DEF JoinBuilders, Became, WorldInv, ShapeInv
<1>5. gc'.phase = gc.phase /\ gc'.in_creation = gc.in_creation /\ gc'.builders = gc.builders + 1
  BY <1>1 DEF WorldInv, ShapeInv, CollectorFields
<1>6. lock = t /\ gc.phase = "none"
  BY <1>1, NobodyCollects DEF WorldInv, LockInv, Locking
<1>7. BuildInv'
  <2>1. t \notin Builders /\ Builders' = Builders \cup {t}
    BY <1>1, <1>3, <1>4 DEF Builders, Sweeper
  <2>2. IsFiniteSet(Builders') /\ Cardinality(Builders') = Cardinality(Builders) + 1
    BY <2>1, FS_AddElement DEF HeldInv, BuildInv
  <2>3. Sweeping'
    BY <1>5, <1>6 DEF Sweeping
  <2>4. \A u \in Threads : th'[u].pc \in Sweeper \cup {"join_builders"} => pm'.parallel
    BY <1>1, <1>4 DEF HeldInv, BuildInv
  <2>5. \A u \in Threads : th'[u].pc # "fork"
    <3>1. ASSUME NEW u \in Threads, th'[u].pc = "fork" PROVE FALSE
      <4>1. u # t /\ th[u].pc = "fork"
        BY <1>3, <1>4, <3>1
      <4> QED
        BY <1>6, <4>1 DEF WorldInv, LockInv, Locking
    <3> QED
      BY <3>1
  <2> QED
    BY <1>5, <2>2, <2>3, <2>4, <2>5 DEF HeldInv, BuildInv
<1>8. PartOf(r, heap.marked) = PartOf(th[t], heap.marked)
  BY <1>1, <1>3 DEF PartOf
<1>9. th[t].pc \in Alone /\ r.pc \in Alone /\ Known(t) /\ CollectorGoesOnOrBegins
  BY <1>1, <1>3, <1>5 DEF Alone, Known, Plain, CollectorGoesOnOrBegins
<1> QED
  BY <1>1, <1>3, <1>4, <1>7, <1>8, <1>9, EntryStays, QuietAlone

\* The thread has built its list.
LEMMA LeaveBuildersHeld ==
  ASSUME WorldInv, ObjectInv, HeldInv, NEW t \in Threads, LeaveBuilders(t), UNCHANGED menu
  PROVE  HeldInv'
<1>1. /\ th[t].pc = "leave_builders" /\ CanRun(t) /\ UNCHANGED <<table, stop, heap, pm>>
  BY DEF LeaveBuilders, In
<1>2. PICK r : r = With(t, "filled")
  OBVIOUS
<1>3. Same(r, th[t]) /\ r.pc = "filled" /\ r.obj = NULL
  BY <1>1, <1>2, GoesTo DEF HeldInv, SoundInv, Sound, Decent
<1>4. th' = [th EXCEPT ![t] = r] /\ th'[t] = r /\ \A u \in Threads \ {t} : th'[u] = th[u]
  BY <1>2 DEF LeaveBuilders, Became, WorldInv, ShapeInv
<1>5. gc'.phase = gc.phase /\ gc'.in_creation = gc.in_creation /\ gc'.builders = gc.builders - 1
  BY DEF LeaveBuilders, WorldInv, ShapeInv, CollectorFields
<1>6. BuildInv'
  <2>1. t \in Builders /\ Builders' = Builders \ {t}
    BY <1>1, <1>3, <1>4 DEF Builders, Sweeper
  <2>2. IsFiniteSet(Builders') /\ Cardinality(Builders') = Cardinality(Builders) - 1
    BY <2>1, FS_RemoveElement DEF HeldInv, BuildInv
  <2>3. ~Sweeping' => ~Sweeping
    BY <1>5 DEF Sweeping
  <2>4. \A u \in Threads : th'[u].pc \in Sweeper \cup {"join_builders"} => pm'.parallel
    BY <1>1, <1>3, <1>4 DEF HeldInv, BuildInv, Sweeper
  <2>5. \A u \in Threads : th'[u].pc = "fork" => th[u].pc = "fork"
    BY <1>3, <1>4
  <2> QED
    BY <1>5, <2>1, <2>2, <2>3, <2>4, <2>5 DEF HeldInv, BuildInv
<1>7. PartOf(r, heap.marked) = {}
  BY <1>3 DEF PartOf
<1>8. th[t].pc \in Alone /\ r.pc \in Alone /\ Known(t) /\ CollectorGoesOnOrBegins
  BY <1>1, <1>3, <1>5 DEF Alone, Known, Plain, CollectorGoesOnOrBegins
<1> QED
  BY <1>1, <1>3, <1>4, <1>6, <1>7, <1>8, EntryStays, QuietAlone

\* A block is swept: what is not marked is cleared.
LEMMA SweepBlockHeld ==
  ASSUME WorldInv, ObjectInv, HeldInv, NEW t \in Threads, SweepBlock(t), UNCHANGED menu
  PROVE  HeldInv'
<1>1. /\ th[t].pc = "sweep" /\ CanRun(t) /\ UNCHANGED <<table, stop, gc, pm>>
  BY DEF SweepBlock, In
<1>2. Known(t) /\ th[t].pc \in Alone /\ th[t].obj = NULL
  BY <1>1 DEF Known, Plain, Alone, HeldInv, SoundInv, Sound, Decent
<1>3. PICK S : S = Swept(th[t].build)
  OBVIOUS
<1>4. heap' = [heap EXCEPT !.points = Cleared(S)]
  BY <1>3 DEF SweepBlock
<1>5. /\ heap'.free = heap.free /\ heap'.marked = heap.marked /\ heap'.reclaimable = heap.reclaimable
      /\ \A o \in Objects : heap'.points[o] = IF o \in S THEN {} ELSE heap.points[o]
  BY <1>4 DEF ObjectInv, HeapInv, HeapFields, Cleared
<1>6. PICK r : r = [With(t, "store_list") EXCEPT !.build = S]
  OBVIOUS
<1>7. Same(r, th[t]) /\ r.pc = "store_list" /\ r.obj = NULL /\ r.build = S
  BY <1>2, <1>6 DEF Same, With, WorldInv, ShapeInv, ThreadFields
<1>8. th' = [th EXCEPT ![t] = r] /\ th'[t] = r
  <2>1. [With(t, "store_list") EXCEPT !.build = Swept(@)] = r
    BY <1>3, <1>6 DEF With, WorldInv, ShapeInv, ThreadFields
  <2> QED
    BY <2>1 DEF SweepBlock, Became, WorldInv, ShapeInv
<1>9. CollectorGoesOnOrBegins
  BY <1>1 DEF CollectorGoesOnOrBegins
<1>10. EntryIs(t, table[Own(t)])
  BY <1>1, <1>2, EntryStays
<1>11. Sound(t, th[t], EntriesOf(t), stop.handler[t].pc, gc.in_creation)' /\ Leaves(t, r)
  BY <1>1, <1>2, <1>7, <1>8, <1>10, AloneStep DEF HeldInv, Alone, Same
<1>12. BuildInv'
  BY <1>1, <1>7, <1>8, <1>9, BuildStep DEF HeldInv, Sweeper
<1>13. Place(t)' = Place(t) /\ ListOf(EntriesOf(t))' = ListOf(EntriesOf(t))
  <2>1. EntriesOf(t)' = EntriesOf(t)
    BY <1>1, SameEntriesOf
  <2>2. PartOf(r, heap.marked) = PartOf(th[t], heap.marked)
    BY <1>1, <1>3, <1>7 DEF PartOf, Swept
  <2> QED
    BY <1>5, <1>8, <2>1, <2>2 DEF Place, ListOf, PartOf
<1>14. Unswept' = Unswept
  BY <1>1, <1>5 DEF Unswept, Sweeping, Waiting, Swept
<1>15. HeldBy(r) \subseteq Live
  BY <1>7, LiveFacts DEF AllHeld, HeldBy, Same
<1>16. Place(t) \cap heap.free = {} /\ Place(t) \cap Unswept = {} /\ heap.free \cap Unswept = {}
  BY DEF HeldInv, OwnerInv
<1>17. \A x \in Live : heap'.points[x] \subseteq heap.points[x]
  BY <1>5, LiveFacts
<1> DEFINE new == {}
<1>18. /\ heap'.free \subseteq heap.free \cup Unswept \cup Place(t)
       /\ Unswept' \subseteq heap.free \cup Unswept \cup Place(t)
       /\ Place(t)' \subseteq heap.free \cup Unswept \cup Place(t)
       /\ new \subseteq heap.free \cup Unswept \cup Place(t)
       /\ heap'.free \cap Unswept' = {} /\ heap'.free \cap Place(t)' = {} /\ Unswept' \cap Place(t)' = {}
       /\ new \cap heap'.free = {} /\ new \cap Unswept' = {} /\ new \cap Place(t)' = {}
       /\ \A x \in new : heap'.points[x] = {}
       /\ new \subseteq ListOf(EntriesOf(t)) /\ HeldBy(r) \subseteq Live \cup new
  BY <1>5, <1>13, <1>14, <1>15, <1>16
<1> HIDE DEF new
<1> QED
  BY <1>1, <1>5, <1>8, <1>9, <1>10, <1>11, <1>12, <1>13, <1>17, <1>18, MovingStep DEF EntryIs

\* The list is stored; no collection can have begun to mark.
LEMMA StoreListHeld ==
  ASSUME WorldInv, ObjectInv, HeldInv, NEW t \in Threads, StoreList(t), UNCHANGED menu
  PROVE  HeldInv'
<1>1. /\ th[t].pc = "store_list" /\ CanRun(t) /\ UNCHANGED <<stop, gc, heap, pm>>
  BY DEF StoreList, In
<1>2. Known(t) /\ th[t].pc \in Alone /\ th[t].obj = NULL
  BY <1>1 DEF Known, Plain, Alone, HeldInv, SoundInv, Sound, Decent
<1>3. PICK r : r = [With(t, "leave_builders") EXCEPT !.build = {}]
  OBVIOUS
<1>4. Same(r, th[t]) /\ r.pc = "leave_builders" /\ r.obj = NULL
  BY <1>2, <1>3 DEF Same, With, WorldInv, ShapeInv, ThreadFields
<1>5. th' = [th EXCEPT ![t] = r] /\ th'[t] = r
  BY <1>3 DEF StoreList, Became, WorldInv, ShapeInv
<1>6. PICK list : list = th[t].build
  OBVIOUS
<1>7. PICK e : EntryIs(t, e) /\ e.tlfs.list = list
  <2>1. table' = [table EXCEPT ![Own(t)].tlfs.list = list]
    BY <1>6 DEF StoreList
  <2> QED
    BY ONLY WorldInv, ObjectInv, t \in Threads, <1>2, <2>1, ListGets, ZenonT(30)
<1>8. CollectorGoesOnOrBegins
  BY <1>1 DEF CollectorGoesOnOrBegins
<1>9. Sound(t, th[t], EntriesOf(t), stop.handler[t].pc, gc.in_creation)' /\ Leaves(t, r)
  BY <1>1, <1>2, <1>4, <1>5, <1>7, AloneStep DEF HeldInv, Alone, Same
<1>10. BuildInv'
  BY <1>1, <1>4, <1>5, <1>8, BuildStep DEF HeldInv, Sweeper
<1>11. gc.phase \notin {"mark", "start", "restart"}
  <2>1. t \in Builders
    BY <1>1 DEF Builders, Sweeper
  <2> QED
    BY <2>1 DEF HeldInv, BuildInv, Sweeping
<1>12. Place(t)' \subseteq Place(t)
  <2>1. ListOf(EntriesOf(t))' = list
    BY <1>7 DEF ListOf, EntryIs
  <2>2. list \subseteq Place(t)
    BY <1>1, <1>6 DEF Place, PartOf
  <2> QED
    BY <1>4, <1>5, <2>1, <2>2 DEF Place, PartOf
<1>13. HeldBy(r) \subseteq Live
  BY <1>4, LiveFacts DEF AllHeld, HeldBy, Same
<1> QED
  BY <1>1, <1>5, <1>7, <1>8, <1>9, <1>10, <1>11, <1>12, <1>13, QuietStep DEF EntryIs

\* A thread forgets an object, or goes on with the list it has filled.
LEMMA ForgetHeld ==
  ASSUME WorldInv, ObjectInv, HeldInv, NEW t \in Threads, Forget(t), UNCHANGED menu
  PROVE  HeldInv'
<1>1. /\ th[t].pc = "run" /\ CanRun(t) /\ UNCHANGED <<table, stop, gc, heap, pm>>
  BY DEF Forget, In
<1>2. Known(t) /\ th[t].pc \in Alone /\ th[t].obj = NULL
  BY <1>1 DEF Known, Plain, Alone, HeldInv, SoundInv, Sound, Decent
<1>3. PICK o \in th[t].held : Became(t, [th[t] EXCEPT !.held = @ \ {o}])
  BY DEF Forget
<1>4. PICK r : r = [th[t] EXCEPT !.held = @ \ {o}]
  OBVIOUS
<1>5. Same(r, th[t]) /\ r.pc = "run" /\ r.obj = NULL
  BY <1>1, <1>2, <1>4 DEF Same, WorldInv, ShapeInv, ThreadFields
<1>6. th' = [th EXCEPT ![t] = r] /\ CollectorGoesOnOrBegins
  BY <1>1, <1>3, <1>4 DEF Became, CollectorGoesOnOrBegins
<1>7. BuildInv'
  BY <1>1, <1>5, <1>6, BuildStep DEF HeldInv, Sweeper
<1>8. PartOf(r, heap.marked) = {} /\ r.pc \in Alone
  BY <1>5 DEF PartOf, Alone
<1> QED
  BY <1>1, <1>2, <1>5, <1>6, <1>7, <1>8, EntryStays, QuietAlone

\* What is swept of a block waits to be swept, and in no other block.
LEMMA BlockWaits ==
  ASSUME menu \in Menus, HeapInv, heap.reclaimable # {}, NEW b, b = NextBlock
  PROVE  /\ b \in heap.reclaimable /\ Swept(b) \subseteq Waiting /\ Swept(b) \in SUBSET Objects
         /\ \A c \in heap.reclaimable \ {b} : Swept(b) \cap Swept(c) = {}
<1>1. b \in heap.reclaimable /\ Swept(b) \in SUBSET Objects
  BY NextWaits
<1>2. ASSUME NEW c \in heap.reclaimable \ {b} PROVE b \cap c = {}
  BY <1>1, <1>2, Heaps DEF HeapInv
<1> QED
  BY <1>1, <1>2 DEF Swept, Waiting

\* Objects go from the free lists and the blocks to the list of the thread, and to
\* its stack, or wait: `new' to the stack, `place' to what is the thread's alone.
Moves(t, new, place) ==
  /\ heap'.marked = heap.marked
  /\ \A o \in Live : heap'.points[o] \subseteq heap.points[o]
  /\ \A o \in new : heap'.points[o] = {}
  /\ heap'.free \subseteq heap.free \cup Unswept \cup Place(t)
  /\ Unswept' \subseteq heap.free \cup Unswept \cup Place(t)
  /\ place \subseteq heap.free \cup Unswept \cup Place(t)
  /\ new \subseteq heap.free \cup Unswept \cup Place(t)
  /\ heap'.free \cap Unswept' = {} /\ heap'.free \cap place = {} /\ Unswept' \cap place = {}
  /\ new \cap heap'.free = {} /\ new \cap Unswept' = {} /\ new \cap place = {}

\* The thread was about to allocate and goes on from there.
Allots(t, r, new) ==
  /\ th' = [th EXCEPT ![t] = r] /\ r.pc \in {"run", "filled", "join_builders"} /\ r.obj = NULL
  /\ r.joinable = th[t].joinable /\ r.result = th[t].result /\ r.unregisters = th[t].unregisters
  /\ r.saved = th[t].saved /\ r.active = th[t].active /\ r.held \subseteq th[t].held \cup new
  /\ r.pc = "join_builders" => pm.parallel

LEMMA MallocStep ==
  ASSUME WorldInv, ObjectInv, HeldInv, UNCHANGED <<stop, gc, menu>>, pm'.parallel = pm.parallel,
         gc.phase = "none", NEW t \in Threads, CanRun(t), th[t].pc \in {"core", "core_again", "many", "many_again"},
         NEW r, NEW new, Allots(t, r, new),
         NEW e, EntryIs(t, e), Moves(t, new, e.tlfs.list \cup PartOf(r, heap.marked))
  PROVE  HeldInv'
<1>1. th[t].pc \in Alone /\ r.pc \in Alone /\ Known(t) /\ CollectorGoesOnOrBegins
  BY DEF Alone, Known, Plain, CollectorGoesOnOrBegins, Allots
<1>2. th' = [th EXCEPT ![t] = r] /\ th'[t] = r
  BY DEF WorldInv, ShapeInv, Allots
<1>3. Sound(t, th[t], EntriesOf(t), stop.handler[t].pc, gc.in_creation)' /\ Leaves(t, r)
  BY <1>1, <1>2, AloneStep DEF HeldInv, Allots
<1>4. BuildInv'
  BY <1>1, <1>2, BuildStep, ZenonT(30) DEF HeldInv, Sweeper, Allots
<1>5. PICK place : place = e.tlfs.list \cup PartOf(r, heap.marked)
  OBVIOUS
<1>6. Place(t)' = place
  BY <1>2, <1>5 DEF Place, ListOf, PartOf, EntryIs, Moves
<1>7. HeldBy(r) \subseteq Live \cup new
  <2>1. HeldBy(th[t]) \subseteq Live
    BY LiveFacts DEF AllHeld
  <2> QED
    BY <2>1 DEF HeldBy, Allots
<1>8. /\ heap'.marked = heap.marked
      /\ \A o \in Live : heap'.points[o] \subseteq heap.points[o]
      /\ \A o \in new : heap'.points[o] = {}
      /\ heap'.free \subseteq heap.free \cup Unswept \cup Place(t)
      /\ Unswept' \subseteq heap.free \cup Unswept \cup Place(t)
      /\ Place(t)' \subseteq heap.free \cup Unswept \cup Place(t)
      /\ new \subseteq heap.free \cup Unswept \cup Place(t)
      /\ heap'.free \cap Unswept' = {} /\ heap'.free \cap Place(t)' = {} /\ Unswept' \cap Place(t)' = {}
      /\ new \cap heap'.free = {} /\ new \cap Unswept' = {} /\ new \cap Place(t)' = {}
  BY <1>5, <1>6 DEF Moves
<1>9. \A u \in Threads \ {t} : EntriesOf(u)' = EntriesOf(u)
  BY DEF EntryIs
<1>10. gc.phase \notin {"mark", "start", "restart"} /\ UNCHANGED <<stop, menu>>
  OBVIOUS
<1> QED
  BY <1>1, <1>2, <1>3, <1>4, <1>7, <1>8, <1>9, <1>10, MovingStep

\* GC_allocobj: an object is taken from the free list, or from a block that is swept for it.
LEMMA TakesHeld ==
  ASSUME WorldInv, ObjectInv, HeldInv, UNCHANGED <<gc, menu>>, gc.phase = "none", GC_allocobj # {}, TakeObject,
         NEW o, o = Min(GC_allocobj)
  PROVE  /\ o \in heap.free \cup Unswept /\ heap'.points[o] = {}
         /\ heap'.free \subseteq heap.free \cup Unswept /\ Unswept' \subseteq heap.free \cup Unswept
         /\ heap'.free \cap Unswept' = {} /\ o \notin heap'.free /\ o \notin Unswept'
         /\ heap'.marked = heap.marked /\ \A x \in Live : heap'.points[x] \subseteq heap.points[x]
<1>1. HeapInv /\ menu \in Menus /\ Sweeping /\ Sweeping'
  BY DEF ObjectInv, WorldInv, ShapeInv, Sweeping
<1>2. Unswept = Waiting /\ heap.free \cap Waiting = {} /\ Live \cap Waiting = {} /\ Live \subseteq Objects
  BY <1>1, LiveFacts DEF HeldInv, OwnerInv, Unswept
<1>3. CASE Refills
  <2>1. PICK b : b = NextBlock
    OBVIOUS
  <2>2. /\ b \in heap.reclaimable /\ Swept(b) \subseteq Waiting /\ Swept(b) \in SUBSET Objects
        /\ \A c \in heap.reclaimable \ {b} : Swept(b) \cap Swept(c) = {}
    BY <1>1, <1>3, <2>1, BlockWaits DEF Refills
  <2>3. GC_allocobj = Swept(b)
    BY <1>3, <2>1 DEF GC_allocobj
  <2>4. o \in Swept(b)
    BY <1>1, <2>2, <2>3, MinIn, ObjectFacts
  <2>5. /\ heap'.free = Swept(b) \ {o} /\ heap'.reclaimable = heap.reclaimable \ {b}
        /\ heap'.marked = heap.marked /\ heap'.points = Cleared(Swept(b))
    BY <1>1, <1>3, <2>1, <2>3 DEF TakeObject, HeapInv, HeapFields
  <2>6. \A x \in Objects : heap'.points[x] = IF x \in Swept(b) THEN {} ELSE heap.points[x]
    BY <2>5 DEF Cleared
  <2>7. Unswept' = UNION {Swept(c) : c \in heap.reclaimable \ {b}}
    BY <1>1, <2>5 DEF Unswept, Waiting, Swept
  <2>8. Unswept' \subseteq Waiting /\ Swept(b) \cap Unswept' = {}
    BY <2>2, <2>7 DEF Waiting
  <2> QED
    BY <1>2, <2>2, <2>4, <2>5, <2>6, <2>8
<1>4. CASE ~Refills
  <2>1. GC_allocobj = heap.free
    BY <1>4 DEF GC_allocobj
  <2>2. o \in heap.free /\ o \in Objects /\ heap.points[o] = {}
    <3>1. heap.free \in SUBSET Nat /\ \A x \in heap.free : x \in Objects /\ heap.points[x] = {}
      BY <1>1, ObjectFacts DEF HeapInv, Blank
    <3>2. o \in heap.free
      BY <2>1, <3>1, MinIn
    <3> QED
      BY <3>1, <3>2
  <2>3. /\ heap'.free = heap.free \ {o} /\ heap'.reclaimable = heap.reclaimable
        /\ heap'.marked = heap.marked /\ heap'.points = heap.points
    BY <1>1, <1>4, <2>1 DEF TakeObject, HeapInv, HeapFields
  <2>4. Unswept' = Waiting
    BY <1>1, <2>3 DEF Unswept, Waiting, Swept
  <2> QED
    BY <1>2, <2>2, <2>3, <2>4
<1> QED
  BY <1>3, <1>4

\* GC_core_malloc gives out what nobody has.
LEMMA CoreMallocHeld ==
  ASSUME WorldInv, ObjectInv, HeldInv, NEW t \in Threads, GC_core_malloc(t), UNCHANGED menu
  PROVE  HeldInv'
<1>1. /\ th[t].pc \in {"core", "core_again"} /\ CanRun(t) /\ UNCHANGED <<table, stop, pm>> /\ lock \in {NULL, t}
  BY DEF GC_core_malloc, In, GetsLock
<1>2. Known(t) /\ th[t].pc \in Alone /\ th[t].obj = NULL /\ gc.phase = "none" /\ th[t].pc \notin Sweeper
  BY <1>1, NobodyCollects DEF Known, Plain, Alone, HeldInv, SoundInv, Sound, Decent, WorldInv, Sweeper
<1>3. CASE StartGC(t, "core_again", FALSE) /\ UNCHANGED heap
  BY <1>1, <1>2, <1>3, StartHeld
<1>4. EntryIs(t, table[Own(t)])
  BY <1>1, <1>2, EntryStays
<1>5. CASE Became(t, With(t, "run")) /\ UNCHANGED <<gc, heap>>
  <2>1. PICK r : r = With(t, "run")
    OBVIOUS
  <2>2. Same(r, th[t]) /\ r.pc = "run" /\ r.obj = NULL
    BY <1>2, <2>1, GoesTo
  <2>3. CollectorGoesOnOrBegins /\ th' = [th EXCEPT ![t] = r]
    BY <1>5, <2>1 DEF CollectorGoesOnOrBegins, Became
  <2>4. BuildInv'
    BY <1>1, <1>2, <1>5, <2>2, <2>3, BuildStep DEF HeldInv, Sweeper
  <2>5. PartOf(r, heap.marked) = {} /\ r.pc \in Alone
    BY <2>2 DEF PartOf, Alone
  <2> QED
    BY <1>1, <1>2, <1>4, <1>5, <2>2, <2>3, <2>4, <2>5, QuietAlone
<1>6. CASE /\ GC_allocobj # {} /\ TakeObject /\ UNCHANGED gc
           /\ Became(t, [With(t, "run") EXCEPT !.held = @ \cup {Min(GC_allocobj)}])
  <2>1. PICK o : o = Min(GC_allocobj)
    OBVIOUS
  <2>2. PICK r : r = [With(t, "run") EXCEPT !.held = @ \cup {o}]
    OBVIOUS
  <2>3. /\ r.held = th[t].held \cup {o} /\ r.saved = th[t].saved /\ r.active = th[t].active
        /\ r.obj = NULL /\ r.pc = "run"
        /\ r.joinable = th[t].joinable /\ r.result = th[t].result /\ r.unregisters = th[t].unregisters
    BY <1>2, <2>2 DEF With, WorldInv, ShapeInv, ThreadFields
  <2>4. th' = [th EXCEPT ![t] = r]
    BY <1>6, <2>1, <2>2 DEF Became
  <2>5. /\ o \in heap.free \cup Unswept /\ heap'.points[o] = {}
        /\ heap'.free \subseteq heap.free \cup Unswept /\ Unswept' \subseteq heap.free \cup Unswept
        /\ heap'.free \cap Unswept' = {} /\ o \notin heap'.free /\ o \notin Unswept'
        /\ heap'.marked = heap.marked /\ \A x \in Live : heap'.points[x] \subseteq heap.points[x]
    BY <1>2, <1>6, <2>1, TakesHeld
  <2>6. PICK e, place, new : e = table[Own(t)] /\ place = e.tlfs.list \cup PartOf(r, heap.marked) /\ new = {o}
    OBVIOUS
  <2>7. place \subseteq Place(t) /\ Place(t) \cap heap.free = {} /\ Place(t) \cap Unswept = {}
    <3>1. EntriesOf(t) = {e}
      BY <1>2, <2>6, KnownEntry
    <3> QED
      BY <2>3, <2>6, <3>1 DEF HeldInv, OwnerInv, PartOf, Place, ListOf
  <2>8. Moves(t, new, place)
    BY <2>5, <2>6, <2>7 DEF Moves
  <2>9. Allots(t, r, new)
    BY <2>3, <2>4, <2>6 DEF Allots
  <2> QED
    BY <1>1, <1>2, <1>4, <1>6, <2>6, <2>8, <2>9, MallocStep
<1> QED
  BY <1>3, <1>5, <1>6 DEF GC_core_malloc

\* A thread gets a list in one go.
LEMMA ManyStep ==
  ASSUME WorldInv, ObjectInv, HeldInv, NEW t \in Threads, CanRun(t), th[t].pc \in {"many", "many_again"},
         gc.phase = "none", UNCHANGED <<stop, gc, pm, menu>>, NEW list, ManyInOneGo(t, list), Moves(t, {}, list)
  PROVE  HeldInv'
<1>1. Known(t) /\ th[t].obj = NULL
  BY DEF Known, Plain, HeldInv, SoundInv, Sound, Decent
<1>2. PICK r, new : r = With(t, "filled") /\ new = {}
  OBVIOUS
<1>3. Same(r, th[t]) /\ r.pc = "filled" /\ r.obj = NULL
  BY <1>1, <1>2, GoesTo
<1>4. Allots(t, r, new)
  BY <1>2, <1>3 DEF Allots, Same, ManyInOneGo, Became
<1>5. PICK e : EntryIs(t, e) /\ e.tlfs.list = list
  <2>1. table' = [table EXCEPT ![Own(t)].tlfs.list = list]
    BY DEF ManyInOneGo
  <2> QED
    BY ONLY WorldInv, ObjectInv, t \in Threads, <1>1, <2>1, ListGets, ZenonT(30)
<1>6. Moves(t, new, e.tlfs.list \cup PartOf(r, heap.marked))
  <2>1. e.tlfs.list \cup PartOf(r, heap.marked) = list
    BY <1>3, <1>5 DEF PartOf
  <2> QED
    BY <1>2, <2>1
<1> QED
  BY <1>4, <1>5, <1>6, MallocStep

\* GC_generic_malloc_many gives out what nobody has.
LEMMA MallocManyHeld ==
  ASSUME WorldInv, ObjectInv, HeldInv, NEW t \in Threads, GC_generic_malloc_many(t), UNCHANGED menu
  PROVE  HeldInv'
<1>1. /\ th[t].pc \in {"many", "many_again"} /\ CanRun(t) /\ UNCHANGED <<stop, pm>> /\ lock \in {NULL, t}
  BY DEF GC_generic_malloc_many, In, GetsLock
<1>2. Known(t) /\ th[t].pc \in Alone /\ th[t].obj = NULL /\ gc.phase = "none" /\ th[t].pc \notin Sweeper
  BY <1>1, NobodyCollects DEF Known, Plain, Alone, HeldInv, SoundInv, Sound, Decent, WorldInv, Sweeper
<1>3. menu \in Menus /\ HeapInv
  BY DEF WorldInv, ShapeInv, ObjectInv
<1>4. ASSUME UNCHANGED gc PROVE Sweeping /\ Sweeping' /\ Unswept = Waiting /\ Unswept' = Waiting'
  BY <1>2, <1>4 DEF Sweeping, Unswept
<1>5. /\ Place(t) \cap heap.free = {} /\ Place(t) \cap Unswept = {} /\ heap.free \cap Unswept = {}
      /\ Live \cap Unswept = {} /\ Live \subseteq Objects
  BY LiveFacts DEF HeldInv, OwnerInv
<1>6. CASE FillFromBlock(t)
  <2>1. PICK b : b = NextBlock
    OBVIOUS
  <2>2. /\ b \in heap.reclaimable /\ Swept(b) \subseteq Waiting /\ Swept(b) \in SUBSET Objects
        /\ \A c \in heap.reclaimable \ {b} : Swept(b) \cap Swept(c) = {}
    <3>1. heap.reclaimable # {}
      BY <1>6 DEF FillFromBlock, ToSweep
    <3> QED
      BY <1>3, <2>1, <3>1, BlockWaits
  <2>3. UNCHANGED gc
    BY <1>6 DEF FillFromBlock
  <2>4. ASSUME heap'.reclaimable = heap.reclaimable \ {b}, heap'.marked = heap.marked
        PROVE  Unswept' \subseteq Unswept /\ Swept(b) \cap Unswept' = {} /\ Swept(b) \subseteq Unswept
    <3>1. Unswept' = UNION {Swept(c) : c \in heap.reclaimable \ {b}}
      BY <1>4, <2>3, <2>4 DEF Waiting, Swept
    <3> QED
      BY <1>4, <2>2, <2>3, <3>1 DEF Waiting
  <2>5. CASE pm.parallel
    <3>1. heap' = [heap EXCEPT !.reclaimable = @ \ {b}] /\ UNCHANGED table
      BY <1>6, <2>1, <2>5 DEF FillFromBlock
    <3>2. /\ heap'.free = heap.free /\ heap'.marked = heap.marked
          /\ heap'.reclaimable = heap.reclaimable \ {b} /\ heap'.points = heap.points
      BY <1>3, <3>1 DEF HeapInv, HeapFields
    <3>3. PICK r : r = [With(t, "join_builders") EXCEPT !.build = b]
      OBVIOUS
    <3>4. /\ Same(r, th[t]) /\ r.pc = "join_builders" /\ r.obj = NULL /\ r.build = b
      BY <1>2, <3>3 DEF Same, With, WorldInv, ShapeInv, ThreadFields
    <3>5. PICK e, new, place : e = table[Own(t)] /\ new = {} /\ place = e.tlfs.list \cup PartOf(r, heap.marked)
      OBVIOUS
    <3>6. Allots(t, r, new)
      BY <1>6, <2>1, <2>5, <3>3, <3>4 DEF Allots, Same, FillFromBlock, Became
    <3>7. place = Place(t) \cup Swept(b)
      <4>1. EntriesOf(t) = {e}
        BY <1>2, <3>5, KnownEntry
      <4> QED
        BY <1>1, <3>4, <3>5, <4>1 DEF Place, ListOf, PartOf, Swept
    <3>8. Moves(t, new, place)
      BY <1>5, <2>4, <3>2, <3>5, <3>7 DEF Moves
    <3> QED
      BY <1>1, <1>2, <2>3, <3>1, <3>5, <3>6, <3>8, EntryStays, MallocStep
  <2>6. CASE ~pm.parallel
    <3>1. /\ heap' = [heap EXCEPT !.reclaimable = @ \ {b}, !.points = Cleared(Swept(b))]
          /\ ManyInOneGo(t, Swept(b))
      BY <1>6, <2>1, <2>6 DEF FillFromBlock
    <3>2. /\ heap'.free = heap.free /\ heap'.marked = heap.marked
          /\ heap'.reclaimable = heap.reclaimable \ {b} /\ heap'.points = Cleared(Swept(b))
      BY <1>3, <3>1 DEF HeapInv, HeapFields
    <3>3. \A o \in Live : heap'.points[o] \subseteq heap.points[o]
      BY <1>5, <3>2 DEF Cleared
    <3>4. Moves(t, {}, Swept(b))
      BY <1>5, <2>4, <3>2, <3>3 DEF Moves
    <3> QED
      BY <1>1, <1>2, <2>3, <3>1, <3>4, ManyStep
  <2> QED
    BY <2>5, <2>6
<1>7. CASE FillFromFreeList(t)
  <2>1. heap' = [heap EXCEPT !.free = {}] /\ ManyInOneGo(t, heap.free) /\ UNCHANGED gc
    BY <1>7 DEF FillFromFreeList
  <2>2. /\ heap'.free = {} /\ heap'.marked = heap.marked
        /\ heap'.reclaimable = heap.reclaimable /\ heap'.points = heap.points
    BY <1>3, <2>1 DEF HeapInv, HeapFields
  <2>3. Unswept' = Unswept
    BY <1>4, <2>1, <2>2 DEF Waiting, Swept
  <2>4. Moves(t, {}, heap.free)
    BY <1>5, <2>2, <2>3 DEF Moves
  <2> QED
    BY <1>1, <1>2, <2>1, <2>4, ManyStep
<1>8. CASE GC_allocobj # {} /\ TakeObject /\ ManyInOneGo(t, {Min(GC_allocobj)}) /\ UNCHANGED gc
  <2>1. PICK o : o = Min(GC_allocobj)
    OBVIOUS
  <2>2. /\ o \in heap.free \cup Unswept /\ heap'.points[o] = {}
        /\ heap'.free \subseteq heap.free \cup Unswept /\ Unswept' \subseteq heap.free \cup Unswept
        /\ heap'.free \cap Unswept' = {} /\ o \notin heap'.free /\ o \notin Unswept'
        /\ heap'.marked = heap.marked /\ \A x \in Live : heap'.points[x] \subseteq heap.points[x]
    BY <1>2, <1>8, <2>1, TakesHeld
  <2>3. Moves(t, {}, {o})
    BY <2>2 DEF Moves
  <2> QED
    BY <1>1, <1>2, <1>8, <2>1, <2>3, ManyStep
<1>9. CASE StartGC(t, "many_again", FALSE) /\ UNCHANGED <<table, heap>>
  BY <1>1, <1>2, <1>9, StartHeld
<1>10. CASE Became(t, With(t, "run")) /\ UNCHANGED <<table, gc, heap>>
  <2>1. PICK r : r = With(t, "run")
    OBVIOUS
  <2>2. Same(r, th[t]) /\ r.pc = "run" /\ r.obj = NULL
    BY <1>2, <2>1, GoesTo
  <2>3. CollectorGoesOnOrBegins /\ th' = [th EXCEPT ![t] = r]
    BY <1>10, <2>1 DEF CollectorGoesOnOrBegins, Became
  <2>4. BuildInv'
    BY <1>1, <1>2, <1>10, <2>2, <2>3, BuildStep DEF HeldInv, Sweeper
  <2>5. PartOf(r, heap.marked) = {} /\ r.pc \in Alone
    BY <2>2 DEF PartOf, Alone
  <2> QED
    BY <1>1, <1>2, <1>10, <2>2, <2>3, <2>4, <2>5, EntryStays, QuietAlone
<1>11. CASE FillWithOne(t)
  BY <1>8, <1>9, <1>10, <1>11 DEF FillWithOne
<1> QED
  BY <1>6, <1>7, <1>11 DEF GC_generic_malloc_many

\* All that a thread does to allocate, and to ask for a collection.
LEMMA AllocatesHeld ==
  ASSUME WorldInv, ObjectInv, HeldInv, NEW t \in Threads, Allocating(t) \/ Building(t) \/ Forget(t) \/ GC_gcollect(t),
         UNCHANGED menu
  PROVE  HeldInv'
<1>1. CASE TakeFilled(t)
  BY <1>1, ReadsHeadHeld DEF TakeFilled, In
<1>2. CASE GC_gcollect(t)
  <2>1. /\ th[t].pc = "run" /\ CanRun(t) /\ lock = NULL /\ UNCHANGED <<table, stop, heap, pm>>
        /\ StartGC(t, "run", FALSE)
    BY <1>2 DEF GC_gcollect, In
  <2>2. th[t].pc \in Alone /\ th[t].obj = NULL /\ gc.phase = "none" /\ th[t].pc \notin Sweeper
    BY <2>1, NobodyCollects DEF Alone, Sweeper, HeldInv, SoundInv, Sound, Decent, WorldInv
  <2> QED
    BY <2>1, <2>2, StartHeld
<1> QED
  BY <1>1, <1>2, MallocHeld, TakeHeadHeld, CoreMallocHeld, MallocManyHeld,
     JoinBuildersHeld, SweepBlockHeld, StoreListHeld, LeaveBuildersHeld, ForgetHeld
     DEF Allocating, Building

-----------------------------------------------------------------------------
\* Threads begin and end.

\* Where a thread is that builds a list or is between the two halves of a fork.
Occupied == Sweeper \cup {"join_builders", "fork"}
\* What thread t has to do with that stays.
AsBefore(t) ==
  \/ th'[t].pc = th[t].pc /\ th'[t].build = th[t].build
  \/ th'[t].pc \notin Occupied /\ th[t].pc \notin Occupied

\* Thread t goes on soundly, holds nothing new, and nothing new is on its list.
Quiet(t) ==
  /\ Sound(t, th[t], EntriesOf(t), stop.handler[t].pc, gc.in_creation)'
  /\ HeldBy(th[t])' \subseteq Live
  /\ ListOf(EntriesOf(t))' \subseteq ListOf(EntriesOf(t))
  /\ AsBefore(t)

\* A step of two threads that leaves the heap alone.
LEMMA PairStep ==
  ASSUME WorldInv, ObjectInv, HeldInv, UNCHANGED <<stop, heap, pm, menu>>,
         CollectorGoesOnOrBegins, gc'.builders = gc.builders,
         NEW t \in Threads, NEW x \in Threads, Quiet(t), Quiet(x), OtherInv',
         \A u \in Threads \ {t, x} : th'[u] = th[u] /\ EntriesOf(u)' = EntriesOf(u)
  PROVE  HeldInv'
<1>1. SoundInv'
  <2>1. PICK S \in SUBSET Threads : S = {t, x}
    OBVIOUS
  <2>2. \A u \in Threads \ S :
          th'[u] = th[u] /\ EntriesOf(u)' = EntriesOf(u) /\ stop'.handler[u].pc = stop.handler[u].pc
    BY <2>1
  <2>3. \A u \in S : Sound(u, th[u], EntriesOf(u), stop.handler[u].pc, gc.in_creation)'
    BY <2>1 DEF Quiet
  <2> QED
    BY <2>2, <2>3, SoundStep DEF HeldInv
<1>2. \A u \in Threads : AsBefore(u) /\ ListOf(EntriesOf(u))' \subseteq ListOf(EntriesOf(u))
  BY DEF Quiet, AsBefore, ListOf
<1>3. BuildInv'
  <2>1. \A u \in Threads : th'[u].pc \in Occupied => th[u].pc = th'[u].pc
    BY <1>2 DEF AsBefore
  <2>2. \A u \in Threads : th[u].pc \in Occupied => th[u].pc = th'[u].pc
    BY <1>2 DEF AsBefore
  <2>3. Builders' = Builders
    BY <2>1, <2>2 DEF Builders, Occupied
  <2>4. ~Sweeping' => ~Sweeping
    BY DEF Sweeping, CollectorGoesOnOrBegins
  <2> QED
    BY <2>1, <2>3, <2>4 DEF HeldInv, BuildInv, Occupied
<1>4. AllHeld' \subseteq Live
  <2>1. ASSUME NEW u \in Threads PROVE HeldBy(th[u])' \subseteq Live
    <3>1. CASE u \in {t, x}
      BY <3>1 DEF Quiet
    <3>2. CASE u \notin {t, x}
      <4>1. HeldBy(th[u]) \subseteq AllHeld
        BY DEF AllHeld
      <4> QED
        BY <3>2, <4>1, LiveFacts DEF HeldBy
    <3> QED
      BY <3>1, <3>2
  <2> QED
    BY <2>1 DEF AllHeld
<1>5. \A u \in Threads : Place(u)' \subseteq Place(u)
  <2>1. ASSUME NEW u \in Threads PROVE PartOf(th[u], heap.marked)' = PartOf(th[u], heap.marked)
    BY <1>2 DEF AsBefore, PartOf, Occupied, Sweeper
  <2> QED
    BY <1>2, <2>1 DEF Place
<1>6. Unswept' = Unswept
  BY DEF Unswept, Sweeping, Waiting, Swept, CollectorGoesOnOrBegins
<1>7. OwnerInv' /\ Live' \subseteq Live
  <2>1. PICK new : new = {}
    OBVIOUS
  <2>2. /\ AllHeld' \subseteq Live \cup new
        /\ \A o \in Live : heap'.points[o] \subseteq heap.points[o]
        /\ \A o \in new : heap'.points[o] = {}
        /\ \A u \in Threads \ {t} : Place(u)' \subseteq Place(u)
        /\ new \subseteq heap.free \cup Unswept \cup Place(t)
        /\ new \cap heap'.free = {} /\ new \cap Unswept' = {} /\ new \cap Place(t)' = {}
    BY <1>4, <1>5, <2>1
  <2>3. /\ heap'.free \subseteq heap.free \cup Unswept \cup Place(t)
        /\ Unswept' \subseteq heap.free \cup Unswept \cup Place(t)
        /\ Place(t)' \subseteq heap.free \cup Unswept \cup Place(t)
        /\ heap'.free \cap Unswept' = {} /\ heap'.free \cap Place(t)' = {} /\ Unswept' \cap Place(t)' = {}
    BY <1>5, <1>6 DEF HeldInv, OwnerInv
  <2>4. OwnerInv' /\ Live' \subseteq Live \cup new
    BY <2>2, <2>3, OwnerStep DEF HeldInv
  <2> QED
    BY <2>1, <2>4
<1>8. MarkedInv'
  <2>1. CASE gc'.phase \in {"mark", "start", "restart"}
    <3>1. gc'.phase = gc.phase
      BY <2>1 DEF CollectorGoesOnOrBegins
    <3> QED
      BY <1>2, <1>7, <2>1, <3>1 DEF HeldInv, MarkedInv
  <2> QED
    BY <2>1 DEF MarkedInv
<1> QED
  BY <1>1, <1>3, <1>7, <1>8 DEF HeldInv

\* What thread t becomes, alone, with the entries E.
Lives(t, r, E) ==
  /\ th' = [th EXCEPT ![t] = r]
  /\ EntriesOf(t)' = E /\ \A u \in Threads \ {t} : EntriesOf(u)' = EntriesOf(u)
  /\ Sound(t, r, E, "none", gc'.in_creation) /\ Leaves(t, r)
  /\ HeldBy(r) \subseteq Live /\ ListOf(E) \subseteq ListOf(EntriesOf(t))
  /\ r.pc \notin Occupied /\ th[t].pc \notin Occupied

LEMMA LifeStep ==
  ASSUME WorldInv, ObjectInv, HeldInv, UNCHANGED <<stop, heap, pm, menu>>,
         CollectorGoesOnOrBegins, gc'.builders = gc.builders,
         NEW t \in Threads, CanRun(t), NEW r, NEW E, Lives(t, r, E)
  PROVE  HeldInv'
<1>1. th'[t] = r /\ \A u \in Threads \ {t} : th'[u] = th[u]
  BY DEF Lives, WorldInv, ShapeInv
<1>2. EntriesOf(t)' = E /\ stop'.handler[t].pc = "none"
  BY DEF Lives, CanRun, InHandler
<1>3. Sound(t, th[t], EntriesOf(t), stop.handler[t].pc, gc.in_creation)'
  BY <1>1, <1>2 DEF Lives, Sound, Decent, Starting, Tells, Shows, Saved
<1>4. Quiet(t)
  BY <1>1, <1>2, <1>3 DEF Quiet, AsBefore, Lives, HeldBy, ListOf
<1>5. OtherInv'
  BY OtherStep DEF HeldInv, Lives
<1>6. \A u \in Threads \ {t, t} : th'[u] = th[u] /\ EntriesOf(u)' = EntriesOf(u)
  BY <1>1 DEF Lives
<1> QED
  BY <1>4, <1>5, <1>6, PairStep

\* A known thread that goes on has a sound entry.
LEMMA GoesOnSound ==
  ASSUME WorldInv, SoundInv, NEW t \in Threads, CanRun(t), Known(t),
         NEW r, r.pc \in (Plain \ {"take", "exit", "created"}) \cup {"blocked"}, r.obj = NULL,
         r.joinable = th[t].joinable, r.result = th[t].result, r.unregisters = th[t].unregisters,
         NEW e, e.flags = table[Own(t)].flags, e.status = table[Own(t)].status,
         r.pc = "blocked" => r.saved \subseteq r.held /\ ~r.active /\ Shows(r) \subseteq e.stack,
         NEW i
  PROVE  Sound(t, r, {e}, "none", i)
<1>1. EntriesOf(t) = {table[Own(t)]} /\ FINISHED \notin table[Own(t)].flags
  BY KnownEntry DEF WorldInv, TableInv
<1>2. Tells(t, th[t], table[Own(t)], stop.handler[t].pc) /\ th[t].pc # "gone"
  BY <1>1 DEF SoundInv, Sound, Known, Plain
<1>3. Tells(t, r, e, "none")
  BY <1>1, <1>2 DEF Tells, Saved, Plain
<1>4. Decent(r, i)
  BY DEF Decent, Plain
<1> QED
  BY <1>3, <1>4 DEF Sound

\* What a known thread leaves alone when it goes on.
LEMMA GoesOnLeaves ==
  ASSUME WorldInv, NEW t \in Threads, th[t].pc # "created", th[t].pc # "none", NEW r,
         r.pc \in {"run", "exit", "ending", "joined", "blocked"}, r.joinable = th[t].joinable,
         th[t].pc # "gone"
  PROVE  Leaves(t, r)
BY DEF Leaves, Starting, Left

\* What a thread holds is in reach.
LEMMA HoldsLive ==
  ASSUME WorldInv, ObjectInv, NEW t \in Threads
  PROVE  /\ th[t].held \subseteq Live /\ (th[t].active => th[t].saved \subseteq Live)
         /\ (th[t].joinable => {th[t].result} \ {NULL} \subseteq Live)
         /\ HeldBy(th[t]) \subseteq Live
<1>1. HeldBy(th[t]) \subseteq Live
  BY LiveFacts DEF AllHeld
<1> QED
  BY <1>1 DEF HeldBy

\* A new entry of a thread that has none.
LEMMA RegistersNew ==
  ASSUME WorldInv, NEW t \in Threads, EntriesOf(t) = {}, NEW flags, flags = NewFlags(t), RegisterNew(t)
  PROVE  \E e : /\ EntriesOf(t)' = {e} /\ \A u \in Threads \ {t} : EntriesOf(u)' = EntriesOf(u)
                /\ e.flags = flags /\ e.status = NULL /\ e.tlfs.list = {}
<1>1. PICK f : f = Entry(t, th[t].id)
  OBVIOUS
<1>2. PICK e : e = InitLocal([f EXCEPT !.flags = flags])
  OBVIOUS
<1>3. PICK E : table \in Seq(E)
  BY DEF WorldInv, ShapeInv
<1>4. table' = [<<f>> \o table EXCEPT ![1] = InitLocal([@ EXCEPT !.flags = flags])]
  BY <1>1 DEF RegisterNew, GC_new_thread
<1>5. (<<f>> \o table)[1] = f
  BY <1>3
<1>6. table' = [<<f>> \o table EXCEPT ![1] = e]
  BY <1>2, <1>3, <1>4, <1>5
<1>7. table' = <<e>> \o table
  BY ONLY <1>3, <1>6, Newest
<1>8. e.of = t /\ e.flags = flags /\ e.status = NULL /\ e.tlfs = [counting |-> TRUE, list |-> {}]
  BY <1>1, <1>2 DEF Entry, InitLocal
<1>9. EntriesOf(t)' = EntriesOf(t) \cup {e} /\ \A u : u # t => EntriesOf(u)' = EntriesOf(u)
  BY ONLY WorldInv, <1>7, <1>8, EntryIsAdded
<1> QED
  BY <1>8, <1>9

\* What a thread holds that the collector does not know: nothing.  The argument
\* of one that pthread_create made is on its creator's stack.
LEMMA HoldsNothing ==
  ASSUME WorldInv, ObjectInv, HeldInv, NEW t \in Threads,
         th[t].pc \in {"start", "start_again", "register", "ending"}, EntriesOf(t) = {}
  PROVE  /\ th[t].held = {} /\ ~th[t].active /\ th[t].obj = NULL
         /\ th[t].pc \in {"register", "ending"} => th[t].unregisters
         /\ th[t].unregisters /\ th[t].joinable => th[t].result = NULL
         /\ ~th[t].unregisters => {th[t].result} \ {NULL} \subseteq Live
<1>1. Sound(t, th[t], {}, stop.handler[t].pc, gc.in_creation)
  BY DEF HeldInv, SoundInv
<1>2. ASSUME ~th[t].unregisters PROVE {th[t].result} \ {NULL} \subseteq Live
  <2>1. Starting(th[t], gc.in_creation)
    BY <1>1, <1>2 DEF Sound, Decent, Starting
  <2>2. PICK c \in Threads : th[c].pc = "created" /\ th[c].obj = th[t].result
    BY <2>1 DEF HeldInv, OtherInv, Awaited
  <2>3. th[c].obj \in th[c].held \cup {NULL}
    BY <2>2 DEF HeldInv, SoundInv, Sound, Decent
  <2> QED
    BY <2>2, <2>3, HoldsLive
<1> QED
  BY <1>1, <1>2 DEF Sound, Decent, Starting, Plain

\* A thread that has no entry makes one, and holds its argument from then on.
LEMMA RegisterNewHeld ==
  ASSUME WorldInv, ObjectInv, HeldInv, NEW t \in Threads, CanRun(t), UNCHANGED <<stop, heap, pm, menu>>,
         th[t].pc \in {"start", "start_again", "register", "ending"}, EntriesOf(t) = {}, RegisterNew(t)
  PROVE  HeldInv'
<1>1. DOMAIN th[t] = ThreadFields /\ UNCHANGED gc
  BY DEF WorldInv, ShapeInv, RegisterNew
<1>2. /\ th[t].held = {} /\ ~th[t].active /\ th[t].obj = NULL
      /\ th[t].unregisters /\ th[t].joinable => th[t].result = NULL
      /\ ~th[t].unregisters => {th[t].result} \ {NULL} \subseteq Live
  BY HoldsNothing
<1>3. PICK r : /\ th' = [th EXCEPT ![t] = r]
               /\ r.pc = "run" /\ ~r.active /\ r.obj = NULL /\ r.held \subseteq Live
               /\ r.joinable = th[t].joinable /\ r.unregisters = th[t].unregisters
               /\ r.joinable => r.result = NULL
  <2> DEFINE q == [With(t, "run") EXCEPT !.held = {th[t].result} \ {NULL}, !.result = NULL]
  <2>1. /\ q.pc = "run" /\ ~q.active /\ q.obj = NULL /\ q.held = {th[t].result} \ {NULL}
        /\ q.joinable = th[t].joinable /\ q.unregisters = th[t].unregisters /\ q.result = NULL
    BY <1>1, <1>2 DEF With, ThreadFields
  <2>2. PICK w : w = With(t, "run")
    OBVIOUS
  <2>3. /\ w.pc = "run" /\ ~w.active /\ w.obj = NULL /\ w.held = {}
        /\ w.joinable = th[t].joinable /\ w.unregisters = th[t].unregisters /\ w.result = th[t].result
    BY <1>1, <1>2, <2>2 DEF With, ThreadFields
  <2> HIDE DEF q
  <2>4. th' = [th EXCEPT ![t] = IF th[t].unregisters THEN w ELSE q]
    BY <2>2 DEF RegisterNew, Became, q
  <2> QED
    BY <1>2, <2>1, <2>3, <2>4
<1>4. PICK flags : flags = NewFlags(t)
  OBVIOUS
<1>5. /\ FINISHED \notin flags
      /\ DETACHED \in flags /\ th[t].joinable => th[t].unregisters
  BY <1>4 DEF NewFlags, FINISHED, DETACHED
<1>6. PICK e : /\ EntriesOf(t)' = {e} /\ \A u \in Threads \ {t} : EntriesOf(u)' = EntriesOf(u)
               /\ e.flags = flags /\ e.status = NULL /\ e.tlfs.list = {}
  BY <1>4, RegistersNew
<1>7. Sound(t, r, {e}, "none", gc'.in_creation)
  BY <1>3, <1>5, <1>6 DEF Sound, Decent, Tells, Saved, Plain
<1>8. Leaves(t, r)
  BY <1>3 DEF Leaves, Starting, Left
<1>9. HeldBy(r) \subseteq Live
  BY <1>3 DEF HeldBy
<1>10. Lives(t, r, {e})
  BY <1>3, <1>6, <1>7, <1>8, <1>9 DEF Lives, Occupied, Sweeper, ListOf
<1>11. CollectorGoesOnOrBegins
  BY <1>1 DEF CollectorGoesOnOrBegins
<1> QED
  BY <1>1, <1>10, <1>11, LifeStep

\* There may be a collection before that.
LEMMA EntryMadeHeld ==
  ASSUME WorldInv, ObjectInv, HeldInv, NEW t \in Threads, CanRun(t), UNCHANGED <<stop, heap, pm, menu>>, lock = NULL,
         th[t].pc \in {"start", "register", "ending"}, EntriesOf(t) = {}, GC_register_my_thread_inner(t)
  PROVE  HeldInv'
<1>1. DOMAIN th[t] = ThreadFields /\ gc.phase = "none"
  BY NobodyCollects DEF WorldInv, ShapeInv
<1>2. /\ th[t].held = {} /\ ~th[t].active /\ th[t].obj = NULL
      /\ th[t].pc \in {"register", "ending"} => th[t].unregisters
      /\ th[t].unregisters /\ th[t].joinable => th[t].result = NULL
  BY HoldsNothing
<1>3. CASE StartGC(t, "start_again", InCreation) /\ UNCHANGED table
  <2>1. PICK r : r = With(t, "collect")
    OBVIOUS
  <2>2. /\ r.pc = "collect" /\ r.held = {} /\ ~r.active /\ r.obj = NULL /\ r.joinable = th[t].joinable
        /\ r.result = th[t].result /\ r.of = th[t].of /\ r.unregisters = th[t].unregisters
    BY <1>1, <1>2, <2>1 DEF With, ThreadFields
  <2>3. th' = [th EXCEPT ![t] = r]
    BY <1>3, <2>1 DEF StartGC, Became
  <2>4. CollectorGoesOnOrBegins /\ gc'.in_creation /\ gc'.builders = gc.builders
    BY <1>1, <1>3 DEF StartGC, CollectorGoesOnOrBegins, WorldInv, ShapeInv, CollectorFields, InCreation
  <2>5. Sound(t, r, {}, "none", gc'.in_creation)
    BY <1>2, <2>2, <2>4 DEF Sound, Decent, Starting
  <2>6. Leaves(t, r)
    BY <1>2, <2>2 DEF Leaves, Starting, Left
  <2>7. HeldBy(r) \subseteq Live
    BY <2>2, HoldsLive DEF HeldBy
  <2>8. Lives(t, r, {})
    BY <1>3, <2>2, <2>3, <2>5, <2>6, <2>7, SameEntriesOf DEF Lives, Occupied, Sweeper, ListOf
  <2> QED
    BY <2>4, <2>8, LifeStep
<1>4. CASE RegisterNew(t)
  BY <1>4, RegisterNewHeld
<1> QED
  BY <1>3, <1>4 DEF GC_register_my_thread_inner

\* A thread begins.
LEMMA PrepareHeld ==
  ASSUME WorldInv, ObjectInv, HeldInv, NEW t \in Threads, GC_start_rtn_prepare_thread(t) \/ HasCollected(t),
         UNCHANGED menu
  PROVE  HeldInv'
<1>1. CanRun(t) /\ UNCHANGED <<stop, heap, pm>> /\ th[t].pc \in {"start", "start_again"}
  BY DEF GC_start_rtn_prepare_thread, HasCollected, In
<1>2. CASE GC_start_rtn_prepare_thread(t)
  <2>1. th[t].pc = "start" /\ lock = NULL /\ GC_register_my_thread_inner(t)
    BY <1>2 DEF GC_start_rtn_prepare_thread, In
  <2>2. EntriesOf(t) = {}
    BY <2>1, NoEntryYet DEF Known, Plain, Past
  <2> QED
    BY <1>1, <2>1, <2>2, EntryMadeHeld
<1>3. CASE HasCollected(t)
  <2>1. th[t].pc = "start_again" /\ RegisterNew(t)
    BY <1>3 DEF HasCollected, In
  <2>2. EntriesOf(t) = {}
    BY <2>1, NoEntryYet DEF Known, Plain, Past
  <2> QED
    BY <1>1, <2>1, <2>2, RegisterNewHeld
<1> QED
  BY <1>2, <1>3

\* A thread comes from outside.
LEMMA AppearHeld ==
  ASSUME WorldInv, ObjectInv, HeldInv, NEW t \in Threads, Appear(t), UNCHANGED menu
  PROVE  HeldInv'
<1>1. th[t].pc = "outside" /\ CanRun(t) /\ UNCHANGED <<table, stop, gc, heap, pm>>
  BY DEF Appear, In
<1>2. PICK id : Became(t, [Thread("register", id) EXCEPT !.unregisters = TRUE, !.joinable = FALSE])
  BY DEF Appear
<1>3. PICK r : r = [Thread("register", id) EXCEPT !.unregisters = TRUE, !.joinable = FALSE]
  OBVIOUS
<1>4. /\ r.pc = "register" /\ r.held = {} /\ r.obj = NULL /\ ~r.active /\ ~r.joinable /\ r.unregisters
  BY <1>3 DEF Thread
<1>5. EntriesOf(t) = {}
  BY <1>1, NoEntryYet DEF Known, Plain, Past
<1>6. Sound(t, r, {}, "none", gc'.in_creation)
  BY <1>4 DEF Sound, Decent
<1>7. Leaves(t, r)
  BY <1>1, <1>4 DEF Leaves, Starting, Left
<1>8. HeldBy(r) \subseteq Live
  BY <1>4 DEF HeldBy
<1>9. th' = [th EXCEPT ![t] = r]
  BY <1>2, <1>3 DEF Became
<1>10. Lives(t, r, {})
  BY <1>1, <1>4, <1>5, <1>6, <1>7, <1>8, <1>9, SameEntriesOf DEF Lives, Occupied, Sweeper, ListOf
<1>11. CollectorGoesOnOrBegins
  BY <1>1 DEF CollectorGoesOnOrBegins
<1> QED
  BY <1>1, <1>10, <1>11, LifeStep

\* The creator goes on.
LEMMA RegisteredHeld ==
  ASSUME WorldInv, ObjectInv, HeldInv, NEW t \in Threads, Registered(t), UNCHANGED menu
  PROVE  HeldInv'
<1>1. /\ th[t].pc = "created" /\ CanRun(t) /\ UNCHANGED <<table, stop, gc, heap, pm>>
      /\ th[th[t].of].pc \notin {"start", "start_again", "collect"}
  BY DEF Registered, In
<1>2. Known(t) /\ DOMAIN th[t] = ThreadFields
  BY <1>1 DEF Known, Plain, WorldInv, ShapeInv
<1>3. PICK r : r = [With(t, "run") EXCEPT !.of = NULL, !.obj = NULL]
  OBVIOUS
<1>4. /\ r.pc = "run" /\ r.obj = NULL /\ Same(r, th[t])
  BY <1>2, <1>3 DEF With, ThreadFields, Same
<1>5. PICK e : e = table[Own(t)]
  OBVIOUS
<1>6. EntryIs(t, e) /\ EntriesOf(t) = {e}
  BY <1>1, <1>2, <1>5, EntryStays, KnownEntry
<1>7. Sound(t, r, {e}, "none", gc'.in_creation)
  BY <1>1, <1>2, <1>4, <1>5, GoesOnSound DEF HeldInv, Same, Plain
<1>8. Leaves(t, r)
  BY <1>1, <1>4 DEF Leaves, Starting, Left, Same
<1>9. HeldBy(r) \subseteq Live
  BY <1>4, HoldsLive DEF HeldBy, Same
<1>10. th' = [th EXCEPT ![t] = r]
  BY <1>3 DEF Registered, Became
<1>11. Lives(t, r, {e})
  BY <1>1, <1>4, <1>6, <1>7, <1>8, <1>9, <1>10 DEF Lives, Occupied, Sweeper, EntryIs
<1>12. CollectorGoesOnOrBegins
  BY <1>1 DEF CollectorGoesOnOrBegins
<1> QED
  BY <1>1, <1>11, <1>12, LifeStep

\* A thread registers itself, the first time or again.
LEMMA RegisterHeld ==
  ASSUME WorldInv, ObjectInv, HeldInv, NEW t \in Threads, GC_register_my_thread(t), UNCHANGED menu
  PROVE  HeldInv'
<1>1. PICK k : k = GC_lookup_thread(table, th[t].id)
  OBVIOUS
<1>2. /\ KeepsId(t) /\ th[t].pc \in {"register", "ending"} /\ lock = NULL /\ CanRun(t) /\ UNCHANGED <<stop, heap, pm>>
      /\ \/ k = 0 /\ GC_register_my_thread_inner(t)
         \/ /\ k # 0 /\ UNCHANGED <<gc, lock>> /\ Became(t, With(t, "run"))
            /\ table' = [table EXCEPT ![k] = InitLocal([table[k] EXCEPT !.flags = @ \ {FINISHED}])]
  BY <1>1, Zenon DEF GC_register_my_thread, In, KeepsId
<1>3. \/ k = 0 /\ \A j \in Index : table[j].id # th[t].id
      \/ k \in Index /\ table[k].id = th[t].id
  BY <1>1, Found DEF WorldInv, ShapeInv, Index
<1>4. CASE k = 0 /\ GC_register_my_thread_inner(t)
  <2>1. \A j \in Index : table[j].id # th[t].id
    BY <1>3, <1>4, Entries DEF WorldInv
  <2>2. \A j \in Index : Owner(j) # t
    BY ONLY WorldInv, <2>1 DEF WorldInv, TableInv
  <2>3. EntriesOf(t) = {}
    BY <2>2 DEF EntriesOf
  <2> QED
    BY <1>2, <1>4, <2>3, EntryMadeHeld
<1>5. CASE /\ k # 0 /\ UNCHANGED gc /\ Became(t, With(t, "run"))
           /\ table' = [table EXCEPT ![k] = InitLocal([table[k] EXCEPT !.flags = @ \ {FINISHED}])]
  <2>1. DOMAIN th[t] = ThreadFields /\ CollectorGoesOnOrBegins
    BY <1>5 DEF WorldInv, ShapeInv, CollectorGoesOnOrBegins
  <2>2. /\ th[t].held = {} /\ ~th[t].active /\ th[t].obj = NULL /\ th[t].unregisters
        /\ \A e \in EntriesOf(t) : Tells(t, th[t], e, "none")
    BY <1>2 DEF HeldInv, SoundInv, Sound, Decent, Plain, CanRun, InHandler
  <2>3. k \in Index /\ Owner(k) = t
    <3>1. Alive(t)
      BY <1>2 DEF Alive
    <3> QED
      BY <1>2, <1>3, <1>5, <3>1 DEF WorldInv, IdInv
  <2>4. PICK r : r = With(t, "run")
    OBVIOUS
  <2>5. /\ r.pc = "run" /\ r.unregisters /\ r.held = {} /\ ~r.active /\ r.obj = NULL
        /\ r.joinable = th[t].joinable /\ r.result = th[t].result
    BY <2>1, <2>2, <2>4 DEF With, ThreadFields
  <2>6. th' = [th EXCEPT ![t] = r]
    BY <1>5, <2>4 DEF Became
  <2>7. PICK e : e = InitLocal([table[k] EXCEPT !.flags = @ \ {FINISHED}])
    OBVIOUS
  <2>8. DOMAIN table[k] = EntryFields
    BY <2>3 DEF WorldInv, ShapeInv
  <2>9. /\ e.of = t /\ e.flags = table[k].flags \ {FINISHED} /\ e.status = table[k].status
        /\ e.tlfs = [counting |-> TRUE, list |-> {}]
    BY <2>3, <2>7, <2>8 DEF EntryFields, InitLocal, Owner
  <2>10. table' = [table EXCEPT ![k] = e]
    BY <1>5, <2>7
  <2>11. EntriesOf(t)' = {e} /\ \A u : u # t => EntriesOf(u)' = EntriesOf(u)
    BY ONLY WorldInv, <2>3, <2>9, <2>10, EntryGets
  <2>12. Tells(t, th[t], table[k], "none")
    BY <2>2, <2>3 DEF EntriesOf
  <2>13. Tells(t, r, e, "none")
    BY <2>5, <2>9, <2>12 DEF Tells, Saved, FINISHED, DETACHED
  <2>14. Sound(t, r, {e}, "none", gc'.in_creation)
    BY <2>5, <2>13 DEF Sound, Decent, Plain
  <2>15. Leaves(t, r)
    BY <1>2, <2>5 DEF Leaves, Starting, Left
  <2>16. HeldBy(r) \subseteq Live
    BY <2>5, HoldsLive DEF HeldBy
  <2>17. Lives(t, r, {e})
    BY <1>2, <2>5, <2>6, <2>9, <2>11, <2>14, <2>15, <2>16 DEF Lives, Occupied, Sweeper, ListOf
  <2> QED
    BY <1>2, <1>5, <2>1, <2>17, LifeStep
<1> QED
  BY <1>2, <1>4, <1>5

\* A thread returns: its result is in its entry before anybody can ask for it.
LEMMA ReturnHeld ==
  ASSUME WorldInv, ObjectInv, HeldInv, NEW t \in Threads, Return(t), UNCHANGED menu
  PROVE  HeldInv'
<1>1. /\ th[t].pc = "run" /\ CanRun(t) /\ UNCHANGED <<stop, gc, heap, pm>>
      /\ t # "Main" /\ ~th[t].unregisters /\ ~th[t].active
  BY DEF Return, In
<1>2. Known(t) /\ DOMAIN th[t] = ThreadFields
  BY <1>1 DEF Known, Plain, WorldInv, ShapeInv
<1>3. PICK result \in th[t].held \cup {NULL} :
        /\ table' = [table EXCEPT ![Own(t)].status = result]
        /\ Became(t, [With(t, "exit") EXCEPT !.held = {}, !.result = result])
  BY Zenon DEF Return
<1>4. PICK k : k = Own(t)
  OBVIOUS
<1>5. k \in Index /\ Owner(k) = t /\ EntriesOf(t) = {table[k]} /\ DOMAIN table[k] = EntryFields
      /\ FINISHED \notin table[k].flags
  BY <1>2, <1>4, KnownEntry DEF WorldInv, ShapeInv, TableInv
<1>6. PICK e : e = [table[k] EXCEPT !.status = result]
  OBVIOUS
<1>7. e.of = t /\ e.flags = table[k].flags /\ e.status = result /\ e.tlfs = table[k].tlfs
  BY <1>5, <1>6 DEF EntryFields, Owner
<1>8. table' = [table EXCEPT ![k] = e]
  BY <1>3, <1>4, <1>6
<1>9. EntriesOf(t)' = {e} /\ \A u : u # t => EntriesOf(u)' = EntriesOf(u)
  BY ONLY WorldInv, <1>5, <1>7, <1>8, EntryGets
<1>10. PICK r : r = [With(t, "exit") EXCEPT !.held = {}, !.result = result]
  OBVIOUS
<1>11. /\ r.pc = "exit" /\ r.held = {} /\ ~r.active /\ r.result = result /\ r.joinable = th[t].joinable
       /\ r.obj = th[t].obj
  BY <1>1, <1>2, <1>10 DEF With, ThreadFields
<1>12. th[t].obj = NULL /\ Tells(t, th[t], table[k], "none")
  BY <1>1, <1>5 DEF HeldInv, SoundInv, Sound, Decent, CanRun, InHandler
<1>13. Sound(t, r, {e}, "none", gc'.in_creation)
  <2>1. DETACHED \in e.flags => ~r.joinable
    BY <1>1, <1>7, <1>11, <1>12 DEF Tells
  <2>2. Tells(t, r, e, "none")
    BY <1>5, <1>7, <1>11, <2>1 DEF Tells, Saved
  <2>3. Decent(r, gc'.in_creation)
    BY <1>11, <1>12 DEF Decent, Plain
  <2> QED
    BY <2>2, <2>3 DEF Sound
<1>14. Leaves(t, r)
  BY <1>1, <1>11, GoesOnLeaves
<1>15. HeldBy(r) \subseteq Live
  BY <1>11, HoldsLive DEF HeldBy
<1>16. Lives(t, r, {e})
  <2>1. th' = [th EXCEPT ![t] = r]
    BY <1>3, <1>10 DEF Became
  <2> QED
    BY <1>1, <1>5, <1>7, <1>9, <1>11, <1>13, <1>14, <1>15, <2>1 DEF Lives, Occupied, Sweeper, ListOf
<1>17. CollectorGoesOnOrBegins
  BY <1>1 DEF CollectorGoesOnOrBegins
<1> QED
  BY <1>1, <1>16, <1>17, LifeStep

\* A thread unregisters: its list goes back, and its entry keeps its result.
LEMMA UnregisterHeld ==
  ASSUME WorldInv, ObjectInv, HeldInv, NEW t \in Threads, GC_thread_exit_proc(t) \/ GC_unregister_my_thread(t),
         UNCHANGED menu
  PROVE  HeldInv'
<1>1. /\ th[t].pc \in {"exit", "run"} /\ CanRun(t) /\ UNCHANGED <<stop, gc, pm>>
      /\ th[t].pc = "run" => ~th[t].active
  BY DEF GC_thread_exit_proc, GC_unregister_my_thread, GC_unregister_my_thread_inner, In
<1>2. Known(t) /\ DOMAIN th[t] = ThreadFields /\ ~th[t].active /\ th[t].obj = NULL
  BY <1>1 DEF Known, Plain, WorldInv, ShapeInv, HeldInv, SoundInv, Sound, Decent
<1>3. PICK k : k = Own(t)
  OBVIOUS
<1>4. k \in Index /\ Owner(k) = t /\ EntriesOf(t) = {table[k]} /\ DOMAIN table[k] = EntryFields
      /\ Mine(t) = k /\ Keeps(table[k])
  BY <1>2, <1>3, KnownEntry DEF WorldInv, ShapeInv, ObjectInv, Index
<1>5. PICK list : list = table[k].tlfs.list
  OBVIOUS
<1>6. /\ heap' = [heap EXCEPT !.free = @ \cup list]
      /\ table' = IF DETACHED \in table[k].flags THEN GC_delete_thread(table, th[t].id)
                  ELSE [table EXCEPT ![k].flags = @ \cup {FINISHED}, ![k].tlfs.list = {}]
      /\ Became(t, [With(t, "ending") EXCEPT !.held = {}, !.unregisters = TRUE])
  BY <1>3, <1>5
     DEF GC_thread_exit_proc, GC_unregister_my_thread, GC_unregister_my_thread_inner, GC_destroy_thread_local
<1>7. /\ heap'.free = heap.free \cup list /\ heap'.marked = heap.marked
      /\ heap'.reclaimable = heap.reclaimable /\ heap'.points = heap.points
  BY <1>6 DEF ObjectInv, HeapInv, HeapFields
<1>8. PICK r : r = [With(t, "ending") EXCEPT !.held = {}, !.unregisters = TRUE]
  OBVIOUS
<1>9. /\ r.pc = "ending" /\ r.held = {} /\ ~r.active /\ r.obj = NULL /\ r.unregisters
      /\ r.joinable = th[t].joinable /\ r.result = th[t].result
  BY <1>2, <1>8 DEF With, ThreadFields
<1>10. th' = [th EXCEPT ![t] = r] /\ th'[t] = r
  BY <1>6, <1>8 DEF Became, WorldInv, ShapeInv
<1>11. Tells(t, th[t], table[k], "none") /\ stop'.handler[t].pc = "none"
  BY <1>1, <1>4 DEF HeldInv, SoundInv, Sound, CanRun, InHandler
<1>12. PICK E : /\ EntriesOf(t)' = E /\ \A u \in Threads \ {t} : EntriesOf(u)' = EntriesOf(u)
                /\ ListOf(E) = {} /\ Sound(t, r, E, "none", gc'.in_creation)
  <2>1. Decent(r, gc'.in_creation)
    BY <1>9 DEF Decent
  <2>2. CASE DETACHED \in table[k].flags
    <3>1. table' = RemoveAt(table, k) /\ k # 0 /\ k \in Index \cup {0}
      BY <1>4, <1>6, <2>2, Entries DEF GC_delete_thread, Mine, WorldInv
    <3>2. EntriesOf(t)' = {} /\ \A u : u # t => EntriesOf(u)' = EntriesOf(u)
      BY ONLY WorldInv, <1>4, <3>1, EntryIsDeleted
    <3>3. Sound(t, r, {}, "none", gc'.in_creation)
      BY <1>9, <1>11, <2>1, <2>2 DEF Sound, Tells
    <3> QED
      BY <3>2, <3>3 DEF ListOf
  <2>3. CASE DETACHED \notin table[k].flags
    <3>1. PICK e : e = [[table[k] EXCEPT !.flags = @ \cup {FINISHED}] EXCEPT !.tlfs.list = {}]
      OBVIOUS
    <3>2. table' = [table EXCEPT ![k] = e]
      BY <1>6, <2>3, <3>1
    <3>3. /\ e.of = t /\ e.flags = table[k].flags \cup {FINISHED} /\ e.status = table[k].status
          /\ e.tlfs = [table[k].tlfs EXCEPT !.list = {}]
      BY <1>4, <3>1 DEF EntryFields, Owner
    <3>4. e.tlfs.list = {}
      BY <1>4, <3>3 DEF Keeps
    <3>5. EntriesOf(t)' = {e} /\ \A u : u # t => EntriesOf(u)' = EntriesOf(u)
      BY ONLY WorldInv, <1>4, <3>2, <3>3, EntryGets
    <3>6. Tells(t, r, e, "none")
      BY <1>9, <1>11, <2>3, <3>3, <3>4 DEF Tells, Saved, FINISHED, DETACHED
    <3>7. Sound(t, r, {e}, "none", gc'.in_creation)
      BY <2>1, <3>6 DEF Sound
    <3> QED
      BY <3>4, <3>5, <3>7 DEF ListOf
  <2> QED
    BY <2>2, <2>3
<1>13. Sound(t, th[t], EntriesOf(t), stop.handler[t].pc, gc.in_creation)'
  BY <1>10, <1>11, <1>12 DEF Sound, Decent, Starting, Tells, Shows, Saved
<1>14. Leaves(t, r)
  BY <1>1, <1>9, GoesOnLeaves
<1>15. CollectorGoesOnOrBegins
  BY <1>1 DEF CollectorGoesOnOrBegins
<1>16. BuildInv'
  BY <1>1, <1>9, <1>10, <1>15, BuildStep DEF HeldInv, Sweeper
<1>17. HeldBy(r) \subseteq Live
  BY <1>9, HoldsLive DEF HeldBy
<1>18. Place(t) = list /\ Place(t)' = {} /\ ListOf(EntriesOf(t))' = {}
  <2>1. ListOf(EntriesOf(t)) = list /\ ListOf(EntriesOf(t))' = {}
    BY <1>4, <1>5, <1>12 DEF ListOf
  <2> QED
    BY <1>1, <1>9, <1>10, <2>1 DEF Place, PartOf
<1>19. Unswept' = Unswept
  BY <1>1, <1>7 DEF Unswept, Sweeping, Waiting, Swept
<1> DEFINE new == {}
<1>20. /\ heap'.free \subseteq heap.free \cup Unswept \cup Place(t)
       /\ Unswept' \subseteq heap.free \cup Unswept \cup Place(t)
       /\ Place(t)' \subseteq heap.free \cup Unswept \cup Place(t)
       /\ new \subseteq heap.free \cup Unswept \cup Place(t)
       /\ heap'.free \cap Unswept' = {} /\ heap'.free \cap Place(t)' = {} /\ Unswept' \cap Place(t)' = {}
       /\ new \cap heap'.free = {} /\ new \cap Unswept' = {} /\ new \cap Place(t)' = {}
       /\ \A x \in new : heap'.points[x] = {}
       /\ new \subseteq ListOf(EntriesOf(t)) /\ HeldBy(r) \subseteq Live \cup new
       /\ \A x \in Live : heap'.points[x] \subseteq heap.points[x]
       /\ ListOf(EntriesOf(t))' \subseteq ListOf(EntriesOf(t))
  BY <1>7, <1>17, <1>18, <1>19 DEF HeldInv, OwnerInv
<1> HIDE DEF new
<1> QED
  BY <1>1, <1>7, <1>10, <1>12, <1>13, <1>14, <1>15, <1>16, <1>20, MovingStep

\* A thread is over.
LEMMA EndHeld ==
  ASSUME WorldInv, ObjectInv, HeldInv, NEW t \in Threads, EndThread(t), UNCHANGED menu
  PROVE  HeldInv'
<1>1. /\ th[t].pc = "ending" /\ CanRun(t) /\ UNCHANGED <<table, stop, gc, heap, pm>>
  BY DEF EndThread, In
<1>2. PICK r : r = With(t, IF th[t].joinable THEN "dead" ELSE "gone")
  OBVIOUS
<1>3. /\ r.pc = IF th[t].joinable THEN "dead" ELSE "gone"
      /\ Same(r, th[t]) /\ r.obj = th[t].obj /\ r.held = th[t].held
  BY <1>2, GoesTo
<1>4. PICK E : E = EntriesOf(t)
  OBVIOUS
<1>5. Sound(t, th[t], E, "none", gc.in_creation)
  BY <1>1, <1>4 DEF HeldInv, SoundInv, CanRun, InHandler
<1>6. Sound(t, r, E, "none", gc'.in_creation)
  BY <1>1, <1>3, <1>5 DEF Sound, Decent, Tells, Saved, Starting, Same, Plain
<1>7. Leaves(t, r)
  BY <1>1, <1>3 DEF Leaves, Starting, Left, Same
<1>8. HeldBy(r) \subseteq Live
  BY <1>3, HoldsLive DEF HeldBy, Same
<1>9. th' = [th EXCEPT ![t] = r]
  BY <1>2 DEF EndThread, Became
<1>10. Lives(t, r, E)
  BY <1>1, <1>3, <1>4, <1>6, <1>7, <1>8, <1>9, SameEntriesOf DEF Lives, Occupied, Sweeper
<1>11. CollectorGoesOnOrBegins
  BY <1>1 DEF CollectorGoesOnOrBegins
<1> QED
  BY <1>1, <1>10, <1>11, LifeStep

\* A thread looks another one up.  It has found the entry of that one, or of one
\* that is gone.
LEMMA LookUpHeld ==
  ASSUME WorldInv, ObjectInv, HeldInv, NEW t \in Threads, NEW pc \in {"join", "detach"}, LookUp(t, pc), UNCHANGED menu
  PROVE  HeldInv'
<1>1. /\ th[t].pc = "run" /\ CanRun(t) /\ UNCHANGED <<table, stop, gc, heap, pm>>
  BY DEF LookUp, In
<1>2. Known(t) /\ DOMAIN th[t] = ThreadFields
  BY <1>1 DEF Known, Plain, WorldInv, ShapeInv
<1>3. PICK u \in Threads \ {t} :
        /\ Alive(u) /\ th[u].joinable /\ GC_lookup_thread(table, th[u].id) # 0
        /\ \A v \in Threads : th[v].of # u
        /\ Became(t, [With(t, pc) EXCEPT !.of = u, !.entry = table[GC_lookup_thread(table, th[u].id)].of])
  BY Zenon DEF LookUp
<1>4. PICK k, id : id = th[u].id /\ k = GC_lookup_thread(table, id)
  OBVIOUS
<1>5. k \in Index /\ table[k].id = th[u].id
  <2>1. k # 0
    BY <1>3, <1>4
  <2> QED
    BY <1>4, <2>1, Found DEF WorldInv, ShapeInv, Index
<1>6. PICK x : x = Owner(k)
  OBVIOUS
<1>7. x \in Threads /\ (x = u \/ (x # t /\ Left(th[x])))
  <2>1. x \in Threads /\ th[x].id = th[u].id /\ (Known(x) \/ th[x].pc \in Past)
    BY <1>5, <1>6 DEF WorldInv, TableInv
  <2>2. Alive(x) => x = u
    BY <1>3, <2>1 DEF WorldInv, TableInv
  <2>3. ~Alive(x) => th[x].pc = "gone"
    BY <2>1, KnownIsAlive DEF Alive, Past
  <2> QED
    BY <1>1, <2>1, <2>2, <2>3 DEF Left
<1>8. PICK r : r = [With(t, pc) EXCEPT !.of = u, !.entry = x]
  OBVIOUS
<1>9. /\ r.pc = pc /\ r.of = u /\ r.entry = x /\ r.obj = th[t].obj /\ Same(r, th[t])
  BY <1>2, <1>8 DEF With, ThreadFields, Same
<1>10. th[t].obj = NULL /\ r.obj = NULL
  BY <1>1, <1>9 DEF HeldInv, SoundInv, Sound, Decent
<1>11. PICK e : e = table[Own(t)]
  OBVIOUS
<1>12. EntryIs(t, e) /\ EntriesOf(t) = {e}
  BY <1>1, <1>2, <1>11, EntryStays, KnownEntry
<1>13. Sound(t, r, {e}, "none", gc'.in_creation)
  <2>1. r.pc \in (Plain \ {"take", "exit", "created"}) \cup {"blocked"} /\ r.pc # "blocked"
    BY <1>9 DEF Plain
  <2> QED
    BY <1>1, <1>2, <1>9, <1>10, <1>11, <2>1, GoesOnSound DEF HeldInv, Same
<1>14. Leaves(t, r)
  <2>1. ~Starting(th[u], gc.in_creation) /\ th[u].pc # "none"
    BY <1>3 DEF HeldInv, OtherInv, Awaited, Alive
  <2> QED
    BY <1>1, <1>3, <1>7, <1>9, <2>1 DEF Leaves, Starting, Left, Same
<1>15. HeldBy(r) \subseteq Live
  BY <1>9, HoldsLive DEF HeldBy, Same
<1>16. th' = [th EXCEPT ![t] = r]
  BY <1>3, <1>4, <1>6, <1>8 DEF Became, Owner
<1>17. Lives(t, r, {e})
  BY <1>1, <1>9, <1>12, <1>13, <1>14, <1>15, <1>16 DEF Lives, Occupied, Sweeper, EntryIs
<1>18. CollectorGoesOnOrBegins
  BY <1>1 DEF CollectorGoesOnOrBegins
<1> QED
  BY <1>1, <1>17, <1>18, LifeStep

\* What a thread may become while others depend on it.
Follows(r, q, i) ==
  /\ Left(r) => Left(q)
  /\ r.pc # "none" => q.pc # "none" /\ (~Starting(r, i) => ~Starting(q, i))
  /\ r.pc = "created" => q.pc = "created" /\ q.of = r.of /\ q.obj = r.obj
  /\ q.pc \in {"join", "detach"} => q.pc = r.pc /\ q.of = r.of /\ q.entry = r.entry

LEMMA OtherPair ==
  ASSUME OtherInv, UNCHANGED gc, NEW t \in Threads, NEW x \in Threads, NEW r, NEW q,
         th'[t] = r, th'[x] = q, \A u \in Threads \ {t, x} : th'[u] = th[u],
         Follows(th[t], r, gc.in_creation), Follows(th[x], q, gc.in_creation),
         ~Starting(r, gc.in_creation), Starting(q, gc.in_creation) => Awaited(x)',
         \A p \in {r, q} : p.pc = "detached" => p.entry \in Threads /\ Left(th'[p.entry])
  PROVE  OtherInv'
<1>1. PICK i, new : i = gc.in_creation /\ new = th'
  OBVIOUS
<1>2. \A v \in Threads : Follows(th[v], new[v], i)
  BY <1>1 DEF Follows
<1>3. \A v \in Threads \ {t, x} : new[v] = th[v]
  BY <1>1
<1>4. ASSUME NEW v \in Threads, Starting(new[v], i) PROVE Awaited(v)'
  <2>1. CASE v \in {t, x}
    BY <1>1, <1>4, <2>1
  <2>2. CASE v \notin {t, x}
    <3>1. Awaited(v) /\ new[v] = th[v]
      BY <1>1, <1>3, <1>4, <2>2 DEF OtherInv
    <3>2. PICK c \in Threads : th[c].pc = "created" /\ th[c].of = v /\ th[c].obj = th[v].result
      BY <3>1 DEF Awaited
    <3>3. new[c].pc = "created" /\ new[c].of = v /\ new[c].obj = th[v].result
      BY <1>2, <3>2 DEF Follows
    <3> QED
      BY <1>1, <3>1, <3>3 DEF Awaited
  <2> QED
    BY <2>1, <2>2
<1>5. ASSUME NEW v \in Threads
      PROVE  /\ new[v].pc \in {"join", "detach"} =>
                  new[v].of \in Threads /\ ~Starting(new[new[v].of], i) /\ new[new[v].of].pc # "none"
             /\ new[v].pc = "detach" =>
                  new[v].entry \in Threads /\ (new[v].entry = new[v].of \/ Left(new[new[v].entry]))
             /\ new[v].pc = "detached" => new[v].entry \in Threads /\ Left(new[new[v].entry])
  <2>1. new[v].pc \in {"join", "detach"} => new[v].pc = th[v].pc /\ new[v].of = th[v].of /\ new[v].entry = th[v].entry
    BY <1>2 DEF Follows
  <2>2. new[v].pc = "detached" => v \in {t, x} \/ new[v] = th[v]
    BY <1>3
  <2>3. new[v].pc = "detached" /\ v \in {t, x} => new[v].entry \in Threads /\ Left(new[new[v].entry])
    BY <1>1
  <2>4. PICK n, e : n = th[v].of /\ e = th[v].entry
    OBVIOUS
  <2>5. /\ n \in Threads /\ th[n].pc # "none" => new[n].pc # "none" /\ (~Starting(th[n], i) => ~Starting(new[n], i))
        /\ e \in Threads => (Left(th[e]) => Left(new[e]))
    BY <1>2 DEF Follows
  <2>6. /\ th[v].pc \in {"join", "detach"} => n \in Threads /\ ~Starting(th[n], i) /\ th[n].pc # "none"
        /\ th[v].pc = "detach" => e \in Threads /\ (e = n \/ Left(th[e]))
        /\ th[v].pc = "detached" => e \in Threads /\ Left(th[e])
    BY <1>1, <2>4 DEF OtherInv
  <2> QED
    BY <2>1, <2>2, <2>3, <2>4, <2>5, <2>6
<1>6. \A v \in Threads :
        /\ Starting(th[v], gc.in_creation)' <=> Starting(new[v], i)
        /\ Left(th[v])' <=> Left(new[v])
  BY <1>1 DEF Starting, Left
<1> QED
  BY <1>1, <1>4, <1>5 DEF OtherInv, Left, Starting

\* The result goes from the thread that is dead to the one that joins it.
JoinsDead(t, u, r) ==
  /\ u = th[t].of /\ th[u].pc = "dead"
  /\ r = [With(t, "joined") EXCEPT !.of = NULL, !.held = @ \cup ({th[u].result} \ {NULL})]
  /\ th' = [th EXCEPT ![t] = r, ![u] = Thread("gone", th[u].id)]

LEMMA JoinHeld ==
  ASSUME WorldInv, ObjectInv, HeldInv, NEW t \in Threads, In(t, "join"), NEW u, NEW r, JoinsDead(t, u, r),
         UNCHANGED <<table, stop, gc, mark_lock, heap, pm, lock, menu>>
  PROVE  HeldInv'
<1>1. u \in Threads \ {t} /\ th[t].pc = "join" /\ CanRun(t)
  BY DEF WorldInv, JoinInv, In, JoinsDead
<1>2. Known(t) /\ DOMAIN th[t] = ThreadFields
  BY <1>1 DEF Known, Plain, WorldInv, ShapeInv
<1>3. th[u].pc = "dead"
  BY DEF JoinsDead
<1>4. /\ r.pc = "joined" /\ r.held = th[t].held \cup ({th[u].result} \ {NULL}) /\ r.obj = th[t].obj
      /\ r.joinable = th[t].joinable /\ r.result = th[t].result /\ r.unregisters = th[t].unregisters
      /\ r.saved = th[t].saved /\ r.active = th[t].active /\ r.build = th[t].build
  BY <1>2 DEF With, ThreadFields, JoinsDead
<1>5. PICK q : q = Thread("gone", th[u].id)
  OBVIOUS
<1>6. /\ q.pc = "gone" /\ q.held = {} /\ q.obj = NULL /\ ~q.active /\ q.joinable /\ q.result = NULL
  BY <1>5 DEF Thread
<1>7. th'[t] = r /\ th'[u] = q /\ \A v \in Threads \ {t, u} : th'[v] = th[v]
  BY <1>1, <1>5 DEF WorldInv, ShapeInv, JoinsDead
<1>8. \A v : EntriesOf(v)' = EntriesOf(v)
  BY SameEntriesOf
<1>9. Quiet(t)
  <2>1. PICK e : e = table[Own(t)]
    OBVIOUS
  <2>2. EntriesOf(t) = {e}
    BY <1>2, <2>1, KnownEntry
  <2>3. th[t].obj = NULL
    BY <1>1 DEF HeldInv, SoundInv, Sound, Decent
  <2>4. Sound(t, r, {e}, "none", gc.in_creation)
    BY <1>1, <1>2, <1>4, <2>1, <2>3, GoesOnSound DEF HeldInv, Plain
  <2>5. stop'.handler[t].pc = "none" /\ gc'.in_creation = gc.in_creation /\ EntriesOf(t)' = {e}
    BY <1>1, <1>8, <2>2 DEF CanRun, InHandler
  <2>6. Sound(t, th[t], EntriesOf(t), stop.handler[t].pc, gc.in_creation)'
    BY <1>7, <2>4, <2>5 DEF Sound, Decent, Starting, Tells, Shows, Saved
  <2>7. {th[u].result} \ {NULL} \subseteq Live
    BY <1>1, <1>3, HoldsLive DEF HeldInv, SoundInv, Sound, Decent
  <2>8. HeldBy(r) \subseteq Live
    BY <1>4, <2>7, HoldsLive DEF HeldBy
  <2>9. AsBefore(t)
    BY <1>1, <1>4, <1>7 DEF AsBefore, Occupied, Sweeper
  <2> QED
    BY <1>7, <1>8, <2>6, <2>8, <2>9 DEF Quiet, HeldBy, ListOf
<1>10. Quiet(u)
  <2>1. stop.handler[u].pc = "none"
    BY <1>1, <1>3 DEF WorldInv, SignalInv, Known, Plain
  <2>2. PICK E : E = EntriesOf(u)
    OBVIOUS
  <2>3. Sound(u, th[u], E, "none", gc.in_creation)
    BY <1>1, <2>1, <2>2 DEF HeldInv, SoundInv
  <2>4. Sound(u, q, E, "none", gc.in_creation)
    BY <1>6, <2>3 DEF Sound, Decent, Tells, Saved, Starting
  <2>5. Sound(u, th[u], EntriesOf(u), stop.handler[u].pc, gc.in_creation)'
    BY <1>7, <1>8, <2>1, <2>2, <2>4 DEF Sound, Decent, Starting, Tells, Shows, Saved
  <2>6. HeldBy(q) = {}
    BY <1>6 DEF HeldBy
  <2>7. AsBefore(u)
    BY <1>3, <1>6, <1>7 DEF AsBefore, Occupied, Sweeper
  <2> QED
    BY <1>7, <1>8, <2>5, <2>6, <2>7 DEF Quiet, HeldBy, ListOf
<1>11. OtherInv'
  <2>1. ~Starting(r, gc.in_creation) /\ ~Starting(q, gc.in_creation)
    BY <1>4, <1>6 DEF Starting
  <2>2. Follows(th[t], r, gc.in_creation) /\ Follows(th[u], q, gc.in_creation)
    BY <1>1, <1>3, <1>4, <1>6, <2>1 DEF Follows, Left
  <2>3. \A p \in {r, q} : p.pc = "detached" => p.entry \in Threads /\ Left(th'[p.entry])
    BY <1>4, <1>6
  <2>4. OtherInv /\ UNCHANGED gc /\ t \in Threads /\ u \in Threads
    BY <1>1 DEF HeldInv
  <2>5. Starting(q, gc.in_creation) => Awaited(u)'
    BY <2>1
  <2> QED
    BY ONLY <1>7, <2>1, <2>2, <2>3, <2>4, <2>5, OtherPair
<1>12. CollectorGoesOnOrBegins /\ gc'.builders = gc.builders
  BY DEF CollectorGoesOnOrBegins
<1>13. \A v \in Threads \ {t, u} : th'[v] = th[v] /\ EntriesOf(v)' = EntriesOf(v)
  BY <1>7, <1>8
<1> QED
  BY <1>1, <1>9, <1>10, <1>11, <1>12, <1>13, PairStep

\* A thread that was about to join or to detach another one goes on, and only the
\* entry of thread x has changed.
LEMMA EntryOfOther ==
  ASSUME WorldInv, ObjectInv, HeldInv, NEW t \in Threads, CanRun(t), th[t].pc \in {"joined", "detached"},
         Became(t, [With(t, "run") EXCEPT !.entry = NULL]),
         UNCHANGED <<stop, gc, heap, pm, menu>>,
         NEW x \in Threads, NEW E, EntriesOf(x)' = E, \A u \in Threads \ {x} : EntriesOf(u)' = EntriesOf(u),
         ListOf(E) \subseteq ListOf(EntriesOf(x)),
         x # t => Sound(x, th[x], E, stop.handler[x].pc, gc.in_creation),
         x = t => \E e : /\ E = {e} /\ e.status = table[Own(t)].status
                         /\ e.flags = table[Own(t)].flags \/ (e.flags = table[Own(t)].flags \cup {DETACHED} /\ ~th[t].joinable)
  PROVE  HeldInv'
<1>1. Known(t) /\ DOMAIN th[t] = ThreadFields /\ th[t].obj = NULL
  BY DEF Known, Plain, WorldInv, ShapeInv, HeldInv, SoundInv, Sound, Decent
<1>2. PICK r : r = [With(t, "run") EXCEPT !.entry = NULL]
  OBVIOUS
<1>3. /\ r.pc = "run" /\ r.obj = NULL /\ Same(r, th[t])
  BY <1>1, <1>2 DEF With, ThreadFields, Same
<1>4. th' = [th EXCEPT ![t] = r] /\ th'[t] = r /\ \A u \in Threads \ {t} : th'[u] = th[u]
  BY <1>2 DEF Became, WorldInv, ShapeInv
<1>5. EntriesOf(t) = {table[Own(t)]} /\ FINISHED \notin table[Own(t)].flags /\ DETACHED # FINISHED
  BY <1>1, KnownEntry DEF WorldInv, TableInv, DETACHED, FINISHED
<1>6. stop'.handler[t].pc = "none" /\ gc'.in_creation = gc.in_creation
  BY DEF CanRun, InHandler
<1>7. PICK F : F = EntriesOf(t)' /\ Sound(t, r, F, "none", gc.in_creation)
  <2>1. CASE x # t
    <3>1. Sound(t, r, {table[Own(t)]}, "none", gc.in_creation)
      BY <1>1, <1>3, GoesOnSound DEF HeldInv, Same, Plain
    <3> QED
      BY <1>5, <2>1, <3>1
  <2>2. CASE x = t
    <3>1. PICK e : /\ E = {e} /\ e.status = table[Own(t)].status
                   /\ e.flags = table[Own(t)].flags \/ (e.flags = table[Own(t)].flags \cup {DETACHED} /\ ~th[t].joinable)
      BY <2>2
    <3>2. CASE e.flags = table[Own(t)].flags
      <4>1. Sound(t, r, {e}, "none", gc.in_creation)
        BY <1>1, <1>3, <3>1, <3>2, GoesOnSound DEF HeldInv, Same, Plain
      <4> QED
        BY <2>2, <3>1, <4>1
    <3>3. CASE e.flags = table[Own(t)].flags \cup {DETACHED} /\ ~th[t].joinable
      <4>1. Decent(r, gc.in_creation) /\ Tells(t, r, e, "none")
        BY <1>3, <1>5, <3>3 DEF Decent, Tells, Plain, Same, Saved
      <4> QED
        BY <2>2, <3>1, <4>1 DEF Sound
    <3> QED
      BY <3>1, <3>2, <3>3
  <2> QED
    BY <2>1, <2>2
<1>8. Quiet(t)
  <2>1. Sound(t, th[t], EntriesOf(t), stop.handler[t].pc, gc.in_creation)'
    BY <1>4, <1>6, <1>7 DEF Sound, Decent, Starting, Tells, Shows, Saved
  <2>2. HeldBy(r) \subseteq Live
    BY <1>3, HoldsLive DEF HeldBy, Same
  <2>3. AsBefore(t)
    BY <1>3, <1>4 DEF AsBefore, Occupied, Sweeper
  <2>4. ListOf(EntriesOf(t))' \subseteq ListOf(EntriesOf(t))
    BY DEF ListOf
  <2> QED
    BY <1>4, <2>1, <2>2, <2>3, <2>4 DEF Quiet, HeldBy
<1>9. ASSUME x # t PROVE Quiet(x)
  <2>1. PICK h : h = stop.handler[x].pc
    OBVIOUS
  <2>2. Sound(x, th[x], E, h, gc.in_creation)
    BY <1>9, <2>1
  <2>3. Sound(x, th[x], EntriesOf(x), stop.handler[x].pc, gc.in_creation)'
    BY <1>4, <1>6, <1>9, <2>1, <2>2 DEF Sound, Decent, Starting, Tells, Shows, Saved
  <2>4. HeldBy(th[x])' \subseteq Live
    BY <1>4, <1>9, HoldsLive DEF HeldBy
  <2>5. AsBefore(x)
    BY <1>4, <1>9 DEF AsBefore
  <2>6. ListOf(EntriesOf(x))' \subseteq ListOf(EntriesOf(x))
    BY DEF ListOf
  <2> QED
    BY <2>3, <2>4, <2>5, <2>6 DEF Quiet
<1>10. CollectorGoesOnOrBegins /\ gc'.builders = gc.builders
  BY DEF CollectorGoesOnOrBegins
<1>11. OtherInv'
  <2>1. Leaves(t, r)
    BY <1>3, GoesOnLeaves DEF Same
  <2> QED
    BY <1>4, <1>10, <2>1, OtherStep DEF HeldInv
<1>12. \A u \in Threads \ {t, x} : th'[u] = th[u] /\ EntriesOf(u)' = EntriesOf(u)
  BY <1>4
<1> QED
  BY <1>8, <1>9, <1>10, <1>11, <1>12, PairStep

\* What a thread was has no entry any more.
LEMMA DeletesHeld ==
  ASSUME WorldInv, ObjectInv, HeldInv, NEW t \in Threads, CanRun(t), th[t].pc \in {"joined", "detached"},
         Became(t, [With(t, "run") EXCEPT !.entry = NULL]),
         UNCHANGED <<stop, gc, heap, pm, menu>>,
         NEW x \in Threads \ {t}, Left(th[x]), table' = GC_delete_gc_thread(table, x)
  PROVE  HeldInv'
<1>1. PICK k : k = EntryOf(table, x)
  OBVIOUS
<1>2. (k = 0 \/ (k \in Index /\ Owner(k) = x)) /\ (k # 0 => Owner(k) = x) /\ table' = RemoveAt(table, k)
  BY <1>1, FoundOwn DEF WorldInv, ShapeInv, Index, Owner, GC_delete_gc_thread
<1>3. /\ k = 0 => \A u : EntriesOf(u)' = EntriesOf(u)
      /\ k # 0 => EntriesOf(x)' = {} /\ \A u : u # x => EntriesOf(u)' = EntriesOf(u)
  <2>1. k \in Index \cup {0}
    BY <1>2
  <2> QED
    BY ONLY WorldInv, <1>2, <2>1, EntryIsDeleted
<1>4. Sound(x, th[x], EntriesOf(x), stop.handler[x].pc, gc.in_creation)
  BY DEF HeldInv, SoundInv
<1>5. Sound(x, th[x], {}, stop.handler[x].pc, gc.in_creation)
  BY <1>4 DEF Sound, Decent, Left
<1>6. PICK E : /\ EntriesOf(x)' = E /\ \A u \in Threads \ {x} : EntriesOf(u)' = EntriesOf(u)
               /\ ListOf(E) \subseteq ListOf(EntriesOf(x))
               /\ Sound(x, th[x], E, stop.handler[x].pc, gc.in_creation)
  <2>1. CASE k = 0
    BY <1>3, <1>4, <2>1
  <2>2. CASE k # 0
    BY <1>3, <1>5, <2>2 DEF ListOf
  <2> QED
    BY <2>1, <2>2
<1> QED
  BY <1>6, EntryOfOther

\* The last step of a detach: the entry is deleted if its thread has ended, and else
\* the thread is told to delete it.
LEMMA DetachedHeld ==
  ASSUME WorldInv, ObjectInv, HeldInv, NEW t \in Threads, In(t, "detached"),
         NEW x, x = th[t].entry, NEW k, k = EntryOf(table, x),
         table' = IF FINISHED \in table[k].flags THEN GC_delete_gc_thread(table, x)
                  ELSE [table EXCEPT ![k].flags = @ \cup {DETACHED}],
         Became(t, [With(t, "run") EXCEPT !.entry = NULL]),
         UNCHANGED <<stop, gc, heap, pm, menu>>
  PROVE  HeldInv'
<1>1. th[t].pc = "detached" /\ CanRun(t)
  BY DEF In
<1>2. x \in Threads /\ Left(th[x])
  BY <1>1 DEF HeldInv, OtherInv
<1>3. Known(t) /\ EntriesOf(t) = {table[Own(t)]}
  BY <1>1, KnownEntry DEF Known, Plain
<1>4. k = 0 \/ (k \in Index /\ Owner(k) = x)
  BY FoundOwn DEF WorldInv, ShapeInv, Index, Owner
<1>5. CASE k = 0
  <2>1. 0 \notin Index /\ \E E : table \in Seq(E)
    BY Entries DEF WorldInv, ShapeInv
  <2>2. UNCHANGED table
    <3>1. CASE FINISHED \in table[k].flags
      <4>1. table' = RemoveAt(table, 0)
        BY <1>5, <3>1 DEF GC_delete_gc_thread
      <4> QED
        BY <2>1, <4>1, Removed
    <3>2. CASE FINISHED \notin table[k].flags
      <4>1. PICK e : table' = [table EXCEPT ![k] = e]
        BY <3>2
      <4> QED
        BY <1>5, <2>1, <4>1 DEF Index
    <3> QED
      BY <3>1, <3>2
  <2>3. PICK E : E = EntriesOf(t)
    OBVIOUS
  <2>4. /\ EntriesOf(t)' = E /\ \A u \in Threads \ {t} : EntriesOf(u)' = EntriesOf(u)
        /\ ListOf(E) \subseteq ListOf(EntriesOf(t))
    BY <2>2, <2>3, SameEntriesOf
  <2>5. \E e : /\ E = {e} /\ e.status = table[Own(t)].status
               /\ e.flags = table[Own(t)].flags \/ (e.flags = table[Own(t)].flags \cup {DETACHED} /\ ~th[t].joinable)
    BY <1>3, <2>3
  <2> QED
    BY <1>1, <2>4, <2>5, EntryOfOther
<1>6. CASE k # 0 /\ FINISHED \in table[k].flags
  <2>1. x # t
    BY <1>3, <1>4, <1>6 DEF WorldInv, TableInv
  <2>2. table' = GC_delete_gc_thread(table, x)
    BY <1>6
  <2> QED
    BY <1>1, <1>2, <2>1, <2>2, DeletesHeld
<1>7. CASE k # 0 /\ FINISHED \notin table[k].flags
  <2>1. k \in Index /\ Owner(k) = x /\ Known(x) /\ ~th[x].joinable /\ DOMAIN table[k] = EntryFields
    <3>1. Known(x)
      BY <1>4, <1>7 DEF WorldInv, TableInv
    <3> QED
      BY <1>2, <1>4, <1>7, <3>1 DEF Left, Known, Plain, WorldInv, ShapeInv
  <2>2. EntriesOf(x) = {table[k]} /\ k = Own(x)
    BY <1>2, <2>1, KnownEntry DEF WorldInv, TableInv
  <2>3. PICK e : e = [table[k] EXCEPT !.flags = @ \cup {DETACHED}]
    OBVIOUS
  <2>4. /\ e.of = x /\ e.flags = table[k].flags \cup {DETACHED} /\ e.status = table[k].status
        /\ e.tlfs = table[k].tlfs /\ e.stack = table[k].stack
    BY <2>1, <2>3 DEF EntryFields, Owner
  <2>5. table' = [table EXCEPT ![k] = e]
    BY <1>7, <2>3
  <2>6. EntriesOf(x)' = {e} /\ \A u : u # x => EntriesOf(u)' = EntriesOf(u)
    BY ONLY WorldInv, <2>1, <2>4, <2>5, EntryGets
  <2>7. ListOf({e}) \subseteq ListOf(EntriesOf(x))
    BY <2>2, <2>4 DEF ListOf
  <2>8. Sound(x, th[x], {e}, stop.handler[x].pc, gc.in_creation)
    <3>1. Sound(x, th[x], {table[k]}, stop.handler[x].pc, gc.in_creation)
      BY <1>2, <2>2, SMTT(30) DEF HeldInv, SoundInv
    <3>2. Tells(x, th[x], e, stop.handler[x].pc)
      BY <1>7, <2>1, <2>4, <3>1 DEF Sound, Tells, FINISHED, DETACHED
    <3> QED
      BY <3>1, <3>2 DEF Sound
  <2>9. PICK E : E = {e}
    OBVIOUS
  <2>10. x = t => \E f : /\ E = {f} /\ f.status = table[Own(t)].status
                         /\ f.flags = table[Own(t)].flags \/ (f.flags = table[Own(t)].flags \cup {DETACHED} /\ ~th[t].joinable)
    BY <2>1, <2>2, <2>4, <2>9
  <2>11. /\ EntriesOf(x)' = E /\ \A u \in Threads \ {x} : EntriesOf(u)' = EntriesOf(u)
         /\ ListOf(E) \subseteq ListOf(EntriesOf(x))
         /\ Sound(x, th[x], E, stop.handler[x].pc, gc.in_creation)
    BY <2>6, <2>7, <2>8, <2>9
  <2> QED
    BY <1>1, <1>2, <2>10, <2>11, EntryOfOther
<1> QED
  BY <1>5, <1>6, <1>7

\* A thread is detached: nobody will ask for its result.
LEMMA DetachHeld ==
  ASSUME WorldInv, ObjectInv, HeldInv, NEW t \in Threads, In(t, "detach"), NEW u, u = th[t].of,
         th' = [th EXCEPT ![t] = [With(t, "detached") EXCEPT !.of = NULL],
                          ![u].joinable = FALSE, ![u].pc = IF @ = "dead" THEN "gone" ELSE @],
         UNCHANGED <<table, stop, gc, mark_lock, heap, pm, lock, menu>>
  PROVE  HeldInv'
<1>1. u \in Threads \ {t} /\ th[t].pc = "detach" /\ CanRun(t)
  BY DEF WorldInv, JoinInv, In
<1>2. Known(t) /\ DOMAIN th[t] = ThreadFields /\ DOMAIN th[u] = ThreadFields /\ th[t].obj = NULL
  BY <1>1 DEF Known, Plain, WorldInv, ShapeInv, HeldInv, SoundInv, Sound, Decent
<1>3. PICK x : x = th[t].entry
  OBVIOUS
<1>4. /\ ~Starting(th[u], gc.in_creation) /\ th[u].pc # "none"
      /\ x \in Threads /\ (x = u \/ Left(th[x]))
  BY <1>1, <1>3 DEF HeldInv, OtherInv
<1>5. PICK r : r = [With(t, "detached") EXCEPT !.of = NULL]
  OBVIOUS
<1>6. /\ r.pc = "detached" /\ r.obj = NULL /\ r.entry = x /\ Same(r, th[t]) /\ r.build = th[t].build
  BY <1>2, <1>3, <1>5 DEF With, ThreadFields, Same
<1>7. PICK q : q = [[th[u] EXCEPT !.joinable = FALSE] EXCEPT !.pc = IF @ = "dead" THEN "gone" ELSE @]
  OBVIOUS
<1>8. /\ q.pc = IF th[u].pc = "dead" THEN "gone" ELSE th[u].pc
      /\ ~q.joinable /\ q.held = th[u].held /\ q.obj = th[u].obj /\ q.of = th[u].of /\ q.entry = th[u].entry
      /\ q.saved = th[u].saved /\ q.active = th[u].active /\ q.build = th[u].build
      /\ q.unregisters = th[u].unregisters
  BY <1>2, <1>7 DEF ThreadFields
<1>9. th'[t] = r /\ th'[u] = q /\ \A v \in Threads \ {t, u} : th'[v] = th[v]
  BY <1>1, <1>5, <1>7 DEF WorldInv, ShapeInv
<1>10. \A v : EntriesOf(v)' = EntriesOf(v)
  BY SameEntriesOf
<1>11. Quiet(t)
  <2>1. PICK e : e = table[Own(t)]
    OBVIOUS
  <2>2. EntriesOf(t) = {e}
    BY <1>2, <2>1, KnownEntry
  <2>3. Sound(t, r, {e}, "none", gc.in_creation)
    BY <1>1, <1>2, <1>6, <2>1, GoesOnSound DEF HeldInv, Plain, Same
  <2>4. stop'.handler[t].pc = "none" /\ gc'.in_creation = gc.in_creation /\ EntriesOf(t)' = {e}
    BY ONLY UNCHANGED <<stop, gc>>, <1>1, <1>10, <2>2 DEF CanRun, InHandler
  <2>5. Sound(t, th[t], EntriesOf(t), stop.handler[t].pc, gc.in_creation)'
    BY ONLY <1>9, <2>3, <2>4 DEF Sound, Decent, Starting, Tells, Shows, Saved
  <2>6. HeldBy(r) \subseteq Live
    BY <1>6, HoldsLive DEF HeldBy, Same
  <2>7. AsBefore(t)
    <3>1. th[t].pc = "detach" /\ th'[t].pc = "detached"
      BY ONLY <1>1, <1>6, <1>9, ZenonT(30)
    <3> QED
      BY ONLY <3>1 DEF AsBefore, Occupied, Sweeper
  <2> QED
    BY <1>9, <1>10, <2>5, <2>6, <2>7 DEF Quiet, HeldBy, ListOf
<1>12. Quiet(u)
  <2>1. PICK E, h : E = EntriesOf(u) /\ h = stop.handler[u].pc
    OBVIOUS
  <2>2. Sound(u, th[u], E, h, gc.in_creation)
    BY <1>1, <2>1 DEF HeldInv, SoundInv
  <2>3. Shows(q) = Shows(th[u])
    BY ONLY <1>8 DEF Shows
  <2>4. Decent(q, gc.in_creation)
    BY ONLY <1>4, <1>8, <2>2 DEF Sound, Decent, Plain
  <2>5. \A e \in E : Tells(u, q, e, h)
    BY ONLY <1>8, <2>2, <2>3 DEF Sound, Tells
  <2>6. Sound(u, th[u], EntriesOf(u), stop.handler[u].pc, gc.in_creation)'
    <3>1. Sound(u, q, E, h, gc.in_creation)
      BY <1>8, <2>4, <2>5 DEF Sound
    <3>2. stop'.handler[u].pc = h /\ gc'.in_creation = gc.in_creation /\ EntriesOf(u)' = E
      BY <1>10, <2>1
    <3> QED
      BY ONLY <1>9, <3>1, <3>2 DEF Sound, Decent, Starting, Tells, Shows, Saved
  <2>7. HeldBy(q) \subseteq Live
    BY <1>1, <1>8, HoldsLive DEF HeldBy
  <2>8. AsBefore(u)
    <3>1. CASE th[u].pc = "dead"
      <4>1. th'[u].pc = "gone"
        BY ONLY <1>8, <1>9, <3>1, ZenonT(30)
      <4> QED
        BY ONLY <3>1, <4>1 DEF AsBefore, Occupied, Sweeper
    <3>2. CASE th[u].pc # "dead"
      BY <1>8, <1>9, <3>2 DEF AsBefore
    <3> QED
      BY ONLY <3>1, <3>2
  <2> QED
    BY <1>9, <1>10, <2>6, <2>7, <2>8 DEF Quiet, HeldBy, ListOf
<1>13. OtherInv'
  <2>1. ~Starting(r, gc.in_creation) /\ ~Starting(q, gc.in_creation)
    BY ONLY <1>4, <1>6, <1>8 DEF Starting
  <2>2. Follows(th[t], r, gc.in_creation) /\ Follows(th[u], q, gc.in_creation)
    BY ONLY <1>1, <1>4, <1>6, <1>8, <2>1 DEF Follows, Left, Same
  <2>3. Left(q)
    BY ONLY <1>4, <1>8, ZenonT(30) DEF Left
  <2>4. \A v \in Threads : Left(th[v]) => Left(th'[v])
    BY <1>9, <2>2, <2>3 DEF Follows
  <2>5. q.pc = "detached" => q.entry \in Threads /\ Left(th[q.entry])
    BY <1>1, <1>8 DEF HeldInv, OtherInv
  <2>6. \A p \in {r, q} : p.pc = "detached" => p.entry \in Threads /\ Left(th'[p.entry])
    BY <1>4, <1>6, <1>9, <2>3, <2>4, <2>5
  <2>7. OtherInv /\ UNCHANGED gc /\ t \in Threads /\ u \in Threads
    BY <1>1 DEF HeldInv
  <2>8. Starting(q, gc.in_creation) => Awaited(u)'
    BY <2>1
  <2> QED
    BY ONLY <1>9, <2>1, <2>2, <2>6, <2>7, <2>8, OtherPair
<1>14. CollectorGoesOnOrBegins /\ gc'.builders = gc.builders
  BY DEF CollectorGoesOnOrBegins
<1>15. \A v \in Threads \ {t, u} : th'[v] = th[v] /\ EntriesOf(v)' = EntriesOf(v)
  BY <1>9, <1>10
<1> QED
  BY <1>1, <1>11, <1>12, <1>13, <1>14, <1>15, PairStep

\* A thread is created: its creator keeps the argument on its stack.
LEMMA CreateHeld ==
  ASSUME WorldInv, ObjectInv, HeldInv, NEW t \in Threads, GC_pthread_create(t), UNCHANGED menu
  PROVE  HeldInv'
<1>1. /\ th[t].pc = "run" /\ CanRun(t) /\ UNCHANGED <<table, stop, gc, heap, pm>>
  BY DEF GC_pthread_create, In
<1>2. PICK n, arg, detached, id :
        n \in Threads /\ arg \in th[t].held \cup {NULL} /\ th[n].pc = "none" /\ Creation(t, n, arg, id, detached)
  <2>1. PICK n \in Threads, arg \in th[t].held \cup {NULL}, detached \in BOOLEAN :
          th[n].pc = "none" /\ \E id \in FreeIds(n) : Creation(t, n, arg, id, detached)
    BY ZenonT(60) DEF GC_pthread_create, Creation
  <2> QED
    BY <2>1
<1>3. Known(t) /\ DOMAIN th[t] = ThreadFields /\ n # t
  BY <1>1, <1>2 DEF Known, Plain, WorldInv, ShapeInv
<1>4. PICK r : r = [th[t] EXCEPT !.pc = "created", !.of = n, !.obj = arg]
  OBVIOUS
<1>5. /\ r.pc = "created" /\ r.of = n /\ r.obj = arg /\ Same(r, th[t]) /\ r.held = th[t].held
  BY <1>3, <1>4 DEF ThreadFields, Same
<1>6. PICK q : q = [Thread("start", id) EXCEPT !.result = arg, !.joinable = ~detached]
  OBVIOUS
<1>7. /\ q.pc = "start" /\ q.held = {} /\ q.obj = NULL /\ ~q.active /\ ~q.unregisters /\ q.result = arg
  BY <1>6 DEF Thread
<1>8. th'[t] = r /\ th'[n] = q /\ \A v \in Threads \ {t, n} : th'[v] = th[v]
  BY <1>2, <1>3, <1>4, <1>6 DEF Creation, WorldInv, ShapeInv
<1>9. \A v : EntriesOf(v)' = EntriesOf(v)
  BY <1>1, SameEntriesOf
<1>10. Quiet(t)
  <2>1. PICK e : e = table[Own(t)]
    OBVIOUS
  <2>2. EntriesOf(t) = {e} /\ FINISHED \notin e.flags
    BY <1>3, <2>1, KnownEntry DEF WorldInv, TableInv
  <2>3. Tells(t, th[t], e, "none")
    BY <1>1, <2>2 DEF HeldInv, SoundInv, Sound, CanRun, InHandler
  <2>4. Decent(r, gc.in_creation) /\ Tells(t, r, e, "none")
    BY <1>1, <1>2, <1>5, <2>2, <2>3 DEF Decent, Tells, Saved, Plain, Same
  <2>5. stop'.handler[t].pc = "none" /\ gc'.in_creation = gc.in_creation /\ EntriesOf(t)' = {e}
    BY <1>1, <1>9, <2>2 DEF CanRun, InHandler
  <2>6. Sound(t, th[t], EntriesOf(t), stop.handler[t].pc, gc.in_creation)'
    BY <1>8, <2>4, <2>5 DEF Sound, Decent, Starting, Tells, Shows, Saved
  <2>7. HeldBy(r) \subseteq Live
    BY <1>5, HoldsLive DEF HeldBy, Same
  <2>8. AsBefore(t)
    BY <1>1, <1>5, <1>8 DEF AsBefore, Occupied, Sweeper
  <2> QED
    BY <1>8, <1>9, <2>6, <2>7, <2>8 DEF Quiet, HeldBy, ListOf
<1>11. Quiet(n)
  <2>1. EntriesOf(n) = {}
    BY <1>2, NoEntryYet DEF Known, Plain, Past
  <2>2. Sound(n, q, {}, "none", gc.in_creation)
    BY <1>7 DEF Sound, Decent, Starting, Plain
  <2>3. EntriesOf(n)' = {} /\ gc'.in_creation = gc.in_creation
    BY <1>1, <1>9, <2>1
  <2>4. Sound(n, th[n], EntriesOf(n), stop.handler[n].pc, gc.in_creation)'
    BY <1>8, <2>2, <2>3 DEF Sound, Decent, Starting, Tells, Shows, Saved
  <2>5. HeldBy(q) \subseteq Live
    BY <1>2, <1>7, HoldsLive DEF HeldBy
  <2>6. AsBefore(n)
    BY <1>2, <1>7, <1>8 DEF AsBefore, Occupied, Sweeper
  <2> QED
    BY <1>8, <1>9, <2>4, <2>5, <2>6 DEF Quiet, HeldBy, ListOf
<1>12. OtherInv'
  <2>1. ~Starting(r, gc.in_creation)
    BY <1>5 DEF Starting
  <2>2. Follows(th[t], r, gc.in_creation) /\ Follows(th[n], q, gc.in_creation)
    BY <1>1, <1>2, <1>5, <1>7, <2>1 DEF Follows, Left, Same
  <2>3. Awaited(n)'
    BY <1>5, <1>7, <1>8 DEF Awaited
  <2>4. Starting(q, gc.in_creation) => Awaited(n)'
    BY <1>7, <2>3
  <2>5. \A p \in {r, q} : p.pc = "detached" => p.entry \in Threads /\ Left(th'[p.entry])
    BY <1>5, <1>7
  <2>6. OtherInv /\ UNCHANGED gc /\ t \in Threads /\ n \in Threads
    BY <1>1, <1>2 DEF HeldInv
  <2> QED
    BY ONLY <1>8, <2>1, <2>2, <2>4, <2>5, <2>6, OtherPair
<1>13. CollectorGoesOnOrBegins /\ gc'.builders = gc.builders
  BY <1>1 DEF CollectorGoesOnOrBegins
<1>14. \A v \in Threads \ {t, n} : th'[v] = th[v] /\ EntriesOf(v)' = EntriesOf(v)
  BY <1>8, <1>9
<1> QED
  BY <1>1, <1>10, <1>11, <1>12, <1>13, <1>14, PairStep

\* A thread joins or detaches another one.
LEMMA JoinsHeld ==
  ASSUME WorldInv, ObjectInv, HeldInv, NEW t \in Threads, GC_pthread_join(t) \/ GC_pthread_detach(t),
         UNCHANGED menu
  PROVE  HeldInv'
<1>1. CASE LookUp(t, "join") \/ LookUp(t, "detach")
  BY <1>1, LookUpHeld
<1>2. PICK u, x, k : u = th[t].of /\ x = th[t].entry /\ k = EntryOf(table, x)
  OBVIOUS
<1>3. CASE /\ In(t, "join") /\ th[u].pc = "dead"
           /\ th' = [th EXCEPT ![t] = [With(t, "joined") EXCEPT !.of = NULL, !.held = @ \cup ({th[u].result} \ {NULL})],
                               ![u] = Thread("gone", th[u].id)]
           /\ UNCHANGED <<table, stop, gc, mark_lock, heap, pm, lock>>
  <2>1. PICK r : r = [With(t, "joined") EXCEPT !.of = NULL, !.held = @ \cup ({th[u].result} \ {NULL})]
    OBVIOUS
  <2>2. JoinsDead(t, u, r)
    BY <1>2, <1>3, <2>1 DEF JoinsDead
  <2>3. In(t, "join") /\ UNCHANGED <<table, stop, gc, mark_lock, heap, pm, lock, menu>>
    BY <1>3
  <2> QED
    BY ONLY WorldInv, ObjectInv, HeldInv, t \in Threads, <2>2, <2>3, JoinHeld
<1>4. CASE /\ In(t, "joined") /\ table' = GC_delete_gc_thread(table, x)
           /\ Became(t, [With(t, "run") EXCEPT !.entry = NULL])
           /\ UNCHANGED <<stop, gc, heap, pm>>
  <2>1. x \in Threads \ {t} /\ Left(th[x]) /\ CanRun(t) /\ th[t].pc \in {"joined", "detached"}
    BY <1>2, <1>4 DEF WorldInv, JoinInv, In, Left
  <2> QED
    BY <1>4, <2>1, DeletesHeld
<1>5. CASE /\ In(t, "detach")
           /\ th' = [th EXCEPT ![t] = [With(t, "detached") EXCEPT !.of = NULL],
                               ![u].joinable = FALSE, ![u].pc = IF @ = "dead" THEN "gone" ELSE @]
           /\ UNCHANGED <<table, stop, gc, mark_lock, heap, pm, lock>>
  BY <1>2, <1>5, DetachHeld
<1>6. CASE /\ In(t, "detached")
           /\ table' = IF FINISHED \in table[k].flags THEN GC_delete_gc_thread(table, x)
                       ELSE [table EXCEPT ![k].flags = @ \cup {DETACHED}]
           /\ Became(t, [With(t, "run") EXCEPT !.entry = NULL])
           /\ UNCHANGED <<stop, gc, heap, pm>>
  BY <1>2, <1>6, DetachedHeld
<1>7. CASE GC_pthread_join(t)
  BY <1>1, <1>2, <1>3, <1>4, <1>7, Zenon DEF GC_pthread_join
<1>8. CASE GC_pthread_detach(t)
  BY <1>1, <1>2, <1>5, <1>6, <1>8, Zenon DEF GC_pthread_detach
<1> QED
  BY <1>7, <1>8

\* A thread blocks or goes on after it, and its entry is e.
LEMMA BlocksHeld ==
  ASSUME WorldInv, ObjectInv, HeldInv, NEW t \in Threads, CanRun(t), th[t].pc \in {"run", "blocked"},
         UNCHANGED <<stop, gc, heap, pm, menu>>,
         NEW r, th' = [th EXCEPT ![t] = r], r.pc \in {"run", "blocked"}, r.obj = NULL,
         r.joinable = th[t].joinable, r.result = th[t].result, r.unregisters = th[t].unregisters,
         r.held \subseteq Live, {o \in r.saved : r.active} \subseteq Live,
         NEW e, table' = [table EXCEPT ![Own(t)] = e], e.of = t, e.flags = table[Own(t)].flags,
         e.status = table[Own(t)].status, e.tlfs = table[Own(t)].tlfs,
         r.pc = "blocked" => r.saved \subseteq r.held /\ ~r.active /\ Shows(r) \subseteq e.stack
  PROVE  HeldInv'
<1>1. Known(t)
  BY DEF Known, Plain
<1>2. EntriesOf(t) = {table[Own(t)]} /\ Own(t) \in Index /\ Owner(Own(t)) = t
  BY <1>1, KnownEntry
<1>3. EntriesOf(t)' = {e} /\ \A u : u # t => EntriesOf(u)' = EntriesOf(u)
  <2>1. PICK k : k = Own(t)
    OBVIOUS
  <2>2. k \in Index /\ Owner(k) = t /\ e.of = t /\ table' = [table EXCEPT ![k] = e]
    BY <1>2, <2>1
  <2> QED
    BY ONLY WorldInv, <2>2, EntryGets
<1>4. Sound(t, r, {e}, "none", gc'.in_creation)
  <2>1. r.pc \in (Plain \ {"take", "exit", "created"}) \cup {"blocked"}
    BY DEF Plain
  <2> QED
    BY <1>1, <2>1, GoesOnSound DEF HeldInv
<1>5. Leaves(t, r)
  BY GoesOnLeaves
<1>6. HeldBy(r) \subseteq Live
  BY HoldsLive DEF HeldBy
<1>7. ListOf({e}) \subseteq ListOf(EntriesOf(t))
  BY <1>2 DEF ListOf
<1>8. Lives(t, r, {e})
  BY <1>3, <1>4, <1>5, <1>6, <1>7 DEF Lives, Occupied, Sweeper
<1>9. CollectorGoesOnOrBegins /\ gc'.builders = gc.builders
  BY DEF CollectorGoesOnOrBegins
<1> QED
  BY <1>8, <1>9, LifeStep

\* The entry of a thread that blocks shows what the thread holds.
LEMMA DoBlockingHeld ==
  ASSUME WorldInv, ObjectInv, HeldInv, NEW t \in Threads, CanRun(t), th[t].pc = "run",
         UNCHANGED <<stop, gc, heap, pm, menu>>,
         NEW r, th' = [th EXCEPT ![t] = r], r.pc = "blocked", r.obj = NULL,
         r.joinable = th[t].joinable, r.result = th[t].result, r.unregisters = th[t].unregisters,
         r.held \subseteq Live, r.saved = r.held, ~r.active,
         NEW stack, r.held \subseteq stack,
         table' = [table EXCEPT ![Mine(t)].stack = stack, ![Mine(t)].thread_blocked = TRUE]
  PROVE  HeldInv'
<1>1. PICK k : k = Own(t)
  OBVIOUS
<1>2. k \in Index /\ Owner(k) = t /\ Mine(t) = k /\ DOMAIN table[k] = EntryFields
  BY <1>1, KnownEntry DEF Known, Plain, WorldInv, ShapeInv, Index
<1>3. PICK e : e = [[table[k] EXCEPT !.stack = stack] EXCEPT !.thread_blocked = TRUE]
  OBVIOUS
<1>4. /\ e.of = t /\ e.flags = table[k].flags /\ e.status = table[k].status /\ e.tlfs = table[k].tlfs
      /\ e.stack = stack
  BY <1>2, <1>3 DEF EntryFields, Owner
<1>5. table' = [table EXCEPT ![k] = e]
  <2>1. PICK E : table \in Seq(E)
    BY DEF WorldInv, ShapeInv
  <2> QED
    BY <1>2, <1>3, <2>1 DEF Index
<1>6. Shows(r) \subseteq e.stack /\ {o \in r.saved : r.active} \subseteq Live
  BY <1>4 DEF Shows
<1> QED
  BY <1>1, <1>4, <1>5, <1>6, BlocksHeld

LEMMA UnblockedHeld ==
  ASSUME WorldInv, ObjectInv, HeldInv, NEW t \in Threads, In(t, "blocked"), NEW active \in BOOLEAN,
         Unblocked(t, active), UNCHANGED menu
  PROVE  HeldInv'
<1>1. CanRun(t) /\ th[t].pc = "blocked" /\ DOMAIN th[t] = ThreadFields
  BY DEF In, WorldInv, ShapeInv
<1>2. PICK k : k = Own(t)
  OBVIOUS
<1>3. k \in Index /\ Owner(k) = t /\ Mine(t) = k /\ DOMAIN table[k] = EntryFields
  BY <1>1, <1>2, KnownEntry DEF Known, Plain, WorldInv, ShapeInv, Index
<1>4. PICK e : e = [table[k] EXCEPT !.thread_blocked = FALSE]
  OBVIOUS
<1>5. /\ e.of = t /\ e.flags = table[k].flags /\ e.status = table[k].status /\ e.tlfs = table[k].tlfs
  BY <1>3, <1>4 DEF EntryFields, Owner
<1>6. table' = [table EXCEPT ![k] = e] /\ UNCHANGED <<stop, gc, heap, pm, menu>>
  BY <1>3, <1>4 DEF Unblocked
<1>7. PICK r : r = [With(t, "run") EXCEPT !.active = active]
  OBVIOUS
<1>8. /\ r.pc = "run" /\ r.obj = th[t].obj /\ r.joinable = th[t].joinable /\ r.result = th[t].result
      /\ r.unregisters = th[t].unregisters /\ r.held = th[t].held /\ r.saved = th[t].saved
  BY <1>1, <1>7 DEF With, ThreadFields
<1>9. th' = [th EXCEPT ![t] = r]
  BY <1>7 DEF Unblocked, Became
<1>10. th[t].obj = NULL /\ th[t].saved \subseteq th[t].held
  BY <1>1 DEF HeldInv, SoundInv, Sound, Decent
<1>11. r.held \subseteq Live /\ {o \in r.saved : r.active} \subseteq Live
  BY <1>8, <1>10, HoldsLive
<1> QED
  BY <1>1, <1>2, <1>5, <1>6, <1>8, <1>9, <1>10, <1>11, BlocksHeld

LEMMA BlockHeld ==
  ASSUME WorldInv, ObjectInv, HeldInv, NEW t \in Threads,
         GC_do_blocking(t) \/ EndBlocking(t) \/ GC_call_with_gc_active(t), UNCHANGED menu
  PROVE  HeldInv'
<1>1. DOMAIN th[t] = ThreadFields
  BY DEF WorldInv, ShapeInv
<1>2. CASE GC_do_blocking(t)
  <2>1. th[t].pc = "run" /\ CanRun(t) /\ ~th[t].active /\ UNCHANGED <<stop, gc, heap, pm>>
    BY <1>2 DEF GC_do_blocking, In
  <2>2. PICK r : r = [With(t, "blocked") EXCEPT !.saved = th[t].held]
    OBVIOUS
  <2>3. /\ r.pc = "blocked" /\ r.obj = th[t].obj /\ r.joinable = th[t].joinable /\ r.result = th[t].result
        /\ r.unregisters = th[t].unregisters /\ r.held = th[t].held /\ r.saved = th[t].held /\ r.active = th[t].active
    BY <1>1, <2>2 DEF With, ThreadFields
  <2>4. th' = [th EXCEPT ![t] = r]
    BY <1>2, <2>2 DEF GC_do_blocking, Became
  <2>5. r.obj = NULL /\ r.held \subseteq Live
    BY <2>1, <2>3, HoldsLive DEF HeldInv, SoundInv, Sound, Decent
  <2>6. PICK stack : stack = Stack(t)
    OBVIOUS
  <2>7. table' = [table EXCEPT ![Mine(t)].stack = stack, ![Mine(t)].thread_blocked = TRUE] /\ r.held \subseteq stack
    BY <1>2, <2>3, <2>6 DEF GC_do_blocking, Stack
  <2>8. r.saved = r.held /\ ~r.active
    BY <2>1, <2>3
  <2> QED
    BY <2>1, <2>3, <2>4, <2>5, <2>7, <2>8, DoBlockingHeld
<1>3. CASE EndBlocking(t)
  BY <1>3, UnblockedHeld DEF EndBlocking
<1>4. CASE May(t, "gc_active") /\ In(t, "blocked") /\ lock = NULL /\ Unblocked(t, TRUE)
  BY <1>4, UnblockedHeld
<1>5. CASE /\ In(t, "run") /\ th[t].active /\ lock = NULL
           /\ table' = [table EXCEPT ![Mine(t)].stack = th[t].saved, ![Mine(t)].thread_blocked = TRUE]
           /\ Became(t, [With(t, "blocked") EXCEPT !.active = FALSE, !.held = th[t].saved])
           /\ UNCHANGED <<stop, gc, mark_lock, heap, pm, lock>>
  <2>1. th[t].pc = "run" /\ CanRun(t) /\ UNCHANGED <<stop, gc, heap, pm>>
    BY <1>5 DEF In
  <2>2. PICK r : r = [With(t, "blocked") EXCEPT !.active = FALSE, !.held = th[t].saved]
    OBVIOUS
  <2>3. /\ r.pc = "blocked" /\ r.obj = th[t].obj /\ r.joinable = th[t].joinable /\ r.result = th[t].result
        /\ r.unregisters = th[t].unregisters /\ r.held = th[t].saved /\ r.saved = th[t].saved /\ ~r.active
    BY <1>1, <2>2 DEF With, ThreadFields
  <2>4. th' = [th EXCEPT ![t] = r]
    BY <1>5, <2>2 DEF Became
  <2>5. r.obj = NULL /\ r.held \subseteq Live
    BY <1>5, <2>1, <2>3, HoldsLive DEF HeldInv, SoundInv, Sound, Decent
  <2>6. PICK stack : stack = th[t].saved
    OBVIOUS
  <2>7. table' = [table EXCEPT ![Mine(t)].stack = stack, ![Mine(t)].thread_blocked = TRUE] /\ r.held \subseteq stack
    BY <1>5, <2>3, <2>6
  <2>8. r.saved = r.held
    BY <2>3
  <2> QED
    BY <2>1, <2>3, <2>4, <2>5, <2>7, <2>8, DoBlockingHeld
<1> QED
  BY <1>2, <1>3, <1>4, <1>5, Zenon DEF GC_call_with_gc_active

-----------------------------------------------------------------------------
\* Steps that only the marks and the collector are about.

\* The threads, the table and the free lists stay.
LEMMA CollectorStep ==
  ASSUME WorldInv, ObjectInv, HeldInv, UNCHANGED <<th, table, menu>>, heap'.free = heap.free, heap'.points = heap.points,
         pm'.parallel = pm.parallel, gc'.builders = gc.builders, gc'.in_creation = gc.in_creation,
         \A u \in Threads : stop'.handler[u].pc = stop.handler[u].pc,
         Unswept' \subseteq Unswept,
         \A u \in Threads : PartOf(th[u], heap'.marked) \subseteq PartOf(th[u], heap.marked),
         ~Sweeping' => Builders = {},
         gc'.phase \in {"mark", "start", "restart"} => \A u \in Threads : ListOf(EntriesOf(u)) \subseteq heap'.marked,
         gc'.phase \in {"start", "restart"} => Live \subseteq heap'.marked
  PROVE  HeldInv'
<1>1. \A u : EntriesOf(u)' = EntriesOf(u)
  BY SameEntriesOf
<1>2. SoundInv'
  <2>1. ASSUME NEW u \in Threads
        PROVE  Sound(u, th[u], EntriesOf(u), stop.handler[u].pc, gc.in_creation)'
    <3>1. PICK r, E, h, i : r = th[u] /\ E = EntriesOf(u) /\ h = stop.handler[u].pc /\ i = gc.in_creation
      OBVIOUS
    <3>2. Sound(u, r, E, h, i)
      BY <3>1 DEF HeldInv, SoundInv
    <3>3. th'[u] = r /\ EntriesOf(u)' = E /\ stop'.handler[u].pc = h /\ gc'.in_creation = i
      BY <1>1, <3>1
    <3> QED
      BY ONLY <3>2, <3>3 DEF Sound, Decent, Starting, Tells, Shows, Saved
  <2> QED
    BY <2>1 DEF SoundInv
<1>3. OtherInv'
  BY DEF HeldInv, OtherInv, Starting, Awaited, Left
<1>4. BuildInv'
  <2>1. Builders' = Builders
    BY DEF Builders
  <2> QED
    BY <2>1 DEF HeldInv, BuildInv
<1>5. AllHeld' = AllHeld
  BY DEF AllHeld, HeldBy
<1>6. Live' \subseteq Live
  <2>1. PICK new : new = {}
    OBVIOUS
  <2>2. /\ AllHeld' \subseteq Live \cup new
        /\ \A o \in Live : heap'.points[o] \subseteq heap.points[o]
        /\ \A o \in new : heap'.points[o] = {}
    BY <1>5, <2>1, LiveFacts
  <2>3. Live' \subseteq Live \cup new
    BY <2>2, LiveGrows
  <2> QED
    BY <2>1, <2>3
<1>7. \A u \in Threads : Place(u)' \subseteq Place(u)
  <2>1. ASSUME NEW u \in Threads PROVE Place(u)' \subseteq Place(u)
    <3>1. PartOf(th[u], heap.marked)' \subseteq PartOf(th[u], heap.marked)
      BY DEF PartOf
    <3> QED
      BY <1>1, <3>1 DEF Place, ListOf
  <2> QED
    BY <2>1
<1>8. OwnerInv'
  BY <1>6, <1>7 DEF HeldInv, OwnerInv
<1>9. MarkedInv'
  BY <1>1, <1>6 DEF MarkedInv, ListOf
<1> QED
  BY <1>2, <1>3, <1>4, <1>8, <1>9 DEF HeldInv

-----------------------------------------------------------------------------
\* Fork.

\* The thread that forks goes on.
LEMMA ForkGoesOn ==
  ASSUME WorldInv, ObjectInv, HeldInv, NEW t \in Threads, CanRun(t), th[t].pc \in {"run", "prepare_fork", "fork"},
         NEW pc \in {"run", "prepare_fork", "fork"}, Became(t, With(t, pc)), pc = "fork" => Builders = {},
         UNCHANGED <<table, stop, gc, heap, pm, menu>>
  PROVE  HeldInv'
<1>1. PICK r : r = With(t, pc)
  OBVIOUS
<1>2. Same(r, th[t]) /\ r.pc = pc /\ r.obj = NULL
  BY <1>1, GoesTo DEF HeldInv, SoundInv, Sound, Decent
<1>3. th' = [th EXCEPT ![t] = r]
  BY <1>1 DEF Became
<1>4. CollectorGoesOnOrBegins
  BY DEF CollectorGoesOnOrBegins
<1>5. BuildInv'
  BY <1>2, <1>3, <1>4, BuildStep DEF HeldInv, Sweeper
<1>6. PartOf(r, heap.marked) = {} /\ r.pc \in Alone /\ th[t].pc \in Alone
  BY <1>2 DEF PartOf, Alone
<1>7. EntryIs(t, table[Own(t)])
  BY EntryStays DEF Known, Plain
<1> QED
  BY <1>2, <1>3, <1>4, <1>5, <1>6, <1>7, QuietAlone

\* Nobody builds a list when a thread forks.
LEMMA NoneBuilds ==
  ASSUME BuildInv, ~pm.parallel \/ NoBuilders
  PROVE  Builders = {}
<1>1. CASE NoBuilders
  BY <1>1, FS_EmptySet DEF BuildInv, NoBuilders
<1>2. CASE ~pm.parallel
  BY <1>2 DEF BuildInv, Builders
<1> QED
  BY <1>1, <1>2

LEMMA ForkParentHeld ==
  ASSUME WorldInv, ObjectInv, HeldInv, NEW t \in Threads,
         PrepareFork(t) \/ fork_prepare_proc(t) \/ fork_parent_proc(t), UNCHANGED menu
  PROVE  HeldInv'
<1>1. CASE PrepareFork(t)
  BY <1>1, ForkGoesOn DEF PrepareFork, In
<1>2. CASE fork_prepare_proc(t)
  <2>1. th[t].pc = "prepare_fork" /\ CanRun(t) /\ UNCHANGED <<table, stop, heap, pm>>
    BY <1>2 DEF fork_prepare_proc, In
  <2>2. CASE Became(t, With(t, "fork")) /\ (~pm.parallel \/ NoBuilders)
    <3>1. UNCHANGED gc
      BY <1>2, <2>2 DEF fork_prepare_proc, WaitForReclaim
    <3> QED
      BY <2>1, <2>2, <3>1, NoneBuilds, ForkGoesOn DEF HeldInv
  <2>3. CASE WaitForReclaim(t, gc) /\ UNCHANGED th
    <3>1. gc' = gc \/ gc' = [gc EXCEPT !.asleep = @ \cup {t}]
      BY <2>3 DEF WaitForReclaim
    <3>2. gc'.phase = gc.phase /\ gc'.builders = gc.builders /\ gc'.in_creation = gc.in_creation
      BY <3>1 DEF WorldInv, ShapeInv, CollectorFields
    <3>3. Unswept' = Unswept /\ (Sweeping' <=> Sweeping)
      BY <2>1, <3>2 DEF Unswept, Sweeping, Waiting, Swept
    <3>4. ~Sweeping' => Builders = {}
      BY <3>3 DEF HeldInv, BuildInv
    <3> QED
      BY <2>1, <2>3, <3>2, <3>3, <3>4, CollectorStep DEF HeldInv, MarkedInv
  <2> QED
    BY <1>2, <2>2, <2>3 DEF fork_prepare_proc
<1>3. CASE fork_parent_proc(t)
  BY <1>3, ForkGoesOn DEF fork_parent_proc, In
<1> QED
  BY <1>1, <1>2, <1>3

\* In the child there is one thread, with its list; the lists of the others are
\* given back.
LEMMA ForkChildHeld ==
  ASSUME WorldInv, ObjectInv, HeldInv, NEW t \in Threads, fork_child_proc(t), UNCHANGED menu
  PROVE  HeldInv'
<1>1. /\ th[t].pc = "fork" /\ CanRun(t) /\ UNCHANGED gc
      /\ table' = GC_remove_all_threads_but_me(table, th[t].id)
      /\ th' = [u \in Threads |-> IF u = t THEN With(t, "run") ELSE Thread("gone", u)]
      /\ stop' = [stop EXCEPT !.pending = [u \in Threads |-> {}], !.handler = [u \in Threads |-> Outside]]
  BY DEF fork_child_proc, In
<1>2. KeepsId(t) /\ lock = t /\ Known(t) /\ gc.phase = "none"
  <2>1. May(t, "fork") /\ lock = t
    BY <1>1 DEF WorldInv, IdInv, LockInv, Locking
  <2>2. gc.phase = "none"
    BY <1>1, <2>1, NobodyCollects DEF WorldInv
  <2> QED
    BY <1>1, <2>1, <2>2 DEF Known, Plain, KeepsId
<1>3. PICK k \in Index : Owner(k) = t /\ table' = <<table[k]>>
  <2>1. PICK E : table \in Seq(E)
    BY DEF WorldInv, ShapeInv
  <2>2. PICK j \in Index : Owner(j) = t /\ table[j].id = th[t].id
    BY <1>2 DEF WorldInv, TableInv
  <2>3. PICK id, k : id = th[t].id /\ k = GC_lookup_thread_Oldest(table, id)
    OBVIOUS
  <2>4. k \in Index /\ table[k].id = id
    BY <2>1, <2>2, <2>3, FoundLast DEF Index
  <2>5. Owner(k) = t
    BY <1>2, <2>3, <2>4, KnownIsAlive DEF WorldInv, IdInv
  <2>6. table' = <<table[k]>>
    BY <1>1, <2>3 DEF GC_remove_all_threads_but_me, GC_lookup_thread_Oldest
  <2> QED
    BY <2>4, <2>5, <2>6
<1>4. PICK e : e = table[k] /\ e = table[Own(t)] /\ EntriesOf(t) = {e} /\ e.of = t
  <2>1. k = Own(t)
    BY <1>2, <1>3, KnownEntry DEF WorldInv, TableInv
  <2> QED
    BY <1>2, <1>3, <2>1, KnownEntry DEF Owner
<1>5. EntriesOf(t)' = {e} /\ \A u \in Threads \ {t} : EntriesOf(u)' = {}
  <2>1. Index' = {1} /\ Owner(1)' = t /\ table'[1] = e
    BY <1>3, <1>4 DEF Index, Owner
  <2> QED
    BY <2>1 DEF EntriesOf
<1>6. PICK r : r = With(t, "run")
  OBVIOUS
<1>7. Same(r, th[t]) /\ r.pc = "run" /\ r.obj = NULL
  BY <1>1, <1>6, GoesTo DEF HeldInv, SoundInv, Sound, Decent
<1>8. th'[t] = r /\ \A u \in Threads \ {t} : th'[u] = Thread("gone", u)
  BY <1>1, <1>6
<1>9. ASSUME NEW u PROVE /\ Thread("gone", u).pc = "gone" /\ Thread("gone", u).held = {} /\ Thread("gone", u).obj = NULL
                         /\ ~Thread("gone", u).active /\ Thread("gone", u).result = NULL
  BY DEF Thread
<1>10. SoundInv'
  <2>1. CollectorGoesOnOrBegins
    BY <1>1 DEF CollectorGoesOnOrBegins
  <2>2. ASSUME NEW u \in Threads
        PROVE  Sound(u, th[u], EntriesOf(u), stop.handler[u].pc, gc.in_creation)'
    <3>1. stop'.handler[u].pc = "none"
      BY <1>1 DEF WorldInv, ShapeInv, StopFields, Outside, Handler
    <3>2. CASE u = t
      <4>1. r.pc \in (Plain \ {"take", "exit", "created"}) \cup {"blocked"} /\ r.pc # "blocked"
        BY <1>7 DEF Plain
      <4>2. Sound(t, r, {e}, "none", gc.in_creation)
        BY <1>1, <1>2, <1>4, <1>7, <4>1, GoesOnSound DEF HeldInv, Same
      <4> QED
        BY <1>1, <1>5, <1>8, <3>1, <3>2, <4>2 DEF Sound, Decent, Starting, Tells, Shows, Saved
    <3>3. CASE u # t
      <4>1. PICK q : q = Thread("gone", u)
        OBVIOUS
      <4>2. q.pc = "gone" /\ q.held = {} /\ q.obj = NULL /\ ~q.active /\ q.result = NULL
        BY <1>9, <4>1
      <4>3. Sound(u, q, {}, "none", gc.in_creation)
        BY <4>2 DEF Sound, Decent
      <4> QED
        BY <1>1, <1>5, <1>8, <3>1, <3>3, <4>1, <4>3 DEF Sound, Decent, Starting, Tells, Shows, Saved
    <3> QED
      BY <3>2, <3>3
  <2>3. PICK S \in SUBSET Threads : S = Threads
    OBVIOUS
  <2>4. \A u \in S : Sound(u, th[u], EntriesOf(u), stop.handler[u].pc, gc.in_creation)'
    BY <2>2
  <2> QED
    BY <2>1, <2>3, <2>4, SoundStep DEF HeldInv
<1>11. \A u \in Threads : th'[u].pc \in {"run", "gone"}
  BY <1>7, <1>8, <1>9
<1>12. OtherInv'
  BY <1>11 DEF OtherInv, Starting
<1>13. BuildInv'
  <2>1. Builders = {} /\ Builders' = {}
    BY <1>1, <1>11 DEF HeldInv, BuildInv, Builders, Sweeper
  <2> QED
    BY <1>1, <1>11, <2>1 DEF HeldInv, BuildInv, Sweeper
<1>14. PICK dead : dead = {j \in Unfinished(table) : table[j].id # th[t].id}
  OBVIOUS
<1>15. /\ heap'.free = heap.free \cup UNION {table[j].tlfs.list : j \in dead}
       /\ heap'.points = heap.points /\ heap'.marked = heap.marked /\ heap'.reclaimable = heap.reclaimable
  BY <1>14 DEF fork_child_proc, ObjectInv, HeapInv, HeapFields
<1>16. ASSUME NEW o \in heap'.free, o \notin heap.free
       PROVE  \E u \in Threads \ {t} : o \in Place(u)
  <2>1. PICK j \in dead : o \in table[j].tlfs.list
    BY <1>15, <1>16
  <2>2. j \in Index /\ Owner(j) \in Threads \ {t}
    BY <1>14 DEF Unfinished, Index, WorldInv, TableInv
  <2>3. table[j] \in EntriesOf(Owner(j))
    BY <2>2 DEF EntriesOf
  <2> QED
    BY <2>1, <2>2, <2>3 DEF Place, ListOf
<1>17. Unswept' = Unswept
  BY <1>1, <1>15 DEF Unswept, Sweeping, Waiting, Swept
<1>18. Place(t)' \subseteq Place(t) /\ \A u \in Threads \ {t} : Place(u)' = {}
  BY <1>4, <1>5, <1>11 DEF Place, ListOf, PartOf
<1>19. AllHeld' \subseteq Live
  <2>1. HeldBy(r) \subseteq Live
    BY <1>7, HoldsLive DEF HeldBy, Same
  <2>2. ASSUME NEW u \in Threads PROVE HeldBy(th[u])' \subseteq Live
    <3>1. CASE u = t
      BY <1>8, <2>1, <3>1 DEF HeldBy
    <3>2. CASE u # t
      BY <1>8, <1>9, <3>2 DEF HeldBy
    <3> QED
      BY <3>1, <3>2
  <2> QED
    BY <2>2 DEF AllHeld
<1>20. Live' \subseteq Live
  <2>1. PICK new : new = {}
    OBVIOUS
  <2>2. /\ AllHeld' \subseteq Live \cup new
        /\ \A o \in Live : heap'.points[o] \subseteq heap.points[o]
        /\ \A o \in new : heap'.points[o] = {}
    BY <1>15, <1>19, <2>1
  <2>3. Live' \subseteq Live \cup new
    BY <2>2, LiveGrows
  <2> QED
    BY <2>1, <2>3
<1>21. OwnerInv'
  <2>1. /\ Unswept \cap Live = {} /\ Place(t) \cap Unswept = {} /\ Place(t) \cap Live = {}
        /\ heap.free \cap Unswept = {} /\ heap.free \cap Live = {} /\ Place(t) \cap heap.free = {}
    BY DEF HeldInv, OwnerInv
  <2>2. \A u \in Threads \ {t} : Place(u) \cap Unswept = {} /\ Place(u) \cap Live = {} /\ Place(u) \cap Place(t) = {}
    BY DEF HeldInv, OwnerInv
  <2>3. heap'.free \cap Unswept = {} /\ heap'.free \cap Live = {} /\ heap'.free \cap Place(t) = {}
    BY <1>16, <2>1, <2>2
  <2>4. /\ heap'.free \cap Unswept' = {} /\ heap'.free \cap Live' = {} /\ Unswept' \cap Live' = {}
        /\ Place(t)' \cap heap'.free = {} /\ Place(t)' \cap Unswept' = {} /\ Place(t)' \cap Live' = {}
    BY <1>17, <1>18, <1>20, <2>1, <2>3
  <2>5. \A u \in Threads : Place(u)' \cap heap'.free = {} /\ Place(u)' \cap Unswept' = {} /\ Place(u)' \cap Live' = {}
    BY <1>18, <2>4
  <2>6. \A u, v \in Threads : u # v => Place(u)' \cap Place(v)' = {}
    BY <1>18
  <2> QED
    BY <2>4, <2>5, <2>6 DEF OwnerInv
<1>22. MarkedInv'
  BY <1>1, <1>2 DEF MarkedInv
<1> QED
  BY <1>10, <1>12, <1>13, <1>21, <1>22 DEF HeldInv

-----------------------------------------------------------------------------
\* Signals.

\* Only what thread t does in its handler changes, and its entry.
LEMMA HandlerStep ==
  ASSUME WorldInv, ObjectInv, HeldInv, UNCHANGED <<th, gc, heap, pm, menu>>, NEW t \in Threads,
         \A u \in Threads \ {t} :
           EntriesOf(u)' = EntriesOf(u) /\ stop'.handler[u].pc = stop.handler[u].pc,
         ListOf(EntriesOf(t))' \subseteq ListOf(EntriesOf(t)),
         Sound(t, th[t], EntriesOf(t), stop.handler[t].pc, gc.in_creation)'
  PROVE  HeldInv'
<1>1. SoundInv'
  <2>1. CollectorGoesOnOrBegins
    BY DEF CollectorGoesOnOrBegins
  <2>2. PICK S \in SUBSET Threads : S = {t}
    OBVIOUS
  <2>3. \A u \in Threads \ S :
          th'[u] = th[u] /\ EntriesOf(u)' = EntriesOf(u) /\ stop'.handler[u].pc = stop.handler[u].pc
    BY <2>2
  <2>4. \A u \in S : Sound(u, th[u], EntriesOf(u), stop.handler[u].pc, gc.in_creation)'
    BY <2>2
  <2> QED
    BY <2>1, <2>3, <2>4, SoundStep DEF HeldInv
<1>2. OtherInv'
  BY DEF HeldInv, OtherInv, Starting, Awaited, Left
<1>3. BuildInv'
  <2>1. Builders' = Builders /\ (Sweeping' <=> Sweeping)
    BY DEF Builders, Sweeping
  <2> QED
    BY <2>1 DEF HeldInv, BuildInv
<1>4. Live' = Live /\ Unswept' = Unswept
  <2>1. PICK points, from : points = heap.points /\ from = AllHeld
    OBVIOUS
  <2>2. AllHeld' = from /\ heap'.points = points
    BY <2>1 DEF AllHeld, HeldBy
  <2>3. Live' = Reached(points, from)
    <3>1. Live' = Reached(points, from)'
      BY <2>2 DEF Live, Reached, Objects
    <3> QED
      BY <3>1, ReachedStays
  <2> QED
    BY <2>1, <2>3 DEF Live, Unswept, Sweeping, Waiting, Swept
<1>5. \A u \in Threads : ListOf(EntriesOf(u))' \subseteq ListOf(EntriesOf(u))
  BY DEF ListOf
<1>6. \A u \in Threads : Place(u)' \subseteq Place(u)
  BY <1>5 DEF Place, PartOf
<1>7. OwnerInv'
  BY <1>4, <1>6 DEF HeldInv, OwnerInv
<1>8. MarkedInv'
  BY <1>4, <1>5 DEF HeldInv, MarkedInv
<1> QED
  BY <1>1, <1>2, <1>3, <1>7, <1>8 DEF HeldInv

\* The handler of thread t goes on and the table stays.
LEMMA HandlerMoves ==
  ASSUME WorldInv, ObjectInv, HeldInv, UNCHANGED <<th, table, gc, heap, pm, menu>>, NEW t \in Threads,
         \A u \in Threads \ {t} : stop'.handler[u].pc = stop.handler[u].pc,
         stop'.handler[t].pc \in Saved => stop.handler[t].pc \in Saved
  PROVE  HeldInv'
<1>1. \A u : EntriesOf(u)' = EntriesOf(u)
  BY SameEntriesOf
<1>2. PICK r, E, h, j, i :
        r = th[t] /\ E = EntriesOf(t) /\ h = stop.handler[t].pc /\ j = stop'.handler[t].pc /\ i = gc.in_creation
  OBVIOUS
<1>3. Sound(t, r, E, h, i)
  BY <1>2 DEF HeldInv, SoundInv
<1>4. Sound(t, r, E, j, i)
  BY <1>2, <1>3 DEF Sound, Tells
<1>5. th'[t] = r /\ EntriesOf(t)' = E /\ gc'.in_creation = i
  BY <1>1, <1>2
<1>6. Sound(t, th[t], EntriesOf(t), stop.handler[t].pc, gc.in_creation)'
  BY ONLY <1>2, <1>4, <1>5 DEF Sound, Decent, Starting, Tells, Shows, Saved
<1>7. ListOf(EntriesOf(t))' \subseteq ListOf(EntriesOf(t))
  BY <1>1 DEF ListOf
<1> QED
  BY <1>1, <1>6, <1>7, HandlerStep

\* The handler of thread t writes to the entry.
LEMMA HandlerWrites ==
  ASSUME WorldInv, ObjectInv, HeldInv, UNCHANGED <<th, gc, heap, pm, menu>>, NEW t \in Threads, Known(t),
         \A u \in Threads \ {t} : stop'.handler[u].pc = stop.handler[u].pc,
         NEW e, table' = [table EXCEPT ![Own(t)] = e], e.of = t, e.flags = table[Own(t)].flags,
         e.status = table[Own(t)].status, e.tlfs = table[Own(t)].tlfs,
         e.stack = Shows(th[t]) \/ (e.stack = table[Own(t)].stack /\ stop.handler[t].pc \in Saved)
  PROVE  HeldInv'
<1>1. PICK k : k = Own(t)
  OBVIOUS
<1>2. k \in Index /\ Owner(k) = t /\ EntriesOf(t) = {table[k]}
  BY <1>1, KnownEntry
<1>3. EntriesOf(t)' = {e} /\ \A u : u # t => EntriesOf(u)' = EntriesOf(u)
  <2>1. table' = [table EXCEPT ![k] = e]
    BY <1>1
  <2> QED
    BY ONLY WorldInv, e.of = t, <1>2, <2>1, EntryGets
<1>4. PICK r, h, j, i : r = th[t] /\ h = stop.handler[t].pc /\ j = stop'.handler[t].pc /\ i = gc.in_creation
  OBVIOUS
<1>5. Sound(t, r, {table[k]}, h, i)
  BY <1>2, <1>4 DEF HeldInv, SoundInv
<1>6. Shows(r) \subseteq e.stack
  BY <1>1, <1>4, <1>5 DEF Sound, Tells
<1>7. Tells(t, r, e, j)
  BY <1>1, <1>5, <1>6 DEF Sound, Tells
<1>8. Sound(t, r, {e}, j, i)
  BY <1>5, <1>7 DEF Sound
<1>9. th'[t] = r /\ gc'.in_creation = i
  BY <1>4
<1>10. Sound(t, th[t], EntriesOf(t), stop.handler[t].pc, gc.in_creation)'
  BY ONLY <1>3, <1>4, <1>8, <1>9 DEF Sound, Decent, Starting, Tells, Shows, Saved
<1>11. ListOf(EntriesOf(t))' \subseteq ListOf(EntriesOf(t))
  BY <1>1, <1>2, <1>3 DEF ListOf
<1> QED
  BY <1>3, <1>10, <1>11, HandlerStep

LEMMA SignalHeld ==
  ASSUME WorldInv, ObjectInv, HeldInv, NEW t \in Threads, Signal(t) \/ UserSignal(t), UNCHANGED menu
  PROVE  HeldInv'
<1>1. UNCHANGED <<th, gc, heap, pm>>
  BY Zenon DEF Signal, UserSignal
<1>2. /\ DOMAIN stop = StopFields /\ DOMAIN stop.handler = Threads /\ DOMAIN stop.handler[t] = HandlerFields
  BY DEF WorldInv, ShapeInv
<1>3. CASE /\ UNCHANGED table
           /\ \A u \in Threads \ {t} : stop'.handler[u].pc = stop.handler[u].pc
           /\ stop'.handler[t].pc \in Saved => stop.handler[t].pc \in Saved
  BY <1>1, <1>3, HandlerMoves
<1>4. CASE EnterHandler(t)
  <2>1. stop'.handler[t].pc = "entered" /\ \A u \in Threads \ {t} : stop'.handler[u].pc = stop.handler[u].pc
    BY <1>2, <1>4 DEF EnterHandler, Handler, StopFields
  <2> QED
    BY <1>3, <1>4, <2>1 DEF EnterHandler, Saved
<1>5. CASE Restarted(t) \/ Disturbed(t)
  <2>1. stop.handler[t].pc = "waiting" /\ UNCHANGED table
    BY <1>5 DEF Restarted, Disturbed, InHandler
  <2>2. \A u \in Threads \ {t} : stop'.handler[u].pc = stop.handler[u].pc
    BY <1>2, <1>5 DEF Restarted, Disturbed, StopFields
  <2> QED
    BY <1>3, <2>1, <2>2 DEF Saved
<1>6. CASE Woken(t)
  <2>1. stop.handler[t].pc = "woken" /\ UNCHANGED table
    BY <1>6 DEF Woken, InHandler
  <2>2. \A u \in Threads \ {t} : stop'.handler[u].pc = stop.handler[u].pc
    BY <1>2, <1>6 DEF Woken, StopFields
  <2> QED
    BY <1>3, <2>1, <2>2 DEF Saved
<1>7. CASE GC_restart_handler(t)
  <2>1. UNCHANGED table /\ stop'.handler = stop.handler
    BY <1>2, <1>7 DEF GC_restart_handler, StopFields
  <2> QED
    BY <1>3, <2>1
<1>8. ASSUME stop.handler[t].pc # "none"
      PROVE  /\ Known(t) /\ Own(t) \in Index /\ Owner(Own(t)) = t /\ Mine(t) = Own(t)
             /\ DOMAIN table[Own(t)] = EntryFields
  BY <1>8, KnownEntry DEF WorldInv, ShapeInv, SignalInv, Index
<1>9. CASE Answer(t)
  <2>1. PICK k, my : k = Own(t) /\ my = stop.handler[t].my_stop_count
    OBVIOUS
  <2>2. stop.handler[t].pc = "entered" /\ Mine(t) = k /\ Known(t) /\ k \in Index /\ Owner(k) = t /\ DOMAIN table[k] = EntryFields
    BY <1>8, <1>9, <2>1 DEF Answer, InHandler
  <2>3. CASE table[k].last_stop_count = my
    <3>1. stop' = [stop EXCEPT !.handler[t] = Outside] /\ UNCHANGED table
      BY <1>9, <2>1, <2>2, <2>3 DEF Answer
    <3>2. stop'.handler[t].pc = "none" /\ \A u \in Threads \ {t} : stop'.handler[u].pc = stop.handler[u].pc
      BY <1>2, <3>1 DEF StopFields, Outside, Handler
    <3> QED
      BY <1>3, <3>1, <3>2 DEF Saved
  <2>4. CASE table[k].last_stop_count # my
    <3>1. /\ table' = [table EXCEPT ![k].stack = Stack(t)]
          /\ stop' = [stop EXCEPT !.acks = @ + 1, !.handler[t].pc = "answered"]
      BY <1>9, <2>1, <2>2, <2>4 DEF Answer
    <3>2. \A u \in Threads \ {t} : stop'.handler[u].pc = stop.handler[u].pc
      BY <1>2, <3>1 DEF StopFields
    <3>3. PICK stack : stack = Stack(t)
      OBVIOUS
    <3>4. PICK e : e = [table[k] EXCEPT !.stack = stack]
      OBVIOUS
    <3>5. /\ e.of = t /\ e.flags = table[k].flags /\ e.status = table[k].status /\ e.tlfs = table[k].tlfs
          /\ e.stack = stack
      BY <2>2, <3>4 DEF EntryFields, Owner
    <3>6. table' = [table EXCEPT ![k] = e]
      BY <3>1, <3>3, <3>4
    <3>7. e.stack = Shows(th[t])
      BY <3>3, <3>5 DEF Stack, Shows
    <3> QED
      BY <1>1, <2>1, <2>2, <3>2, <3>5, <3>6, <3>7, HandlerWrites
  <2> QED
    BY <2>3, <2>4
<1>10. CASE NoteStop(t)
  <2>1. PICK k, my : k = Own(t) /\ my = stop.handler[t].my_stop_count
    OBVIOUS
  <2>2. stop.handler[t].pc = "answered" /\ Mine(t) = k /\ Known(t) /\ k \in Index /\ Owner(k) = t /\ DOMAIN table[k] = EntryFields
    BY <1>8, <1>10, <2>1 DEF NoteStop, InHandler
  <2>3. /\ table' = [table EXCEPT ![k].last_stop_count = my]
        /\ stop' = [stop EXCEPT !.handler[t].pc = "waiting"]
    BY <1>10, <2>1, <2>2 DEF NoteStop
  <2>4. \A u \in Threads \ {t} : stop'.handler[u].pc = stop.handler[u].pc
    BY <1>2, <2>3 DEF StopFields
  <2>5. PICK e : e = [table[k] EXCEPT !.last_stop_count = my]
    OBVIOUS
  <2>6. /\ e.of = t /\ e.flags = table[k].flags /\ e.status = table[k].status /\ e.tlfs = table[k].tlfs
        /\ e.stack = table[k].stack
    BY <2>2, <2>5 DEF EntryFields, Owner
  <2>7. table' = [table EXCEPT ![k] = e]
    BY <2>3, <2>5
  <2>8. stop.handler[t].pc \in Saved
    BY <2>2 DEF Saved
  <2> QED
    BY <1>1, <2>1, <2>2, <2>4, <2>6, <2>7, <2>8, HandlerWrites
<1> QED
  BY <1>4, <1>5, <1>6, <1>7, <1>9, <1>10 DEF Signal, UserSignal, GC_suspend_handler

-----------------------------------------------------------------------------
\* The markers.

\* What the markers share has its fields, and says whether there are helpers.
Sharing(p) == DOMAIN p = SharedFields /\ p.parallel = pm.parallel

LEMMA SetStays ==
  ASSUME Sharing(pm), NEW i, NEW r
  PROVE  Sharing(Set(i, r))
BY DEF Set, Sharing, SharedFields

LEMMA GotoStays ==
  ASSUME NEW p, Sharing(p), NEW i, NEW pc
  PROVE  Sharing(Goto(p, i, pc))
BY DEF Goto, Sharing, SharedFields

LEMMA WaitStays ==
  ASSUME NEW p, Sharing(p), NEW i, NEW pc
  PROVE  Sharing(GC_wait_marker(p, i, pc))
BY DEF GC_wait_marker, Sharing, SharedFields

LEMMA NotifyStays ==
  ASSUME NEW p, Sharing(p)
  PROVE  Sharing(GC_notify_all_marker(p))
BY DEF GC_notify_all_marker, Sharing, SharedFields

LEMMA IdleStays ==
  ASSUME NEW p, Sharing(p), NEW i
  PROVE  Sharing(Idle(p, i))
<1>1. CASE p.active_count > 0 /\ NothingLeft(p)
  BY <1>1, WaitStays DEF Idle
<1>2. CASE ~(p.active_count > 0 /\ NothingLeft(p)) /\ p.active_count = 0 /\ NothingLeft(p)
  <2>1. PICK h : h = [p EXCEPT !.helper_count = @ - 1]
    OBVIOUS
  <2>2. Sharing(h)
    BY <2>1 DEF Sharing, SharedFields
  <2>3. PICK q : q = Goto(h, i, "done")
    OBVIOUS
  <2>4. Sharing(q) /\ Sharing(GC_notify_all_marker(q))
    BY <2>2, <2>3, GotoStays, NotifyStays
  <2>5. Idle(p, i) = IF q.helper_count = 0 THEN GC_notify_all_marker(q) ELSE q
    BY <1>2, <2>1, <2>3 DEF Idle
  <2> QED
    BY <2>4, <2>5
<1>3. CASE ~(p.active_count > 0 /\ NothingLeft(p)) /\ ~(p.active_count = 0 /\ NothingLeft(p))
  <2>1. PICK h : h = [p EXCEPT !.active_count = @ + 1]
    OBVIOUS
  <2>2. Sharing(h)
    BY <2>1 DEF Sharing, SharedFields
  <2>3. Idle(p, i) = Goto(h, i, "look")
    BY <1>3, <2>1 DEF Idle
  <2> QED
    BY <2>2, <2>3, GotoStays
<1> QED
  BY <1>1, <1>2, <1>3

LEMMA FilledStays ==
  ASSUME NEW p, Sharing(p), NEW entries
  PROVE  Sharing(Filled(p, entries))
<1>1. PICK q, w : q = [p EXCEPT !.stack = <<>>, !.invalid = TRUE] /\ w = [p EXCEPT !.stack = SetToSeq(entries), !.invalid = FALSE]
  OBVIOUS
<1>2. Sharing(q) /\ Sharing(w)
  BY <1>1 DEF Sharing, SharedFields
<1>3. Filled(p, entries) \in {Goto(q, COLLECTOR, "marked"), Goto(w, COLLECTOR, "begin")}
  BY <1>1 DEF Filled
<1> QED
  BY <1>2, <1>3, GotoStays

\* A marker does not change whether there are helpers.
LEMMA ParallelStays ==
  ASSUME MarkerShape, NEW i, MarkerStep(i)
  PROVE  pm'.parallel = pm.parallel
<1>1. Sharing(pm)
  BY DEF Sharing, MarkerShape
<1>2. SUFFICES Sharing(pm')
  BY DEF Sharing
<1>3. CASE LookAtFirst(i)
  BY <1>1, <1>3, SetStays DEF LookAtFirst
<1>4. CASE LookAtTop(i)
  BY <1>1, <1>4, SetStays DEF LookAtTop
<1>5. CASE ReadEntry(i)
  BY <1>1, <1>5, SetStays DEF ReadEntry
<1>6. CASE Scan(i)
  BY <1>1, <1>6, SetStays DEF Scan
<1>7. CASE Push(i)
  BY <1>1, <1>7, SetStays DEF Push
<1>8. CASE GC_mark_thread(i)
  BY <1>1, <1>8, SetStays DEF GC_mark_thread
<1>9. CASE Join(i)
  <2>1. PICK r : r = [pm.m[i] EXCEPT !.pc = "look", !.first = pm.first_nonempty]
    OBVIOUS
  <2>2. PICK q : q = Set(i, r)
    OBVIOUS
  <2>3. pm' = [q EXCEPT !.active_count = @ + 1]
    BY <1>9, <2>1, <2>2 DEF Join
  <2> QED
    BY <1>1, <2>2, <2>3, SetStays DEF Sharing, SharedFields
<1>10. CASE ClearEntry(i)
  <2>1. PICK r : r = [pm.m[i] EXCEPT !.pc = "steal", !.first = @ + 1, !.got = @ + 1,
                                     !.local = Append(@, pm.m[i].entry), !.entry = TAKEN]
    OBVIOUS
  <2>2. PICK q : q = Set(i, r)
    OBVIOUS
  <2>3. pm' = [q EXCEPT !.stack[pm.m[i].first] = TAKEN]
    BY <1>10, <2>1, <2>2 DEF ClearEntry
  <2> QED
    BY <1>1, <2>2, <2>3, SetStays DEF Sharing, SharedFields
<1>11. CASE RaiseFirst(i)
  <2>1. PICK q : q = [pm EXCEPT !.first_nonempty = IF @ = pm.m[i].global THEN pm.m[i].first ELSE @]
    OBVIOUS
  <2>2. pm' = Goto(q, i, "look_at_top")
    BY <1>11, <2>1 DEF RaiseFirst
  <2>3. Sharing(q)
    BY <1>1, <2>1 DEF Sharing, SharedFields
  <2> QED
    BY <2>2, <2>3, GotoStays
<1>12. CASE WakeUp(i)
  BY <1>1, <1>12, IdleStays DEF WakeUp
<1>13. CASE BecomeIdle(i)
  <2>1. CASE Len(pm.stack) >= pm.m[i].first
    BY <1>1, <1>13, <2>1, SetStays DEF BecomeIdle
  <2>2. CASE ~(Len(pm.stack) >= pm.m[i].first)
    <3>1. PICK p : p = [pm EXCEPT !.active_count = @ - 1]
      OBVIOUS
    <3>2. PICK q : q = IF p.active_count = 0 THEN GC_notify_all_marker(p) ELSE p
      OBVIOUS
    <3>3. pm' = Idle(q, i)
      BY <1>13, <2>2, <3>1, <3>2 DEF BecomeIdle
    <3>4. Sharing(p)
      BY <1>1, <3>1 DEF Sharing, SharedFields
    <3>5. Sharing(q)
      BY <3>2, <3>4, NotifyStays
    <3> QED
      BY <3>3, <3>5, IdleStays
  <2> QED
    BY <2>1, <2>2
<1>14. CASE GC_return_mark_stack(i)
  <2> DEFINE n == IF At(i, "return_all") THEN Len(pm.m[i].local) ELSE (Len(pm.m[i].local) - 1) \div 2
             left == SubSeq(pm.m[i].local, n + 1, Len(pm.m[i].local))
  <2>1. PICK r : r = [pm.m[i] EXCEPT !.local = left, !.pc = IF left = <<>> THEN "look" ELSE "mark"]
    <3> HIDE DEF left
    <3> QED OBVIOUS
  <2>2. PICK q : q = Set(i, r)
    OBVIOUS
  <2>3. PICK entries : entries = SubSeq(pm.m[i].local, 1, n)
    OBVIOUS
  <2>4. PICK w : w = WithReturned(q, entries)
    OBVIOUS
  <2>5. pm' = GC_notify_all_marker(w)
    BY <1>14, <2>1, <2>2, <2>3, <2>4, Zenon DEF GC_return_mark_stack
  <2>6. Sharing(q)
    BY <1>1, <2>2, SetStays
  <2>7. Sharing(w)
    BY <2>4, <2>6 DEF WithReturned, Sharing, SharedFields
  <2> QED
    BY <2>5, <2>7, NotifyStays
<1>15. CASE BeginParallelMark
  <2>1. PICK q : q = [pm EXCEPT !.first_nonempty = 1, !.active_count = 0, !.helper_count = 1, !.help_wanted = TRUE]
    OBVIOUS
  <2>2. PICK w : w = Goto(q, COLLECTOR, "join")
    OBVIOUS
  <2>3. pm' = GC_notify_all_marker(w)
    BY <1>15, <2>1, <2>2 DEF BeginParallelMark
  <2>4. Sharing(q)
    BY <1>1, <2>1 DEF Sharing, SharedFields
  <2> QED
    BY <2>2, <2>3, <2>4, GotoStays, NotifyStays
<1>16. CASE EndParallelMark
  <2>1. PICK p : p = [pm EXCEPT !.help_wanted = FALSE]
    OBVIOUS
  <2>2. Sharing(p)
    BY <1>1, <2>1 DEF Sharing, SharedFields
  <2>3. CASE p.helper_count > 0
    BY <1>16, <2>1, <2>2, <2>3, WaitStays DEF EndParallelMark
  <2>4. CASE ~(p.helper_count > 0)
    <3>1. PICK q : q = [p EXCEPT !.mark_no = @ + 1]
      OBVIOUS
    <3>2. PICK w : w = Goto(q, COLLECTOR, "marked")
      OBVIOUS
    <3>3. pm' = GC_notify_all_marker(w)
      BY <1>16, <2>1, <2>4, <3>1, <3>2 DEF EndParallelMark
    <3>4. Sharing(q)
      BY <2>2, <3>1 DEF Sharing, SharedFields
    <3> QED
      BY <3>2, <3>3, <3>4, GotoStays, NotifyStays
  <2> QED
    BY <2>3, <2>4
<1>17. CASE GC_help_marker(i)
  <2>1. CASE pm.mark_no < pm.m[i].mark_no \/ (~pm.help_wanted /\ pm.mark_no = pm.m[i].mark_no)
    BY <1>1, <1>17, <2>1, WaitStays DEF GC_help_marker
  <2>2. CASE /\ ~(pm.mark_no < pm.m[i].mark_no \/ (~pm.help_wanted /\ pm.mark_no = pm.m[i].mark_no))
             /\ pm.mark_no # pm.m[i].mark_no \/ pm.helper_count > pm.markers_m1
    BY <1>1, <1>17, <2>2, SetStays DEF GC_help_marker
  <2>3. CASE /\ ~(pm.mark_no < pm.m[i].mark_no \/ (~pm.help_wanted /\ pm.mark_no = pm.m[i].mark_no))
             /\ ~(pm.mark_no # pm.m[i].mark_no \/ pm.helper_count > pm.markers_m1)
    <3>1. PICK q : q = [pm EXCEPT !.helper_count = @ + 1]
      OBVIOUS
    <3>2. pm' = Goto(q, i, "join")
      BY <1>17, <2>3, <3>1 DEF GC_help_marker
    <3>3. Sharing(q)
      BY <1>1, <3>1 DEF Sharing, SharedFields
    <3> QED
      BY <3>2, <3>3, GotoStays
  <2> QED
    BY <2>1, <2>2, <2>3
<1> QED
  BY <1>3, <1>4, <1>5, <1>6, <1>7, <1>8, <1>9, <1>10, <1>11, <1>12, <1>13, <1>14, <1>15, <1>16, <1>17
     DEF MarkerStep, GC_mark_local

\* What the markers mark only makes fewer objects garbage.
LEMMA MarkingHeld ==
  ASSUME WorldInv, ObjectInv, MarkersInv, HeldInv, NEW i \in Markers, Marking(i), UNCHANGED menu
  PROVE  HeldInv'
<1>1. UNCHANGED <<th, table, stop, gc>> /\ MarkerStep(i)
  BY DEF Marking
<1>2. pm'.parallel = pm.parallel
  BY <1>1, ParallelStays DEF MarkersInv
<1>3. /\ heap'.free = heap.free /\ heap'.points = heap.points /\ heap'.reclaimable = heap.reclaimable
      /\ heap.marked \subseteq heap'.marked
  <2>1. CASE Push(i)
    BY <2>1 DEF Push, ObjectInv, HeapInv, HeapFields
  <2>2. CASE ~Push(i)
    BY <1>1, <2>2, Zenon
       DEF MarkerStep, GC_mark_local, Join, LookAtFirst, RaiseFirst, LookAtTop, BecomeIdle, WakeUp, ReadEntry, ClearEntry,
           Scan, GC_return_mark_stack, BeginParallelMark, EndParallelMark, GC_help_marker, GC_mark_thread
  <2> QED
    BY <2>1, <2>2
<1>4. Unswept' \subseteq Unswept
  BY <1>1, <1>3 DEF Unswept, Sweeping, Waiting, Swept
<1>5. \A u \in Threads : PartOf(th[u], heap'.marked) \subseteq PartOf(th[u], heap.marked)
  BY <1>3 DEF PartOf
<1>6. /\ ~Sweeping' => Builders = {}
      /\ gc'.phase \in {"mark", "start", "restart"} => \A u \in Threads : ListOf(EntriesOf(u)) \subseteq heap'.marked
      /\ gc'.phase \in {"start", "restart"} => Live \subseteq heap'.marked
  BY <1>1, <1>3 DEF HeldInv, BuildInv, MarkedInv, Sweeping
<1> QED
  BY <1>1, <1>2, <1>3, <1>4, <1>5, <1>6, CollectorStep

-----------------------------------------------------------------------------
\* The collector.

\* What a known thread has on its stack is found, whether it is the collector,
\* blocked or in its handler.
LEMMA StackIsFound ==
  ASSUME WorldInv, SoundInv, gc.phase # "none", \A k \in Others : Answered(Owner(k)), NEW t \in Threads, Known(t)
  PROVE  Shows(th[t]) \subseteq Roots
<1>1. gc.by \in Threads /\ th[gc.by].pc = "collect"
  BY DEF WorldInv, LockInv
<1>2. PICK k \in Index : k = Own(t) /\ Owner(k) = t /\ EntriesOf(t) = {table[k]}
  BY KnownEntry
<1>3. table[k].id = th[t].id /\ k \in Unfinished(table) /\ (table[k].thread_blocked <=> th[t].pc = "blocked")
  BY <1>2 DEF WorldInv, TableInv, Unfinished, Index
<1>4. OnStack(k) \subseteq Roots
  BY <1>3 DEF Roots
<1>5. CASE t = gc.by
  BY <1>3, <1>4, <1>5 DEF OnStack, Stack, Shows
<1>6. CASE t # gc.by
  <2>1. Alive(gc.by) /\ Alive(t)
    BY <1>1, KnownIsAlive DEF Alive
  <2>2. table[k].id # th[gc.by].id
    BY <1>1, <1>3, <1>6, <2>1 DEF WorldInv, TableInv
  <2>3. th[t].pc = "blocked" \/ stop.handler[t].pc \in Saved
    BY <1>2, <1>3, <2>2 DEF Others, Answered, Saved
  <2>4. Shows(th[t]) \subseteq table[k].stack
    BY <1>2, <2>3 DEF SoundInv, Sound, Tells
  <2> QED
    BY <1>4, <2>2, <2>4 DEF OnStack
<1> QED
  BY <1>5, <1>6

\* So is the result of a thread that somebody may join: in its entry, or with
\* the thread that creates it.
LEMMA ResultIsFound ==
  ASSUME WorldInv, SoundInv, OtherInv, gc.phase # "none", \A k \in Others : Answered(Owner(k)),
         NEW t \in Threads, th[t].joinable, th[t].result # NULL
  PROVE  th[t].result \in Roots
<1>1. CASE EntriesOf(t) # {}
  <2>1. PICK k \in Index : Owner(k) = t /\ table[k] \in EntriesOf(t)
    BY <1>1 DEF EntriesOf
  <2>2. table[k].status = th[t].result
    BY <2>1 DEF SoundInv, Sound, Tells
  <2> QED
    BY <2>2 DEF Roots, Index
<1>2. CASE EntriesOf(t) = {}
  <2>1. Starting(th[t], gc.in_creation)
    BY <1>2 DEF SoundInv, Sound
  <2>2. PICK c \in Threads : th[c].pc = "created" /\ th[c].obj = th[t].result
    BY <2>1 DEF OtherInv, Awaited
  <2>3. Known(c)
    BY <2>2 DEF Known, Plain
  <2>4. th[t].result \in Shows(th[c])
    BY <2>2 DEF Shows
  <2> QED
    BY <2>3, <2>4, StackIsFound
<1> QED
  BY <1>1, <1>2

\* When everybody has answered, the collector finds all that is held.
LEMMA HeldIsFound ==
  ASSUME WorldInv, SoundInv, OtherInv, gc.phase # "none", \A k \in Others : Answered(Owner(k))
  PROVE  AllHeld \subseteq Roots
<1>1. ASSUME NEW t \in Threads PROVE HeldBy(th[t]) \subseteq Roots
  <2>1. th[t].held \cup {o \in th[t].saved : th[t].active} \subseteq Roots
    <3>1. CASE Known(t)
      BY <3>1, StackIsFound DEF Shows
    <3>2. CASE ~Known(t)
      BY <3>2 DEF Known, SoundInv, Sound, Decent
    <3> QED
      BY <3>1, <3>2
  <2>2. {o \in {th[t].result} \ {NULL} : th[t].joinable} \subseteq Roots
    BY ResultIsFound
  <2> QED
    BY <2>1, <2>2 DEF HeldBy
<1> QED
  BY <1>1 DEF AllHeld

\* What is in reach of what is held is in reach of what the collector finds.
LEMMA LiveIsReached ==
  ASSUME WorldInv, ObjectInv, AllHeld \subseteq Roots, gc.phase # "none"
  PROVE  Live \subseteq Reached(heap.points, Roots)
<1>1. PICK points, roots, held : points = heap.points /\ roots = Roots /\ held = AllHeld
  OBVIOUS
<1>2. menu \in Menus /\ points \in [Objects -> SUBSET Objects] /\ roots \in SUBSET Objects
  BY <1>1, RootsAreObjects DEF WorldInv, ShapeInv, LockInv, ObjectInv, HeapInv
<1>3. PICK reached : reached = Reached(points, roots)
  OBVIOUS
<1>4. \A o \in reached : points[o] \subseteq reached
  BY <1>2, <1>3, ReachedClosed
<1>5. roots \subseteq reached
  <2>1. \A o \in Objects : points[o] \subseteq Objects
    BY <1>2
  <2> QED
    BY <1>2, <1>3, <2>1, ReachedWithin
<1>6. held \subseteq reached
  BY <1>1, <1>5
<1>7. Reached(points, held) \subseteq reached
  BY <1>2, <1>4, <1>6, ReachedWithin
<1> QED
  BY <1>1, <1>3, <1>7 DEF Live

\* What is on the lists of the threads is found as well.
LEMMA ListsAreFound ==
  ASSUME WorldInv, SoundInv, NEW t \in Threads
  PROVE  ListOf(EntriesOf(t)) \subseteq ListMarks
<1>1. ASSUME NEW k \in Index, Owner(k) = t PROVE table[k].tlfs.list \subseteq ListMarks
  <2>1. FINISHED \in table[k].flags => table[k].tlfs.list = {}
    BY <1>1 DEF SoundInv, Sound, Tells, EntriesOf
  <2> QED
    BY <2>1 DEF ListMarks, Unfinished, Index
<1> QED
  BY <1>1 DEF ListOf, EntriesOf

\* While the marks are made, nobody builds a list.
LEMMA NobodyBuilds ==
  ASSUME WorldInv, HeldInv, gc.phase \notin {"none", "wait_for_reclaim"}
  PROVE  /\ Builders = {} /\ Unswept = {}
         /\ \A u \in Threads : th[u].pc \notin Sweeper \cup {"join_builders"}
<1>1. Builders = {} /\ ~Sweeping
  BY DEF Sweeping, HeldInv, BuildInv
<1>2. \A u \in Threads : th[u].pc # "join_builders"
  BY DEF WorldInv, LockInv, Locking
<1> QED
  BY <1>1, <1>2 DEF Builders, Unswept

\* A phase of a collection in which only marks are made.
LEMMA MarksHeld ==
  ASSUME WorldInv, ObjectInv, HeldInv, UNCHANGED <<th, table, menu>>, heap'.free = heap.free, heap'.points = heap.points,
         pm'.parallel = pm.parallel, gc'.builders = gc.builders, gc'.in_creation = gc.in_creation,
         \A u \in Threads : stop'.handler[u].pc = stop.handler[u].pc,
         gc.phase \notin {"none", "wait_for_reclaim"}, gc'.phase \notin {"none", "wait_for_reclaim"},
         gc'.phase \in {"mark", "start", "restart"} => \A u \in Threads : ListOf(EntriesOf(u)) \subseteq heap'.marked,
         gc'.phase \in {"start", "restart"} => Live \subseteq heap'.marked
  PROVE  HeldInv'
<1>1. Builders = {} /\ \A u \in Threads : th[u].pc \notin Sweeper \cup {"join_builders"}
  BY NobodyBuilds
<1>2. Unswept' \subseteq Unswept
  BY DEF Unswept, Sweeping
<1>3. \A u \in Threads : PartOf(th[u], heap'.marked) \subseteq PartOf(th[u], heap.marked)
  BY <1>1 DEF PartOf, Sweeper
<1> QED
  BY <1>1, <1>2, <1>3, CollectorStep

\* The collection waits until no list is being built, clears the marks, and stops
\* and starts the world.
LEMMA WaitsHeld ==
  ASSUME WorldInv, ObjectInv, HeldInv, WaitBeforeMarking, UNCHANGED menu
  PROVE  HeldInv'
<1>1. gc.phase = "wait_for_reclaim" /\ UNCHANGED <<th, table, stop, heap, pm>> /\ DOMAIN gc = CollectorFields
  BY DEF WaitBeforeMarking, Phase, WorldInv, ShapeInv
<1>2. CASE gc' = [gc EXCEPT !.phase = "clear"] /\ (~pm.parallel \/ NoBuilders)
  <2>1. gc'.phase = "clear" /\ gc'.builders = gc.builders /\ gc'.in_creation = gc.in_creation
    BY <1>1, <1>2 DEF CollectorFields
  <2>2. Builders = {}
    BY <1>2, NoneBuilds DEF HeldInv
  <2>3. Unswept' \subseteq Unswept
    BY <2>1 DEF Unswept, Sweeping
  <2> QED
    BY <1>1, <2>1, <2>2, <2>3, CollectorStep
<1>3. CASE gc' = [gc EXCEPT !.asleep = @ \cup {gc.by}]
  <2>1. gc'.phase = gc.phase /\ gc'.builders = gc.builders /\ gc'.in_creation = gc.in_creation
    BY <1>1, <1>3 DEF CollectorFields
  <2>2. Unswept' = Unswept /\ (Sweeping' <=> Sweeping)
    BY <1>1, <2>1 DEF Unswept, Sweeping, Waiting, Swept
  <2>3. ~Sweeping => Builders = {}
    BY DEF HeldInv, BuildInv
  <2> QED
    BY <1>1, <2>1, <2>2, <2>3, CollectorStep
<1> QED
  BY <1>2, <1>3 DEF WaitBeforeMarking, WaitForReclaim

LEMMA ClearHeld ==
  ASSUME WorldInv, ObjectInv, HeldInv, GC_clear_marks, UNCHANGED menu
  PROVE  HeldInv'
<1>1. gc.phase = "clear" /\ UNCHANGED <<th, table, stop, pm>> /\ DOMAIN gc = CollectorFields /\ DOMAIN heap = HeapFields
  BY DEF GC_clear_marks, Phase, WorldInv, ShapeInv, ObjectInv, HeapInv
<1>2. gc'.phase = "stop" /\ gc'.builders = gc.builders /\ gc'.in_creation = gc.in_creation
  BY <1>1 DEF GC_clear_marks, CollectorFields
<1>3. heap'.free = heap.free /\ heap'.points = heap.points
  BY <1>1 DEF GC_clear_marks, HeapFields
<1> QED
  BY <1>1, <1>2, <1>3, MarksHeld

LEMMA StopHeld ==
  ASSUME WorldInv, ObjectInv, HeldInv, GC_stop_world, UNCHANGED menu
  PROVE  HeldInv'
<1>1. /\ UNCHANGED <<th, table, heap, pm>> /\ DOMAIN gc = CollectorFields /\ DOMAIN stop = StopFields
      /\ gc.phase \in {"stop", "suspend"}
  BY DEF GC_stop_world, GC_suspend_all, AwaitAnswer, Phase, WorldInv, ShapeInv
<1>2. gc'.phase = "suspend" /\ gc'.builders = gc.builders /\ gc'.in_creation = gc.in_creation
  BY <1>1 DEF GC_stop_world, BeginStop, GC_suspend_all, AwaitAnswer, Phase, CollectorFields
<1>3. stop'.handler = stop.handler
  BY <1>1 DEF GC_stop_world, BeginStop, GC_suspend_all, AwaitAnswer, StopFields
<1> QED
  BY <1>1, <1>2, <1>3, MarksHeld

LEMMA RestartHeld ==
  ASSUME WorldInv, ObjectInv, HeldInv, StartWorld, UNCHANGED menu
  PROVE  HeldInv'
<1>1. /\ UNCHANGED <<th, table, heap, pm>> /\ DOMAIN gc = CollectorFields /\ DOMAIN stop = StopFields
      /\ gc.phase \in {"start", "restart"}
  BY DEF StartWorld, BeginStart, GC_start_world, Phase, WorldInv, ShapeInv
<1>2. gc'.phase = "restart" /\ gc'.builders = gc.builders /\ gc'.in_creation = gc.in_creation
  BY <1>1 DEF StartWorld, BeginStart, GC_start_world, Phase, CollectorFields
<1>3. stop'.handler = stop.handler
  BY <1>1 DEF StartWorld, BeginStart, GC_start_world, StopFields
<1>4. Live \subseteq heap'.marked /\ \A u \in Threads : ListOf(EntriesOf(u)) \subseteq heap'.marked
  BY <1>1 DEF HeldInv, MarkedInv
<1> QED
  BY <1>1, <1>2, <1>3, <1>4, MarksHeld

\* The roots are pushed, or everything in reach of them is marked.
LEMMA MarkHeld ==
  ASSUME WorldInv, ObjectInv, HeldInv, MarkerShape, Mark, UNCHANGED menu
  PROVE  HeldInv'
<1>1. /\ UNCHANGED <<th, table, stop>> /\ DOMAIN gc = CollectorFields /\ DOMAIN heap = HeapFields /\ gc.phase = "suspend"
      /\ AllAnswered
  BY DEF Mark, AllAnswered, Phase, WorldInv, ShapeInv, ObjectInv, HeapInv
<1>2. FoundMe \/ gc.in_creation
  BY <1>1, FindsItself
<1>3. \A u \in Threads : ListOf(EntriesOf(u)) \subseteq ListMarks
  BY ListsAreFound DEF HeldInv
<1>4. Live \subseteq Reached(heap.points, Roots)
  BY <1>1, AllHaveAnswered, HeldIsFound, LiveIsReached DEF HeldInv
<1>5. PICK roots, reached, marks : roots = Roots /\ reached = Reached(heap.points, Roots) /\ marks = ListMarks
  OBVIOUS
<1>6. CASE pm.parallel
  <2>1. heap' = [heap EXCEPT !.marked = roots \cup marks] /\ pm' = Filled(pm, roots) /\ gc' = [gc EXCEPT !.phase = "mark"]
    BY <1>2, <1>5, <1>6 DEF Mark
  <2>2. heap'.marked = roots \cup marks /\ heap'.points = heap.points /\ heap'.free = heap.free
    BY <1>1, <2>1 DEF HeapFields
  <2>3. gc'.phase = "mark" /\ gc'.builders = gc.builders /\ gc'.in_creation = gc.in_creation
    BY <1>1, <2>1 DEF CollectorFields
  <2>4. pm'.parallel = pm.parallel
    BY <2>1, FilledStays DEF Sharing, MarkerShape
  <2>5. \A u \in Threads : ListOf(EntriesOf(u)) \subseteq heap'.marked
    BY <1>3, <1>5, <2>2
  <2> QED
    BY <1>1, <2>2, <2>3, <2>4, <2>5, MarksHeld
<1>7. CASE ~pm.parallel
  <2>1. heap' = [heap EXCEPT !.marked = reached \cup marks] /\ UNCHANGED pm /\ gc' = [gc EXCEPT !.phase = "start"]
    BY <1>2, <1>5, <1>7 DEF Mark
  <2>2. heap'.marked = reached \cup marks /\ heap'.points = heap.points /\ heap'.free = heap.free
    BY <1>1, <2>1 DEF HeapFields
  <2>3. gc'.phase = "start" /\ gc'.builders = gc.builders /\ gc'.in_creation = gc.in_creation
    BY <1>1, <2>1 DEF CollectorFields
  <2>4. (\A u \in Threads : ListOf(EntriesOf(u)) \subseteq heap'.marked) /\ Live \subseteq heap'.marked
    BY <1>3, <1>4, <1>5, <2>2
  <2> QED
    BY <1>1, <2>1, <2>2, <2>3, <2>4, MarksHeld
<1> QED
  BY <1>6, <1>7

\* The markers are done, and have marked all that is in reach of the roots.
LEMMA AfterHeld ==
  ASSUME WorldInv, ObjectInv, HeldInv, MarkersInv, AfterParallelMark, UNCHANGED menu
  PROVE  HeldInv'
<1>1. UNCHANGED <<th, table, stop>> /\ DOMAIN gc = CollectorFields /\ DOMAIN heap = HeapFields /\ gc.phase = "mark"
  BY DEF AfterParallelMark, Phase, WorldInv, ShapeInv, ObjectInv, HeapInv
<1>2. \A u \in Threads : ListOf(EntriesOf(u)) \subseteq heap.marked
  BY <1>1 DEF HeldInv, MarkedInv
<1>3. PICK empty : empty = [pm EXCEPT !.stack = <<>>, !.m[COLLECTOR] = Marker("off")]
  OBVIOUS
<1>4. Sharing(empty)
  BY <1>3 DEF Sharing, SharedFields, MarkersInv, MarkerShape
<1>5. CASE pm.invalid
  <2>1. PICK again : again = UNION {Unmarked(o) : o \in heap.marked}
    OBVIOUS
  <2>2. PICK p : p = [empty EXCEPT !.size = 2 * @]
    OBVIOUS
  <2>3. pm' = Filled(p, again) /\ heap' = [heap EXCEPT !.marked = @ \cup again] /\ UNCHANGED gc
    BY <1>3, <1>5, <2>1, <2>2 DEF AfterParallelMark
  <2>4. Sharing(p)
    BY <1>4, <2>2 DEF Sharing, SharedFields
  <2>5. pm'.parallel = pm.parallel
    BY <2>3, <2>4, FilledStays DEF Sharing
  <2>6. heap.marked \subseteq heap'.marked /\ heap'.points = heap.points /\ heap'.free = heap.free
    BY <1>1, <2>3 DEF HeapFields
  <2>7. \A u \in Threads : ListOf(EntriesOf(u)) \subseteq heap'.marked
    BY <1>2, <2>6
  <2> QED
    BY <1>1, <2>3, <2>5, <2>6, <2>7, MarksHeld
<1>6. CASE ~pm.invalid
  <2>1. pm' = empty /\ gc' = [gc EXCEPT !.phase = "start"] /\ UNCHANGED heap
    BY <1>3, <1>6 DEF AfterParallelMark
  <2>2. gc'.phase = "start" /\ gc'.by = gc.by /\ gc'.builders = gc.builders /\ gc'.in_creation = gc.in_creation
    BY <1>1, <2>1 DEF CollectorFields
  <2>3. pm'.parallel = pm.parallel
    BY <1>4, <2>1 DEF Sharing
  <2>4. AllHeld \subseteq Roots
    BY <1>1, HeldIsFound DEF HeldInv, WorldInv, AnswerInv
  <2>5. PICK points, from : points = heap.points /\ from = Roots
    OBVIOUS
  <2>6. Live \subseteq Reached(points, from)
    BY <1>1, <2>4, <2>5, LiveIsReached
  <2>7. Reached(points, from) \subseteq heap'.marked
    <3>1. MarkingIsComplete'
      BY AfterKeeps
    <3>2. Roots' = from
      BY <1>1, <2>2, <2>5, RootsInPhase
    <3>3. Reached(heap.points, Roots)' = Reached(points, from)'
      BY <2>1, <2>5, <3>2 DEF Reached, Objects
    <3>4. Reached(points, from)' = Reached(points, from)
      BY ReachedStays
    <3> QED
      BY <2>2, <3>1, <3>3, <3>4 DEF MarkingIsComplete
  <2>8. \A u \in Threads : ListOf(EntriesOf(u)) \subseteq heap'.marked
    BY <1>2, <2>1
  <2> QED
    BY <1>1, <2>1, <2>2, <2>3, <2>6, <2>7, <2>8, MarksHeld
<1> QED
  BY <1>5, <1>6

\* The collection ends: what is not marked waits to be swept.
LEMMA FinishHeld ==
  ASSUME WorldInv, ObjectInv, HeldInv, GC_finish_collection, UNCHANGED menu
  PROVE  HeldInv'
<1>1. gc.phase = "restart" /\ UNCHANGED <<table, stop, pm>>
  BY DEF GC_finish_collection, AllRestarted, Phase
<1>2. PICK t \in Threads :
        /\ t = gc.by /\ th[t].pc = "collect"
        /\ gc.then \in {"run", "core_again", "many_again", "start_again"}
        /\ gc.in_creation <=> gc.then = "start_again"
  BY <1>1 DEF WorldInv, LockInv
<1>3. PICK r : r = With(t, gc.then)
  OBVIOUS
<1>4. Same(r, th[t]) /\ r.pc = gc.then /\ r.obj = th[t].obj
  BY <1>3, GoesTo
<1>5. /\ DOMAIN th = Threads /\ th' = [th EXCEPT ![t] = r] /\ th'[t] = r
      /\ \A u \in Threads \ {t} : th'[u] = th[u] /\ th[u].pc # "collect"
  BY <1>2, <1>3 DEF GC_finish_collection, Became, WorldInv, ShapeInv, LockInv
<1>6. gc'.phase = "none" /\ gc'.in_creation = FALSE /\ gc'.builders = gc.builders
  BY DEF GC_finish_collection, WorldInv, ShapeInv, CollectorFields
<1>7. /\ heap'.free = {} /\ heap'.reclaimable = Reclaimable(heap.marked)
      /\ heap'.marked = heap.marked /\ heap'.points = heap.points
  BY DEF GC_finish_collection, ObjectInv, HeapInv, HeapFields
<1>8. \A u : EntriesOf(u)' = EntriesOf(u)
  BY <1>1, SameEntriesOf
<1>9. SoundInv'
  <2>1. ASSUME NEW u \in Threads \ {t}
        PROVE  Sound(u, th[u], EntriesOf(u), stop.handler[u].pc, gc.in_creation)'
    <3>1. PICK q, E, h, i : q = th[u] /\ E = EntriesOf(u) /\ h = stop.handler[u].pc /\ i = gc.in_creation
      OBVIOUS
    <3>2. Sound(u, q, E, h, i) /\ q.pc # "collect"
      BY <1>5, <3>1 DEF HeldInv, SoundInv
    <3>3. Sound(u, q, E, h, FALSE)
      BY ONLY <3>2 DEF Sound, Decent, Starting
    <3>4. th'[u] = q /\ EntriesOf(u)' = E /\ stop'.handler[u].pc = h /\ gc'.in_creation = FALSE
      BY <1>1, <1>5, <1>6, <1>8, <3>1
    <3> QED
      BY ONLY <3>3, <3>4 DEF Sound, Decent, Starting, Tells, Shows, Saved
  <2>2. Sound(t, th[t], EntriesOf(t), stop.handler[t].pc, gc.in_creation)'
    <3>1. PICK q, E, h, i : q = th[t] /\ E = EntriesOf(t) /\ h = stop.handler[t].pc /\ i = gc.in_creation
      OBVIOUS
    <3>2. Sound(t, q, E, h, i) /\ q.pc = "collect" /\ Same(r, q) /\ r.obj = q.obj /\ r.pc \in {"run", "core_again", "many_again", "start_again"}
          /\ (i <=> r.pc = "start_again")
      BY <1>2, <1>4, <3>1 DEF HeldInv, SoundInv
    <3>3. Decent(r, FALSE)
      <4>1. Decent(q, i)
        BY ONLY <3>2 DEF Sound
      <4>2. r.held \subseteq q.held /\ r.obj = q.obj /\ r.active = q.active /\ r.joinable = q.joinable
        BY ONLY <3>2 DEF Same
      <4>3. r.obj = NULL /\ (i => r.held = {} /\ ~r.active)
        BY ONLY <3>2, <4>1, <4>2 DEF Decent
      <4>4. r.pc = "start_again" \/ r.pc \in Plain
        BY ONLY <3>2 DEF Plain
      <4> QED
        BY ONLY <3>2, <4>3, <4>4 DEF Decent
    <3>4. ASSUME NEW e \in E PROVE Tells(t, r, e, h)
      <4>1. Tells(t, q, e, h)
        BY ONLY <3>2, e \in E DEF Sound
      <4>2. Shows(r) \subseteq Shows(q) /\ r.result = q.result /\ r.joinable = q.joinable /\ r.unregisters = q.unregisters
        BY ONLY <3>2 DEF Same, Shows
      <4> QED
        BY ONLY <3>2, <4>1, <4>2 DEF Tells
    <3>5. E = {} /\ r.joinable /\ ~Starting(r, FALSE) => r.result = NULL
      BY ONLY <3>2 DEF Sound, Starting, Same
    <3>6. Sound(t, r, E, h, FALSE)
      BY <3>3, <3>4, <3>5 DEF Sound
    <3>7. th'[t] = r /\ EntriesOf(t)' = E /\ stop'.handler[t].pc = h /\ gc'.in_creation = FALSE
      BY <1>1, <1>5, <1>6, <1>8, <3>1
    <3> QED
      BY ONLY <3>6, <3>7 DEF Sound, Decent, Starting, Tells, Shows, Saved
  <2> QED
    BY <2>1, <2>2 DEF SoundInv
<1>10. OtherInv'
  <2>1. ASSUME NEW u \in Threads
        PROVE  /\ Starting(th[u], gc.in_creation)' <=> Starting(th[u], gc.in_creation)
               /\ Left(th[u])' <=> Left(th[u])
               /\ th'[u].pc = "none" <=> th[u].pc = "none"
               /\ th'[u].result = th[u].result
    <3>1. CASE u = t
      BY <1>2, <1>4, <1>5, <1>6, <3>1 DEF Starting, Left, Same
    <3>2. CASE u # t
      BY <1>5, <3>2 DEF Starting, Left
    <3> QED
      BY <3>1, <3>2
  <2>2. \A u \in Threads : th[u].pc \in {"created", "join", "detach", "detached"} => th'[u] = th[u]
    BY <1>2, <1>5
  <2>3. \A u \in Threads : th'[u].pc \in {"join", "detach", "detached"} => th'[u] = th[u]
    BY <1>2, <1>4, <1>5
  <2>4. ASSUME NEW u \in Threads, Starting(th[u], gc.in_creation)'
        PROVE  Awaited(u)'
    <3>1. Awaited(u) /\ th'[u].result = th[u].result
      BY <2>1, <2>4 DEF HeldInv, OtherInv
    <3> QED
      BY <2>2, <3>1 DEF Awaited
  <2>5. ASSUME NEW u \in Threads
        PROVE  /\ th'[u].pc \in {"join", "detach"} =>
                    th'[u].of \in Threads /\ ~Starting(th[th[u].of], gc.in_creation)' /\ th'[th'[u].of].pc # "none"
               /\ th'[u].pc = "detach" =>
                    th'[u].entry \in Threads /\ (th'[u].entry = th'[u].of \/ Left(th[th[u].entry])')
               /\ th'[u].pc = "detached" => th'[u].entry \in Threads /\ Left(th[th[u].entry])'
    <3>1. SUFFICES ASSUME th'[u].pc \in {"join", "detach", "detached"}
                   PROVE  /\ th'[u].pc \in {"join", "detach"} =>
                               th'[u].of \in Threads /\ ~Starting(th[th[u].of], gc.in_creation)' /\ th'[th'[u].of].pc # "none"
                          /\ th'[u].pc = "detach" =>
                               th'[u].entry \in Threads /\ (th'[u].entry = th'[u].of \/ Left(th[th[u].entry])')
                          /\ th'[u].pc = "detached" => th'[u].entry \in Threads /\ Left(th[th[u].entry])'
      OBVIOUS
    <3>2. th'[u] = th[u]
      BY <2>3, <3>1
    <3>3. PICK n, e : n = th[u].of /\ e = th[u].entry
      OBVIOUS
    <3>4. /\ n \in Threads => (~Starting(th[n], gc.in_creation) => ~Starting(th[n], gc.in_creation)')
          /\ n \in Threads => (th[n].pc # "none" => th'[n].pc # "none")
          /\ e \in Threads => (Left(th[e]) => Left(th[e])')
      BY <2>1
    <3>5. /\ th[u].pc \in {"join", "detach"} => n \in Threads /\ ~Starting(th[n], gc.in_creation) /\ th[n].pc # "none"
          /\ th[u].pc = "detach" => e \in Threads /\ (e = n \/ Left(th[e]))
          /\ th[u].pc = "detached" => e \in Threads /\ Left(th[e])
      BY <3>3 DEF HeldInv, OtherInv
    <3> QED
      BY <3>2, <3>3, <3>4, <3>5 DEF Left, Starting
  <2> QED
    BY <2>4, <2>5 DEF OtherInv
<1>11. Builders = {} /\ \A u \in Threads : th[u].pc \notin Sweeper \cup {"join_builders"}
  BY <1>1, NobodyBuilds
<1>12. \A u \in Threads : th'[u].pc \notin Sweeper \cup {"join_builders"} /\ (th'[u].pc = "fork" => th[u].pc = "fork")
  BY <1>2, <1>4, <1>5, <1>11 DEF Sweeper
<1>13. BuildInv'
  <2>1. Builders' = Builders
    BY <1>11, <1>12 DEF Builders
  <2> QED
    BY <1>6, <1>11, <1>12, <2>1 DEF HeldInv, BuildInv, Sweeping
<1>14. \A u \in Threads : Place(u)' = ListOf(EntriesOf(u))
  BY <1>8, <1>12 DEF Place, ListOf, PartOf, Sweeper
<1>15. \A u \in Threads : ListOf(EntriesOf(u)) \subseteq heap.marked /\ ListOf(EntriesOf(u)) \subseteq Place(u)
  BY <1>1 DEF HeldInv, MarkedInv, Place
<1>16. Live' \subseteq Live /\ Live \subseteq heap.marked
  <2>1. ASSUME NEW u \in Threads PROVE HeldBy(th[u])' \subseteq HeldBy(th[u])
    BY <1>4, <1>5 DEF HeldBy, Same
  <2>2. AllHeld' \subseteq AllHeld
    BY <2>1 DEF AllHeld
  <2>3. PICK new : new = {}
    OBVIOUS
  <2>4. /\ AllHeld' \subseteq Live \cup new
        /\ \A o \in Live : heap'.points[o] \subseteq heap.points[o]
        /\ \A o \in new : heap'.points[o] = {}
    BY <1>7, <2>2, <2>3, LiveFacts
  <2>5. Live' \subseteq Live \cup new
    BY <2>4, LiveGrows
  <2> QED
    BY <1>1, <2>3, <2>5 DEF HeldInv, MarkedInv
<1>17. Unswept' \cap heap.marked = {}
  BY <1>7 DEF Unswept, Waiting, Swept
<1>18. OwnerInv'
  <2>1. \A u \in Threads : Place(u)' \cap heap'.free = {} /\ Place(u)' \cap Unswept' = {} /\ Place(u)' \cap Live' = {}
    BY <1>7, <1>14, <1>15, <1>16, <1>17 DEF HeldInv, OwnerInv
  <2>2. \A u, v \in Threads : u # v => Place(u)' \cap Place(v)' = {}
    BY <1>14, <1>15 DEF HeldInv, OwnerInv
  <2>3. heap'.free \cap Unswept' = {} /\ heap'.free \cap Live' = {} /\ Unswept' \cap Live' = {}
    BY <1>7, <1>16, <1>17
  <2> QED
    BY <2>1, <2>2, <2>3 DEF OwnerInv
<1>19. MarkedInv'
  BY <1>6 DEF MarkedInv
<1> QED
  BY <1>9, <1>10, <1>13, <1>18, <1>19 DEF HeldInv

LEMMA CollectingHeld ==
  ASSUME WorldInv, ObjectInv, MarkersInv, HeldInv, Collecting, UNCHANGED menu
  PROVE  HeldInv'
BY WaitsHeld, ClearHeld, StopHeld, MarkHeld, AfterHeld, RestartHeld, FinishHeld DEF Collecting, MarkersInv

-----------------------------------------------------------------------------
\* All the steps together.

\* At the start the threads hold what is marked, and have nothing to give out.
LEMMA HeldBegins ==
  ASSUME Init
  PROVE  HeldInv
<1>1. menu \in Menus /\ WorldInv /\ ObjectInv
  BY WorldBegins, ObjectsBegin DEF Init
<1>2. /\ Objects \in SUBSET Nat /\ menu.points \in [Objects -> SUBSET Objects] /\ menu.held \in SUBSET Objects
  BY <1>1, ObjectFacts
<1>3. PICK points, held, marked : points = menu.points /\ held = menu.held /\ marked = Reached(menu.points, menu.held)
  OBVIOUS
<1>4. heap = [free |-> {}, reclaimable |-> Reclaimable(marked), marked |-> marked, points |-> points]
  BY <1>3 DEF Init
<1>5. /\ gc = [by |-> NULL, phase |-> "none", next |-> 1, n_live |-> 0, then |-> NULL, builders |-> 0,
               asleep |-> {}, in_creation |-> FALSE, aborted |-> FALSE]
      /\ \A t \in Threads : stop.handler[t].pc = "none"
  BY DEF Init, StopInit, Outside, Handler
<1>6. ASSUME NEW t \in Threads
      PROVE  /\ th[t].held \in {held, {}} /\ th[t].saved = {} /\ th[t].obj = NULL /\ th[t].result = NULL
             /\ th[t].active = FALSE /\ th[t].joinable = TRUE
             /\ th[t].pc \in {"run", "none", "outside", "gone"} /\ (th[t].pc # "run" => th[t].held = {})
  <2>1. PICK pc : pc = IF t \in ToSet(menu.registered) THEN "run" ELSE IF t \in menu.others THEN menu.at ELSE "gone"
    OBVIOUS
  <2>2. th[t] = [Thread(pc, t) EXCEPT !.held = IF t = "Main" THEN menu.held ELSE {}]
    BY <2>1 DEF Init
  <2>3. /\ th[t].held = (IF t = "Main" THEN held ELSE {}) /\ th[t].saved = {} /\ th[t].obj = NULL /\ th[t].result = NULL
        /\ th[t].active = FALSE /\ th[t].joinable = TRUE /\ th[t].pc = pc
    BY <1>3, <2>2 DEF Thread
  <2>4. pc \in {"run", "none", "outside", "gone"} /\ (t = "Main" => pc = "run")
    BY <1>1, <2>1, Programs
  <2> QED
    BY <2>3, <2>4
<1>7. ASSUME NEW t \in Threads, NEW e \in EntriesOf(t)
      PROVE  /\ e.stack = {} /\ e.status = NULL /\ e.tlfs.list = {}
             /\ DETACHED \in e.flags => t = "Main"
  <2>1. PICK k \in Index : e = table[k] /\ Owner(k) = t
    BY DEF EntriesOf
  <2>2. PICK of : of = menu.registered[k]
    OBVIOUS
  <2>3. e = [Entry(of, of) EXCEPT !.flags = IF of = "Main" THEN {DETACHED, MAIN_THREAD} ELSE {}]
    BY <2>1, <2>2 DEF Init, InitTable, Index
  <2>4. e.of = of /\ e.stack = {} /\ e.status = NULL /\ e.tlfs = [counting |-> FALSE, list |-> {}]
        /\ e.flags = IF of = "Main" THEN {DETACHED, MAIN_THREAD} ELSE {}
    BY <2>3 DEF Entry
  <2> QED
    BY <2>1, <2>4 DEF Owner
<1>8. SoundInv
  <2>1. ASSUME NEW t \in Threads PROVE Sound(t, th[t], EntriesOf(t), stop.handler[t].pc, gc.in_creation)
    <3>1. Decent(th[t], gc.in_creation)
      BY <1>6 DEF Decent, Plain
    <3>2. \A e \in EntriesOf(t) : Tells(t, th[t], e, stop.handler[t].pc)
      BY <1>5, <1>6, <1>7 DEF Tells, Saved
    <3> QED
      BY <1>6, <3>1, <3>2 DEF Sound
  <2> QED
    BY <2>1 DEF SoundInv
<1>9. OtherInv
  BY <1>6 DEF OtherInv, Starting
<1>10. Builders = {} /\ \A t \in Threads : th[t].pc \notin Sweeper \cup {"join_builders", "fork"}
  BY <1>6 DEF Builders, Sweeper
<1>11. BuildInv
  BY <1>5, <1>10, FS_EmptySet DEF BuildInv
<1>12. MarkedInv
  BY <1>5 DEF MarkedInv
<1>13. \A t \in Threads : Place(t) = {}
  <2>1. ASSUME NEW t \in Threads PROVE ListOf(EntriesOf(t)) = {} /\ PartOf(th[t], heap.marked) = {}
    <3>1. ListOf(EntriesOf(t)) = {}
      BY <1>7 DEF ListOf
    <3>2. PartOf(th[t], heap.marked) = {}
      BY <1>10 DEF PartOf, Sweeper
    <3> QED
      BY <3>1, <3>2
  <2> QED
    BY <2>1 DEF Place
<1>14. Live \subseteq marked
  <2>1. PICK from : from = AllHeld
    OBVIOUS
  <2>2. from \subseteq held
    BY <1>6, <2>1 DEF AllHeld, HeldBy
  <2>3. held \subseteq marked /\ \A o \in marked : points[o] \subseteq marked
    <3>1. \A o \in Objects : points[o] \subseteq Objects
      BY <1>2, <1>3
    <3> QED
      BY <1>1, <1>2, <1>3, <3>1, ReachedClosed, ReachedWithin
  <2>4. Reached(points, from) \subseteq marked
    BY <1>1, <2>2, <2>3, ReachedWithin
  <2> QED
    BY <1>4, <2>1, <2>4 DEF Live
<1>15. Unswept \cap marked = {} /\ heap.free = {}
  BY <1>4 DEF Unswept, Waiting, Swept
<1>16. OwnerInv
  BY <1>13, <1>14, <1>15 DEF OwnerInv
<1> QED
  BY <1>8, <1>9, <1>11, <1>12, <1>16 DEF HeldInv

\* Every step leaves what is held where it is.
LEMMA HeldStep ==
  ASSUME WorldInv, ObjectInv, MarkersInv, HeldInv, [Next]_vars
  PROVE  HeldInv'
<1>1. CASE UNCHANGED vars
  <2>1. UNCHANGED <<th, table, stop, gc, heap, pm, menu>>
    BY <1>1 DEF vars
  <2>2. /\ Unswept' \subseteq Unswept
        /\ \A u \in Threads : PartOf(th[u], heap'.marked) \subseteq PartOf(th[u], heap.marked)
        /\ ~Sweeping' => Builders = {}
        /\ gc'.phase \in {"mark", "start", "restart"} => \A u \in Threads : ListOf(EntriesOf(u)) \subseteq heap'.marked
        /\ gc'.phase \in {"start", "restart"} => Live \subseteq heap'.marked
    BY <2>1 DEF Unswept, Sweeping, Waiting, Swept, PartOf, HeldInv, BuildInv, MarkedInv
  <2> QED
    BY <2>1, <2>2, CollectorStep
<1>2. CASE Collecting /\ UNCHANGED menu
  BY <1>2, CollectingHeld
<1>3. ASSUME NEW i \in Markers, Marking(i), UNCHANGED menu PROVE HeldInv'
  BY <1>3, MarkingHeld
<1>4. ASSUME NEW t \in Threads, Signal(t) \/ UserSignal(t), UNCHANGED menu PROVE HeldInv'
  BY <1>4, SignalHeld
<1>5. ASSUME NEW t \in Threads, Living(t), UNCHANGED menu PROVE HeldInv'
  <2>1. CASE Fork(t)
    BY <1>5, <2>1, ForkParentHeld, ForkChildHeld DEF Fork
  <2> QED
    BY <1>5, <2>1, CreateHeld, PrepareHeld, AppearHeld, RegisteredHeld, RegisterHeld, ReturnHeld, UnregisterHeld, EndHeld,
       JoinsHeld, BlockHeld
       DEF Living
<1>6. ASSUME NEW t \in Threads, Program(t), UNCHANGED menu PROVE HeldInv'
  BY <1>5, <1>6, AllocatesHeld DEF Program
<1> QED
  BY <1>1, <1>2, <1>3, <1>4, <1>6 DEF Next

\* What is given out is nobody's.
LEMMA HeldNow ==
  ASSUME WorldInv, ObjectInv, HeldInv
  PROVE  HeldObjectsStay
<1>1. InUse \subseteq Live
  <2>1. PICK points, from : points = heap.points /\ from = Held
    OBVIOUS
  <2>2. Held \subseteq AllHeld
    BY DEF Held, AllHeld, HeldBy
  <2>3. from \subseteq Live /\ \A o \in Live : points[o] \subseteq Live
    BY <2>1, <2>2, LiveFacts
  <2>4. Reached(points, from) \subseteq Live
    BY <2>3, ReachedWithin DEF WorldInv, ShapeInv
  <2> QED
    BY <2>1, <2>4 DEF InUse
<1>2. ASSUME NEW t \in Threads PROVE Local[t] \subseteq Place(t) /\ Built(t) \subseteq Place(t)
  <2>1. Local[t] \subseteq ListOf(EntriesOf(t))
    <3>1. PICK E : table \in Seq(E)
      BY DEF WorldInv, ShapeInv
    <3>2. Own(t) # 0 => Own(t) \in Index /\ Owner(Own(t)) = t
      BY <3>1, FoundOwn DEF Own, Index, Owner
    <3>3. CASE Own(t) # 0
      <4>1. Local[t] = table[Own(t)].tlfs.list /\ table[Own(t)] \in EntriesOf(t)
        BY <3>2, <3>3 DEF Local, EntriesOf
      <4> QED
        BY <4>1 DEF ListOf
    <3>4. CASE Own(t) = 0
      BY <3>4 DEF Local
    <3> QED
      BY <3>3, <3>4
  <2>2. Built(t) \subseteq PartOf(th[t], heap.marked)
    BY DEF Built, PartOf
  <2> QED
    BY <2>1, <2>2 DEF Place
<1>3. Kept \subseteq UNION {Place(t) : t \in Threads}
  BY <1>2 DEF Kept
<1>4. Kept \cap heap.free = {} /\ Kept \cap Unswept = {} /\ Kept \cap Live = {}
  BY <1>3 DEF HeldInv, OwnerInv
<1>5. \A t, u \in Threads : t # u => Local[t] \cap (Local[u] \cup Built(u)) = {}
  BY <1>2 DEF HeldInv, OwnerInv
<1>6. (heap.free \cup Kept) \cap InUse = {} /\ heap.free \cap Kept = {}
  BY <1>1, <1>4 DEF HeldInv, OwnerInv
<1>7. Sweeping => Waiting \cap (InUse \cup heap.free \cup Kept) = {}
  BY <1>1, <1>4 DEF HeldInv, OwnerInv, Unswept
<1> QED
  BY <1>5, <1>6, <1>7 DEF HeldObjectsStay

\* An object that a thread holds, the result of a thread that was not joined yet,
\* and all that they lead to, is never on a free list, never in a block that is
\* still to be swept, and never on the list that a thread gives out from; and no
\* object is in two of them: for any number of threads and helpers, any programs
\* that allocate, start, end, are joined and detached, block and fork, and
\* whenever they collect (GC_malloc_kind, GC_generic_malloc_many,
\* GC_mark_thread_local_free_lists, GC_push_all_stacks, GC_start_reclaim).  A
\* thread that registers itself or forks begins with an id for which the table
\* has no entry (FreeIds).
THEOREM HeldStay == Spec => []HeldObjectsStay
<1> DEFINE Inv == WorldInv /\ ObjectInv /\ MarkersInv /\ MarkingIsComplete /\ HeldInv
<1>1. Init => Inv
  BY WorldBegins, ObjectsBegin, MarkersBegin, HeldBegins
<1>2. Inv /\ [Next]_vars => Inv'
  BY WorldStep, MarkingStep, HeldStep
<1>3. Inv => HeldObjectsStay
  BY HeldNow
<1> QED
  BY <1>1, <1>2, <1>3, PTL DEF Spec
=============================================================================
