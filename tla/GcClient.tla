------------------------------ MODULE GcClient ------------------------------
(***************************************************************************)
(* A program that uses the collector (gc.h): it allocates, writes pointers *)
(* into its roots and objects, forgets them, frees, registers finalizers   *)
(* and links, and asks for collections.  It keeps its own record `live` of *)
(* every object it can still get at: kind, length and words.  What it      *)
(* calls, and how often, is its `menu`.  Its own frame, the last of the    *)
(* stack, says what is to be done when the call has been served.           *)
(***************************************************************************)
EXTENDS GcMalloc, TLC

CONSTANT Menus
\* The programs: a configuration of the collector, a prefix of allocations,
\* stores and registrations that comes first, and then any of the named calls,
\* at most `budget` of them, with the sizes, kinds, roots ... given.

VARIABLES
  live,     \* base address -> object, as the program remembers it
  menu,
  calls     \* how many more calls it makes

vars == <<h, stack, live, menu, calls>>

StartUp(configuration) ==
  configuration
    @@ InitialHeap @@ InitialHblks @@ NoHeaders @@ InitialObjects @@ InitialMarker
    @@ InitialTables @@ InitialCollector @@ InitialRoots
    @@ [roots |-> [a \in Roots |-> 0], non_gc_bytes |-> 0, non_gc_bytes_at_gc |-> 0,
        composite_in_use |-> 0, atomic_in_use |-> 0, bytes_allocd |-> 0, bytes_dropped |-> 0,
        bytes_freed |-> 0, finalizer_bytes_freed |-> 0,
        old_stack_bl |-> {}, incomplete_stack_bl |-> {}, old_normal_bl |-> {},
        incomplete_normal_bl |-> {}, black_list_spacing |-> MINHINCR * HBLKSIZE]

-----------------------------------------------------------------------------
EXTRA_BYTES(g) == IF g.all_interior_pointers THEN 1 ELSE 0

\* What the program can get at.  A pointer to the end of an object counts if
\* interior pointers do; of an object allocated with ignore_off_page only its
\* first block counts.
Names(objs, w, interior) ==
  {p \in DOMAIN objs : w = p \/ (interior /\ w \in p..(p + objs[p].extent - 1))}

RECURSIVE Closure(_, _, _)
Closure(objs, interior, found) ==
  LET words == UNION {{objs[p].words[i] : i \in DOMAIN objs[p].words} :
                        p \in {q \in found : ~PointerFree(objs[q].kind)}}
      more  == UNION {Names(objs, w, interior) : w \in words}
  IN  IF more \subseteq found THEN found ELSE Closure(objs, interior, found \cup more)

\* What the roots lead to, and the client data of the finalizers.
Accessible(g, objs) ==
  LET interior == g.all_interior_pointers
      data     == UNION {Names(objs, g.mem[g.fo[i].at], interior) : i \in DOMAIN g.fo}
      static   == UNION {Names(objs, g.roots[a], interior) : a \in StaticRoots \cap Relied(g)}
      onStack  == UNION {Names(objs, g.roots[a], TRUE) : a \in StackRoots}
      fixed    == {p \in DOMAIN objs : IS_UNCOLLECTABLE(objs[p].kind)}
  IN  Closure(objs, interior, fixed \cup static \cup onStack \cup data)

\* Objects with a finalizer stay, and so does what they point to, until the
\* finalizer has run.  With no_order and without java_finalization that is the
\* program's business.
Held(g, objs) ==
  LET ordered(e) == g.java_finalization \/ e.proc # no_order
      entries   == {g.fo[i] : i \in DOMAIN g.fo} \cup {g.finalize_now[i] : i \in DOMAIN g.finalize_now}
      awaiting  == {e.base : e \in {f \in entries : ordered(f)}}
  IN  Closure(objs, g.all_interior_pointers,
              Accessible(g, objs) \cup (awaiting \cap DOMAIN objs))

\* An object of lb words at p with the given words.
Object(g, kind, lb, words, flags) ==
  [kind |-> kind, words |-> [i \in 0..(lb - 1) |-> words[i]],
   extent |-> IF "IGNORE_OFF_PAGE" \in flags /\ lb > HBLKSIZE THEN HBLKSIZE
              ELSE IF IS_UNCOLLECTABLE(kind) THEN lb ELSE lb + EXTRA_BYTES(g)]

\* A link may be cleared if its object can no longer be got at, and a long link
\* if not even a finalizer can get at it.
LinksCleared(g) ==
  LET lost == {e.link : e \in {f \in ToSet(h.dl) : f.obj \notin Accessible(g, live)}}
                \cup {e.link : e \in {f \in ToSet(h.ll) : f.obj \notin Held(g, live)}}
  IN  [p \in DOMAIN live |->
         [live[p] EXCEPT !.words = [i \in DOMAIN @ |->
            IF p + i \in lost /\ g.mem[p + i] = 0 THEN 0 ELSE @[i]]]]

\* What the program has when the heap is g, and nothing was written for it but
\* links that have disappeared.
Remembered(g) ==
  Restrict(IF h.dl \o h.ll = <<>> THEN live ELSE LinksCleared(g), Held(g, live))

\* The program goes on with the heap g and the objects objs.
Done(g, objs) ==
  /\ h' = [g EXCEPT !.patience = -1]
  /\ stack' = <<>>
  /\ live' = Restrict(objs, Held(g, objs))

\* The call is served by the given frames, to return to one for the program.
Called(g, frames, client) ==
  /\ h' = g
  /\ stack' = frames \o <<client>>
  /\ live' = Remembered(g)

\* The heap with which the call begins: in a collection with a time limit the
\* clock may run out after any number of steps.
Timed == {[h EXCEPT !.patience = k] : k \in menu.patience}

\* GC_invoke_finalizers: the queued ones, newest first.  The finalizers of the
\* model are two: one that only looks at its object and "keep", which stores it
\* in the root h.keep.
RECURSIVE GC_invoke_finalizers(_)
GC_invoke_finalizers(g) ==
  LET e      == Head(g.finalize_now)
      popped == [g EXCEPT !.finalize_now = Tail(@)]
      ran    == IF e.fn = "keep" THEN SetWord(popped, g.keep, e.base) ELSE popped
  IN  IF g.finalize_now = <<>> THEN g
      ELSE GC_invoke_finalizers(SetWord(ran, e.at, 0))

\* Before a request is served: leaks are reported, finalizers run.
GC_INVOKE_FINALIZERS(g) == IF g.finalize_on_demand THEN g ELSE GC_invoke_finalizers(g)
Reported(g) == IF g.leaked = <<>> THEN g ELSE GC_print_all_errors(g)
Prepared(g) == GC_INVOKE_FINALIZERS(Reported(g))

-----------------------------------------------------------------------------
\* Allocation.  A fresh object of lb words is zero if its kind is cleared.
Fresh(g, p, kind, lb, flags) ==
  Object(g, kind, lb, [i \in 0..(lb - 1) |-> IF ok_init(kind) THEN 0 ELSE g.mem[p + i]], flags)

\* The address p of an allocated object is stored in root r.
Placed(g, r, p) == [g EXCEPT !.roots[r] = p]

\* Neither kind of uncollectable object needs the extra byte if it is small.
Request(kind, lb) ==
  LET gran == lb + EXTRA_BYTES(h)
  IN  IF IS_UNCOLLECTABLE(kind) /\ SMALL_OBJ(gran) THEN lb ELSE gran


\* GC_malloc and the like: from the free list, or else served by the allocator.
FromFreeList(g, kind, gran) ==
  LET taken == Taken(g, kind, gran, kind # PTRFREE)
  IN  IF IS_UNCOLLECTABLE(kind) THEN [taken EXCEPT !.non_gc_bytes = @ + gran] ELSE taken

GC_generic_or_special_malloc(g, kind, lb, flags, client) ==
  LET gran == Request(kind, lb)
      op   == IF SMALL_OBJ(gran) /\ flags = {} THEN g.freelist[kind][gran] ELSE NULL
  IN  IF op # NULL THEN Called(FromFreeList(g, kind, gran), <<>>, [client EXCEPT !.got = op])
      ELSE Called(Prepared(g), <<Generic(gran, kind, flags)>>, client)

BeginMalloc(r, kind, lb, flags) ==
  \E g \in Timed :
    GC_generic_or_special_malloc(g, kind, lb, flags,
      [fn |-> "malloc", got |-> NULL, r |-> r, kind |-> kind, lb |-> lb,
       flags |-> IF SMALL_OBJ(Request(kind, lb)) THEN {} ELSE flags])

\* Large objects that are not collected are marked once and for all.
Pinned(g, p, kind, lb) ==
  IF IS_UNCOLLECTABLE(kind) /\ ~SMALL_OBJ(Request(kind, lb))
  THEN [g EXCEPT !.hdr[HBLKPTR(p)].marks = @ \cup {0}, !.hdr[HBLKPTR(p)].n_marks = 1]
  ELSE g

MallocReturns ==
  /\ In("malloc")
  /\ LET p == frame.got
     IN  IF p = NULL THEN Done(Placed(h, frame.r, 0), live)
         ELSE Done(Placed(Pinned(h, p, frame.kind, frame.lb), frame.r, p),
                   (p :> Fresh(h, p, frame.kind, frame.lb, frame.flags)) @@ live)
  /\ UNCHANGED <<menu, calls>>

\* A call that the menu offers, and that counts.
Makes(name) ==
  /\ calls \in 1..menu.budget /\ stack = <<>> /\ name \in menu.calls
  /\ calls' = calls - 1
  /\ UNCHANGED menu

Malloc(r, kind, lb) == Makes("malloc") /\ BeginMalloc(r, kind, lb, {})
MallocIgnoreOffPage(r, lb) ==
  Makes("ignore_off_page") /\ BeginMalloc(r, NORMAL, lb, {"IGNORE_OFF_PAGE"})

\* The objects of the list belong to the program, which has the first one.
MallocMany(r, lb) ==
  /\ Makes("malloc_many")
  /\ \E g \in Timed :
       Called(Prepared(g), <<Many(Request(NORMAL, lb), NORMAL)>>,
              [fn |-> "malloc_many", got |-> NULL, r |-> r, lb |-> lb])

MallocManyReturns ==
  /\ In("malloc_many")
  /\ LET words(p) == [i \in 0..(frame.lb - 1) |-> IF i = 0 THEN h.mem[p] ELSE 0]
     IN  Done(Placed(h, frame.r, frame.got),
              [p \in ToSet(ListFrom(h, frame.got)) |-> Object(h, NORMAL, frame.lb, words(p), {})]
                @@ live)
  /\ UNCHANGED <<menu, calls>>

\* Objects for which the collector keeps something cannot be freed or moved.
Registered(p) ==
  LET within(a) == p <= a /\ a < p + Cardinality(DOMAIN live[p].words)
  IN  \/ \E e \in ToSet(h.dl \o h.ll) : within(e.link) \/ e.obj = p
      \/ \E e \in ToSet(h.fo \o h.finalize_now) : e.base = p

Free(p) ==
  /\ Makes("free") /\ ~Registered(p)
  /\ Done(GC_free(h, p), Restrict(live, DOMAIN live \ {p}))

-----------------------------------------------------------------------------
\* GC_realloc.  A large object takes the rest of its last block.  One that is
\* long enough but not twice so stays where it is and loses what is beyond its
\* new end.
RoundedUp(g, b, sz) ==
  [g EXCEPT !.hdr[b].sz = sz,
            !.non_gc_bytes = IF IS_UNCOLLECTABLE(g.hdr[b].kind) THEN @ + sz - g.hdr[b].sz ELSE @]

Kept(g, p, orig_sz, lb) ==
  IF orig_sz <= lb THEN g
  ELSE Fill(Touch(g, HBLKPTR(p + lb)..HBLKPTR(p + orig_sz - 1)), p + lb, orig_sz - lb, 0)

Copied(g, p, q, n) ==
  [Touch(g, {HBLKPTR(q + i) : i \in 0..(n - 1)})
     EXCEPT !.mem = [a \in Addresses |-> IF a \in q..(q + n - 1) THEN g.mem[p + a - q] ELSE @[a]]]

\* The words up to the old end are kept; further ones are zero if the kind is
\* cleared.
Resized(g, p, q, lb) ==
  LET old == live[p].words
  IN  Object(g, live[p].kind, lb,
             [i \in 0..(lb - 1) |-> IF i \in DOMAIN old THEN old[i]
                                    ELSE IF ok_init(live[p].kind) THEN 0 ELSE g.mem[q + i]], {})

Realloc(r, lb) ==
  /\ Makes("realloc") /\ h.roots[r] \in DOMAIN live /\ ~Registered(h.roots[r])
  /\ LET p       == h.roots[r]
         orig_sz == h.hdr[HBLKPTR(p)].sz
         sz      == IF orig_sz > MAXOBJGRANULES THEN OBJ_SZ_TO_BLOCKS(orig_sz) * HBLKSIZE ELSE orig_sz
     IN  \E g \in {RoundedUp(t, HBLKPTR(p), sz) : t \in Timed} :
           IF lb + EXTRA_BYTES(h) <= sz /\ 2 * lb >= sz
           THEN Done(Kept(g, p, orig_sz, lb), [live EXCEPT ![p] = Resized(g, p, p, lb)])
           ELSE GC_generic_or_special_malloc(g, live[p].kind, lb, {},
                  [fn |-> "realloc", got |-> NULL, r |-> r, p |-> p, lb |-> lb])

ReallocReturns ==
  /\ In("realloc")
  /\ LET p == frame.p
         q == frame.got
         sz == h.hdr[HBLKPTR(p)].sz
         n == IF frame.lb + EXTRA_BYTES(h) <= sz THEN frame.lb ELSE sz
     IN  IF q = NULL THEN Done(h, live)
         ELSE \E g \in {GC_free(Copied(Pinned(h, q, live[p].kind, frame.lb), p, q, n), p)} :
                Done(Placed(g, frame.r, q),
                     (q :> Resized(g, p, q, frame.lb)) @@ Restrict(live, DOMAIN live \ {p}))
  /\ UNCHANGED <<menu, calls>>

-----------------------------------------------------------------------------
\* Between the calls the program writes its objects and its roots.
Written(a, w) ==
  [p \in DOMAIN live |-> [live[p] EXCEPT !.words = [i \in DOMAIN @ |-> IF p + i = a THEN w ELSE @[i]]]]

IsLink(a) == \E e \in ToSet(h.dl \o h.ll) : e.link = a

Write(p, i, r) == Done(SetWord(h, p + i, h.roots[r]), Written(p + i, h.roots[r]))

Store(p, i, r) ==
  /\ Makes("store")
  /\ i \in DOMAIN live[p].words /\ ~IsLink(p + i)
  /\ live[p].words[i] # h.roots[r]
  /\ Write(p, i, r)

Load(r, p, i) ==
  /\ Makes("load")
  /\ i \in DOMAIN live[p].words /\ live[p].words[i] \in DOMAIN live
  /\ Done(Placed(h, r, live[p].words[i]), live)

\* To the next word of an object, at most to its end.
Advance(r) ==
  /\ Makes("advance")
  /\ Names(live, h.roots[r] + 1, TRUE) \cap Names(live, h.roots[r], TRUE) # {}
  /\ Done(Placed(h, r, h.roots[r] + 1), live)

Forget(r) ==
  /\ Makes("forget") /\ h.roots[r] # 0
  /\ Done(Placed(h, r, 0), live)

\* An integer that looks like a pointer.
Misleading(r, w) == Makes("misleading") /\ Done(Placed(h, r, w), live)

-----------------------------------------------------------------------------
\* Collections and the like.  GC_try_to_collect_general lowers the threshold
\* for unmapping while it runs if it is to unmap what it can.
Collect(g, stop, report, threshold) ==
  Called([GC_INVOKE_FINALIZERS(g) EXCEPT !.unmap_threshold = threshold], <<Try(stop)>>,
         [fn |-> "collect", got |-> NULL, report |-> report, unmap_threshold |-> h.unmap_threshold])

Gcollect == Makes("gcollect") /\ Collect(h, h.default_stop, TRUE, h.unmap_threshold)
TryToCollect ==
  Makes("try_to_collect") /\ \E g \in Timed : Collect(g, TRUE, FALSE, h.unmap_threshold)
GcollectAndUnmap == Makes("unmap") /\ Collect(h, FALSE, FALSE, IF h.USE_MUNMAP THEN 1 ELSE h.unmap_threshold)

CollectReturns ==
  /\ In("collect")
  /\ LET restored == [h EXCEPT !.unmap_threshold = frame.unmap_threshold]
         ran      == IF frame.got THEN GC_INVOKE_FINALIZERS(restored) ELSE restored
     IN  Done(IF frame.report THEN Reported(ran) ELSE ran, live)
  /\ UNCHANGED <<menu, calls>>

\* Of some calls nothing is left to be done.
Plainly == [fn |-> "plain", got |-> NULL]
PlainReturns == In("plain") /\ Done(h, live) /\ UNCHANGED <<menu, calls>>

CollectALittle ==
  Makes("collect_a_little") /\ \E g \in Timed : Called(g, <<Little(1)>>, Plainly)

\* Objects marked before the dirty bits were kept stay marked.
GC_enable_incremental_NotCollecting ==
  /\ Makes("enable_incremental") /\ ~h.find_leak /\ ~h.incremental
  /\ Done(GC_read_dirty([h EXCEPT !.incremental = TRUE]), live)

\* The dirty bits are switched on.  Objects marked by the last collection may
\* point to new ones, so if there are any there is a collection first.
GC_enable_incremental ==
  /\ Makes("enable_incremental") /\ ~h.find_leak /\ ~h.incremental
  /\ LET on == [h EXCEPT !.incremental = TRUE]
     IN  IF h.dont_gc THEN Done(on, live)
         ELSE IF h.bytes_allocd = 0 THEN Done(GC_read_dirty(on), live)
         ELSE Called(on, <<Try(FALSE)>>, [fn |-> "enable_incremental", got |-> NULL])

EnableIncrementalReturns ==
  In("enable_incremental") /\ Done(GC_read_dirty(h), live) /\ UNCHANGED <<menu, calls>>

ExpandHp(blocks) == Makes("expand_hp") /\ Done(GC_expand_hp(h, blocks * HBLKSIZE), live)

\* The collector's own tables are no roots.
OwnExcluded(g) == GC_exclude_static_roots_inner(g, GC_arrays.start, GC_arrays.end)

\* What is asked for at the start is a number of blocks, and is added to a
\* number of bytes.
GC_init ==
  /\ In("GC_init")
  /\ \E grown \in {GC_expand_hp_inner(GC_mark_init(OwnExcluded(h)), MINHINCR)} :
       Called([grown.h EXCEPT !.requested_heapsize = @ + MINHINCR], <<Try(FALSE)>>, Plainly)
  /\ UNCHANGED <<menu, calls>>

-----------------------------------------------------------------------------
\* Roots.  The program takes away or excludes only memory that it has no more
\* pointers in, as far as it relies on them, and excludes nothing twice.
AddRoots(range) ==
  /\ Makes("add_roots")
  /\ Done([GC_add_roots_inner(h, range.start, range.end, FALSE) EXCEPT !.added = @ \cup WordsOf(range)], live)

RemoveRoots(range) ==
  /\ Makes("remove_roots")
  /\ Done([GC_remove_roots_inner(h, range.start, range.end) EXCEPT !.added = @ \ WordsOf(range)], live)

ClearRoots == Makes("clear_roots") /\ Done([GC_clear_roots(h) EXCEPT !.added = {}], live)

ExcludeStaticRoots(range) ==
  /\ Makes("exclude_static_roots") /\ WordsOf(range) \cap h.excluded = {}
  /\ Done([GC_exclude_static_roots_inner(h, range.start, range.end)
             EXCEPT !.excluded = @ \cup WordsOf(range)], live)

\* A library's data are zero when it is loaded.  While a collection may be under
\* way between the calls none is unloaded.
Dlopen(l) ==
  /\ Makes("dlopen") /\ l \notin ToSet(h.loaded)
  /\ Done([h EXCEPT !.loaded = Append(@, l),
                    !.roots = [a \in Roots |-> IF a \in Memory(l) THEN 0 ELSE @[a]]], live)

Dlclose(l) ==
  /\ Makes("dlclose") /\ l \in ToSet(h.loaded) /\ ~h.incremental
  /\ Done([h EXCEPT !.loaded = SelectSeq(@, LAMBDA k : k # l)], live)

-----------------------------------------------------------------------------
\* Finalizers and links.  The entry is allocated after the table has been
\* searched, so a collection may come in between.
GC_register_finalizer(p, fn, cd, mp) ==
  LET found == {e \in ToSet(h.fo) : e.base = p}
      known == [h EXCEPT !.need_unreachable = @ \/ mp = unreachable]
      e     == CHOOSE f \in found : TRUE
  IN  IF found # {} /\ fn = "none"
      THEN Done(GC_free([known EXCEPT !.fo = SelectSeq(@, LAMBDA f : f # e)], e.at), live)
      ELSE IF found # {}
      THEN Done([SetWord(known, e.at, cd) EXCEPT !.fo = [i \in DOMAIN @ |->
                   IF @[i] = e THEN [e EXCEPT !.fn = fn, !.proc = mp] ELSE @[i]]], live)
      ELSE IF fn = "none" THEN Done(known, live)
      ELSE Called(known, <<Generic(FO_SIZE, NORMAL, {})>>,
                  [fn |-> "register_finalizer", got |-> NULL,
                   entry |-> [base |-> p, fn |-> fn, proc |-> mp], cd |-> cd])

RegisterFinalizer(p, fn, r, mp) ==
  /\ Makes("register_finalizer")
  /\ p \in {h.roots[a] : a \in Roots}
  /\ mp = unreachable => h.java_finalization
  /\ GC_register_finalizer(p, fn, h.roots[r], mp)

RegisterFinalizerReturns ==
  /\ In("register_finalizer")
  /\ LET entry == frame.entry @@ [at |-> frame.got, size |-> h.hdr[HBLKPTR(frame.entry.base)].sz]
     IN  IF frame.got = NULL THEN Done(h, live)
         ELSE Done([SetWord(SetWord(h, entry.at, frame.cd), entry.at + 1, JUNK)
                      EXCEPT !.fo = <<entry>> \o @], live)
  /\ UNCHANGED <<menu, calls>>

InvokeFinalizers == Makes("invoke_finalizers") /\ Done(GC_invoke_finalizers(h), live)

RECURSIVE GC_finalize_all(_)
GC_finalize_all(g) ==
  IF g.fo = <<>> THEN g ELSE GC_finalize_all(GC_invoke_finalizers(GC_enqueue_all_finalizers(g)))

FinalizeAll == Makes("finalize_all") /\ Done(GC_finalize_all(h), live)

\* The link is a disguised pointer in an object of the program.
GC_register_disappearing_link(table, link, obj) ==
  LET g == SetWord(h, link, JUNK)
  IN  IF \E e \in ToSet(h[table]) : e.link = link
      THEN Done([g EXCEPT ![table] = [i \in DOMAIN @ |->
                   IF @[i].link = link THEN [@[i] EXCEPT !.obj = obj] ELSE @[i]]], Written(link, JUNK))
      ELSE /\ h' = g
           /\ stack' = <<Generic(FO_SIZE, NORMAL, {}),
                         [fn |-> "register_link", got |-> NULL, table |-> table,
                          entry |-> [link |-> link, obj |-> obj]]>>
           /\ live' = Written(link, JUNK)

RegisterLink(table, p, i, obj) ==
  /\ Makes("register_link")
  /\ i \in DOMAIN live[p].words
  /\ obj \in {h.roots[a] : a \in Roots} /\ obj # p
  /\ GC_register_disappearing_link(table, p + i, obj)

RegisterLinkReturns ==
  /\ In("register_link")
  /\ LET entry == frame.entry @@ [at |-> frame.got]
     IN  IF frame.got = NULL THEN Done(h, live)
         ELSE Done([SetWord(h, entry.at + 1, JUNK) EXCEPT ![frame.table] = <<entry>> \o @], live)
  /\ UNCHANGED <<menu, calls>>

UnregisterLink(table, e) ==
  /\ Makes("unregister_link")
  /\ Done(GC_free([h EXCEPT ![table] = SelectSeq(@, LAMBDA f : f # e)], e.at), live)

\* Not to where a link of the table is registered already.
MoveLink(table, e, new_link) ==
  /\ Makes("move_link")
  /\ ~IsLink(new_link)
  /\ Done([SetWord(h, new_link, JUNK)
             EXCEPT ![table] = <<[e EXCEPT !.link = new_link]>> \o SelectSeq(@, LAMBDA f : f # e)],
          Written(new_link, JUNK))

-----------------------------------------------------------------------------
\* The prefix of a menu: allocations into roots, stores of a root in a word of
\* the object that another holds, finalizers and links.
Scripted ==
  LET c    == menu.prefix[Len(menu.prefix) + menu.budget + 1 - calls]
      p(r) == h.roots[r]
  IN  /\ calls > menu.budget /\ stack = <<>>
      /\ calls' = calls - 1
      /\ UNCHANGED menu
      /\ \/ c.op = "malloc" /\ BeginMalloc(c.at, c.kind, c.lb, {})
         \/ c.op = "store" /\ Write(p(c.at), c.i, c.from)
         \/ c.op = "finalizer" /\ GC_register_finalizer(p(c.at), c.fn, 0, c.proc)
         \/ c.op = "link" /\ GC_register_disappearing_link(c.table, p(c.at) + c.i, p(c.from))

Serve == Serving /\ live' = Remembered(h') /\ UNCHANGED <<menu, calls>>

Init ==
  /\ menu \in Menus
  /\ calls = Len(menu.prefix) + menu.budget
  /\ h = StartUp(menu.configuration)
  /\ stack = <<[fn |-> "GC_init", got |-> NULL]>>
  /\ live = [p \in {} |-> NULL]

Words == {<<p, i>> \in (DOMAIN live) \X (0..(2 * HBLKSIZE)) : i \in DOMAIN live[p].words}

Next ==
  \/ GC_init
  \/ Serve
  \/ MallocReturns \/ MallocManyReturns \/ ReallocReturns \/ CollectReturns \/ PlainReturns
  \/ EnableIncrementalReturns \/ RegisterFinalizerReturns \/ RegisterLinkReturns
  \/ Scripted
  \/ \E r \in menu.roots, lb \in menu.sizes :
       \/ \E kind \in menu.kinds : Malloc(r, kind, lb)
       \/ MallocIgnoreOffPage(r, lb)
       \/ MallocMany(r, lb)
       \/ Realloc(r, lb)
  \/ \E p \in DOMAIN live : Free(p)
  \/ \E r \in menu.roots :
       \/ Advance(r)
       \/ Forget(r)
       \/ \E w \in menu.junk : Misleading(r, w)
       \/ \E a \in Words : Store(a[1], a[2], r) \/ Load(r, a[1], a[2])
  \/ Gcollect \/ TryToCollect \/ GcollectAndUnmap
  \/ CollectALittle \/ GC_enable_incremental
  \/ \E blocks \in menu.sizes : ExpandHp(blocks)
  \/ \E p \in DOMAIN live, fn \in menu.fns, r \in menu.roots, proc \in menu.procs :
       RegisterFinalizer(p, fn, r, proc)
  \/ \E range \in menu.ranges : AddRoots(range) \/ RemoveRoots(range) \/ ExcludeStaticRoots(range)
  \/ ClearRoots
  \/ \E l \in Libraries : Dlopen(l) \/ Dlclose(l)
  \/ InvokeFinalizers \/ FinalizeAll
  \/ \E table \in {"dl", "ll"} :
       \/ \E a \in Words, obj \in DOMAIN live : RegisterLink(table, a[1], a[2], obj)
       \/ \E e \in ToSet(h[table]) :
            \/ UnregisterLink(table, e)
            \/ \E a \in Words : MoveLink(table, e, a[1] + a[2])

Spec == Init /\ [][Next]_vars

-----------------------------------------------------------------------------
\* Whatever the program can still get at, through pointers that the collector
\* is to recognise, is an object where it was, of the kind and at least the
\* length asked for, with the words last written to it, and new objects that
\* are to be cleared are zero: no sweep, unmapping, finalization, explicit free
\* or reuse of a block has touched it.
ObjectsKeepTheirContents ==
  \A p \in DOMAIN live :
    LET o == live[p]
        b == HBLKPTR(p)
    IN  /\ IsUsed(h, b) /\ IS_MAPPED(h.hdr[b])
        /\ h.hdr[b].kind = o.kind
        /\ h.hdr[b].sz >= Cardinality(DOMAIN o.words)
        /\ GC_base(h, p) = p
        /\ \A i \in DOMAIN o.words : h.mem[p + i] = o.words[i]

\* The tables of the heap agree with each other at every step, within collections
\* too: every block belongs to one used or free extent and the lists hold the
\* free ones by their sizes; free neighbours are merged, so that a large request
\* is not refused for want of merging; the counts of bytes, which decide on
\* splitting and collecting, are those of the blocks, and the size of the roots
\* that of their ranges; headers are found from every block of an object.
HeapIsSound ==
  /\ BlocksTileHeap(h)
  /\ FreeBlocksAreMerged(h)
  /\ FreeBytesAdd(h) /\ h.root_size = GC_compute_root_size(h)
  /\ LookupsAgree(h)

\* A free list runs through objects of its own kind and size, never in a
\* circle, never through an object of the program or of another list.
FreeListsAreSound ==
  LET lists == [kg \in Kinds \X Granules |-> ListFrom(h, h.freelist[kg[1]][kg[2]])]
  IN  /\ \A kg \in Kinds \X Granules :
           \A i \in DOMAIN lists[kg] :
             LET p == lists[kg][i]
             IN  /\ p \in Addresses /\ IsUsed(h, HBLKPTR(p))
                 /\ h.hdr[HBLKPTR(p)].kind = kg[1] /\ h.hdr[HBLKPTR(p)].sz = kg[2]
                 /\ HBLKDISPL(p) \in ObjectsOf(kg[2])
                 /\ p \notin DOMAIN live
                 /\ \A j \in DOMAIN lists[kg] : lists[kg][j] = p => j = i

\* The count of marked objects, by which a block is taken for empty or for
\* nearly full, is the number of its marks.
MarkCountsAgree ==
  \A b \in DOMAIN h.hdr :
    IsUsed(h, b) => h.hdr[b].n_marks = Cardinality(h.hdr[b].marks \cap ObjectsOf(h.hdr[b].sz))

\* The marker finds its stack large enough for the roots and its state as a
\* collection expects it, so that the program is never aborted.
NeverAborts == ~h.aborted

\* The invariant stated for incremental marking in gc_pmark.h: once the roots
\* are pushed, and between collections, a marked object that is not dirty
\* points only to objects that are marked or in reach of the mark stack.
MarkedOrDirty ==
  LET stacked == UNION {h.mark_stack[i].start..(h.mark_stack[i].start + h.mark_stack[i].descr - 1) :
                          i \in DOMAIN h.mark_stack}
  IN  stack = <<>> /\ h.incremental /\ h.mark_state \in {MS_NONE, MS_ROOTS_PUSHED} =>
        \A p \in DOMAIN live :
          ~PointerFree(live[p].kind) /\ GC_is_marked(h, p) =>
            \A i \in DOMAIN live[p].words :
              \/ HBLKPTR(p + i) \in h.dirty
              \/ p + i \in stacked
              \/ \A q \in Names(live, live[p].words[i], h.all_interior_pointers) :
                   GC_is_marked(h, q)

\* Finalizers run in order: while an object waits for its own, none of the
\* objects that lead to it, and have one that respects the order, is waiting or
\* registered.
FinalizersInOrder ==
  LET waiting   == {h.finalize_now[i] : i \in DOMAIN h.finalize_now}
      ordering  == {e \in waiting \cup {h.fo[i] : i \in DOMAIN h.fo} : e.proc \in {normal, ignore_self}}
      beyond(e) == LET own == live[e.base].words
                       out == UNION {Names(live, own[i], h.all_interior_pointers) : i \in DOMAIN own}
                   IN  Closure(live, h.all_interior_pointers,
                               IF e.proc = ignore_self THEN out \ {e.base} ELSE out)
  IN  \A w \in waiting : \A e \in ordering :
        e.base \in DOMAIN live /\ ~PointerFree(live[e.base].kind) => w.base \notin beyond(e)

\* A registered link stands for an object that has not been given up, in a
\* place that has not been given up.
LinksNameObjects ==
  LET lists  == {p \in Addresses : \E k \in Kinds, g \in Granules :
                   p \in ToSet(ListFrom(h, h.freelist[k][g]))}
      kept(p) == /\ IsUsed(h, HBLKPTR(p)) /\ GC_base(h, p) = p /\ p \notin lists
                 /\ ~(\E k \in Kinds, g \in Granules :
                        HBLKPTR(p) \in ToSet(h.reclaim_list[k][g]) /\ ~GC_is_marked(h, p))
  IN  \A table \in {"dl", "ll"} : \A i \in DOMAIN h[table] :
        LET e == h[table][i]
        IN  /\ kept(e.obj) /\ kept(e.at)
            /\ GC_base(h, e.link) # NULL /\ kept(GC_base(h, e.link))
=============================================================================
