----------------------------- MODULE GcFinalize -----------------------------
(***************************************************************************)
(* finalize.c within a collection: links to objects that are no longer     *)
(* reachable disappear, and unreachable objects with a finalizer are       *)
(* queued, those that other such objects point to being spared.  A table   *)
(* is a sequence of entries, its hash chains taken for one with the newest *)
(* in front.  Every entry is an object of the heap at entry.at; its second *)
(* word is the object while that is queued and JUNK while it is hidden.    *)
(***************************************************************************)
EXTENDS GcMark

CONSTANT FO_SIZE        \* granules of an entry

normal == "normal"
ignore_self == "ignore_self"
no_order == "no_order"                    \* GC_null_finalize_mark_proc
unreachable == "unreachable"

InitialTables ==
  [fo |-> <<>>, dl |-> <<>>, ll |-> <<>>, finalize_now |-> <<>>, bytes_finalized |-> 0,
   need_unreachable |-> FALSE]

\* One word of the heap or of the roots written by the program or for it.
SetWord(h, a, w) ==
  IF a \in Roots THEN [h EXCEPT !.roots[a] = w]
  ELSE [Touch(h, {HBLKPTR(a)}) EXCEPT !.mem[a] = w]

-----------------------------------------------------------------------------
\* The mark procedures.
GC_ignore_self_finalize_mark_proc(h, p) ==
  LET sz   == h.hdr[HBLKPTR(p)].sz
      own  == p..(p + sz - 1)
      push(g, a) == LET w == g.mem[a]
                    IN  IF w \in own \/ ~Plausible(g, w) THEN g ELSE PUSH_CONTENTS(g, w)
  IN  IF PointerFree(h.hdr[HBLKPTR(p)].kind) THEN h
      ELSE FoldLeft(push, h, Ascending(own))

MarkProc(h, p, proc) ==
  CASE proc = no_order -> h
    [] proc = ignore_self -> GC_ignore_self_finalize_mark_proc(h, p)
    [] OTHER -> PUSH_OBJ(h, p, h.hdr[HBLKPTR(p)])

RECURSIVE Drained(_), Marked(_)
Drained(h) == IF h.mark_stack = <<>> THEN h ELSE Drained(GC_mark_from(h))
Marked(some) == IF some.result \/ some.h.aborted THEN some.h ELSE Marked(GC_mark_some(some.h))

\* What p points to is marked, and p as well if the mark stack overflows.
MarkedToo(h, p) ==
  IF h.mark_state = MS_NONE THEN h ELSE Marked([h |-> GC_set_mark_bit(h, p), result |-> FALSE])
GC_MARK_FO(h, p, proc) == MarkedToo(Drained(MarkProc(h, p, proc)), p)

-----------------------------------------------------------------------------
\* Entries that meet the condition leave the table; their marks are cleared.
Without(h, table, Gone(_)) ==
  LET gone == {h[table][i].at : i \in {j \in DOMAIN h[table] : Gone(h[table][j])}}
  IN  [FoldSet(LAMBDA p, g : GC_clear_mark_bit(g, p), h, gone)
         EXCEPT ![table] = SelectSeq(@, LAMBDA e : ~Gone(e))]

GC_make_disappearing_links_disappear(h, table) ==
  LET gone    == {h[table][i].link : i \in {j \in DOMAIN h[table] :
                                              ~GC_is_marked(h, h[table][j].obj)}}
      cleared == FoldSet(LAMBDA a, g : SetWord(g, a, 0), h, gone)
  IN  Without(cleared, table, LAMBDA e : ~GC_is_marked(h, e.obj))

\* The links whose object is gone taken a second time instead.
GC_remove_dangling_disappearing_links_ByObject(h, table) ==
  Without(h, table, LAMBDA e : ~GC_is_marked(h, e.obj))

\* The links whose own object is gone.
GC_remove_dangling_disappearing_links(h, table) ==
  LET dangling(e) == LET r == IF e.link \in Addresses THEN GC_base(h, e.link) ELSE NULL
                     IN  r # NULL /\ ~GC_is_marked(h, r)
  IN  Without(h, table, dangling)

\* Queueing the objects still unmarked, and reviving them if the order of
\* finalizers is the client's own business.
Enqueued(h) ==
  LET enqueue(g, e) ==
        LET kept == IF g.java_finalization THEN g ELSE GC_set_mark_bit(g, e.base)
        IN  IF GC_is_marked(g, e.base) THEN g
            ELSE [SetWord(kept, e.at + 1, e.base)
                    EXCEPT !.fo = SelectSeq(@, LAMBDA f : f # e),
                           !.finalize_now = <<e>> \o @,
                           !.bytes_finalized = @ + e.size + FO_SIZE]
  IN  FoldLeft(enqueue, [h EXCEPT !.bytes_finalized = 0], h.fo)

\* With java_finalization: all that queued objects point to is marked too, and
\* those to be finalized only when unreachable go back if it includes them.
JavaMarked(h) ==
  LET mark(g, e) ==
        IF GC_is_marked(g, e.base) \/ e.proc = unreachable THEN g
        ELSE GC_set_mark_bit(IF e.proc = no_order THEN GC_MARK_FO(g, e.base, normal) ELSE g, e.base)
      revive(g, e) ==
        IF e.proc # unreachable THEN g
        ELSE IF ~GC_is_marked(g, e.base) THEN GC_set_mark_bit(g, e.base)
        ELSE [SetWord(g, e.at + 1, JUNK)
                EXCEPT !.finalize_now = SelectSeq(@, LAMBDA f : f # e),
                       !.fo = <<e>> \o @,
                       !.bytes_finalized = @ - (e.size + FO_SIZE)]
      revived(g) == IF g.need_unreachable THEN FoldLeft(revive, g, g.finalize_now) ELSE g
  IN  IF ~h.java_finalization THEN h ELSE revived(FoldLeft(mark, h, h.finalize_now))

\* Nothing marked: unreachable objects are queued in any order.
FinalizablesMarked_Skipped(h) == h

\* What the objects with a finalizer point to is marked.
FinalizablesMarked(h) ==
  LET mark(g, e) == IF GC_is_marked(g, e.base) THEN g ELSE GC_MARK_FO(g, e.base, e.proc)
  IN  FoldLeft(mark, h, h.fo)

\* Long links outlive the queueing of their object.
GC_finalize(h) ==
  GC_remove_dangling_disappearing_links(
    GC_make_disappearing_links_disappear(
      GC_remove_dangling_disappearing_links(
        JavaMarked(Enqueued(FinalizablesMarked(
          GC_make_disappearing_links_disappear(h, "dl")))), "dl"), "ll"), "ll")

\* Every object that has a finalizer is queued, reachable or not.
GC_enqueue_all_finalizers(h) ==
  LET enqueue(g, e) ==
        [SetWord(GC_set_mark_bit(GC_MARK_FO(g, e.base, normal), e.base), e.at + 1, e.base)
           EXCEPT !.fo = SelectSeq(@, LAMBDA f : f # e),
                  !.finalize_now = <<e>> \o @,
                  !.bytes_finalized = @ + e.size + FO_SIZE]
  IN  FoldLeft(enqueue, [h EXCEPT !.bytes_finalized = 0], h.fo)
=============================================================================
