------------------------------ MODULE GcRoots ------------------------------
(***************************************************************************)
(* The table of static roots and that of its exclusions (mark_rts.c), and  *)
(* the registration of the segments of the program and of its dynamic      *)
(* libraries that is done anew before every marking (dyn_load.c, the part  *)
(* with dl_iterate_phdr).  A table is a sequence of ranges [start, end),   *)
(* in words; addresses are those of words, so nothing is left to round.    *)
(***************************************************************************)
EXTENDS GcHeaders, SequencesExt

CONSTANTS
  MAX_ROOT_SETS,         \* also the limit of load_segs
  MAX_EXCLUSIONS,
  MainProgram, Libraries,
                         \* the program itself and what it may load
  Headers,               \* of each of them, its segments that may be written
  GC_arrays, load_segs   \* static data of the collector, in that of the program

ASSUME RootTables ==
  /\ MAX_ROOT_SETS \in Nat \ {0} /\ MAX_EXCLUSIONS \in Nat \ {0}
  /\ DOMAIN Headers = {MainProgram} \cup Libraries
  /\ \A l \in DOMAIN Headers : \A i \in DOMAIN Headers[l] :
       Headers[l][i].type \in {"PT_LOAD", "PT_GNU_RELRO"} /\ Headers[l][i].start < Headers[l][i].end

\* What is loaded is listed in the order of dl_iterate_phdr.  The ranges that
\* the program has added or excluded are its own record of its calls.
InitialRoots ==
  [static_roots |-> <<>>, excl_table |-> <<>>, excluded_segs |-> FALSE, root_size |-> 0,
   loaded |-> <<MainProgram>>, added |-> {}, excluded |-> {}]

WordsOf(range) == range.start..(range.end - 1)

GC_compute_root_size(h) ==
  FoldSeq(+, 0, [i \in DOMAIN h.static_roots |-> Cardinality(WordsOf(h.static_roots[i]))])

-----------------------------------------------------------------------------
\* GC_static_roots.  No two entries begin at the same word.
GC_roots_present(h, b) == {i \in DOMAIN h.static_roots : h.static_roots[i].start = b}

\* A range that begins where one of the table does is that one, made longer if
\* need be.
GC_add_roots_inner(h, b, e, tmp) ==
  LET present == GC_roots_present(h, b)
      old     == CHOOSE i \in present : TRUE
      old_end == h.static_roots[old].end
  IN  IF b >= e THEN h
      ELSE IF present # {} /\ e <= old_end THEN h
      ELSE IF present # {}
      THEN [h EXCEPT !.static_roots[old].end = e, !.root_size = @ + e - old_end]
      ELSE IF Len(h.static_roots) = MAX_ROOT_SETS THEN [h EXCEPT !.aborted = TRUE]
      ELSE [h EXCEPT !.static_roots = Append(@, [start |-> b, end |-> e, tmp |-> tmp]),
                     !.root_size = @ + e - b]

GC_clear_roots(h) == [h EXCEPT !.static_roots = <<>>, !.root_size = 0]

\* The last entry takes the place of the one removed, and is looked at next.
GC_remove_root_at_pos(h, i) ==
  LET roots == h.static_roots
  IN  [h EXCEPT !.static_roots = Front([roots EXCEPT ![i] = Last(roots)]),
                !.root_size = @ - (roots[i].end - roots[i].start)]

RootsWithout(h, gone) ==
  LET step(acc, r) == IF acc.h.static_roots[acc.i] \in gone
                      THEN [acc EXCEPT !.h = GC_remove_root_at_pos(@, acc.i)]
                      ELSE [acc EXCEPT !.i = @ + 1]
  IN  FoldLeft(step, [h |-> h, i |-> 1], h.static_roots).h

GC_remove_tmp_roots(h) == RootsWithout(h, {r \in ToSet(h.static_roots) : r.tmp})
GC_remove_roots_inner(h, b, e) ==
  RootsWithout(h, {r \in ToSet(h.static_roots) : r.start >= b /\ r.end <= e})

-----------------------------------------------------------------------------
\* GC_excl_table, in ascending order: the index of the first range that has an
\* address from a on, NULL if there is none.
GC_next_exclusion(h, a) ==
  LET later == {i \in DOMAIN h.excl_table : h.excl_table[i].end > a}
  IN  IF later = {} THEN NULL ELSE Min(later)

GC_exclude_static_roots_inner(h, start, finish) ==
  LET next == GC_next_exclusion(h, start)
      at   == IF next = NULL THEN Len(h.excl_table) + 1 ELSE next
  IN  IF next # NULL /\ h.excl_table[next].start < finish THEN [h EXCEPT !.aborted = TRUE]
      ELSE IF next # NULL /\ h.excl_table[next].start = finish
      THEN [h EXCEPT !.excl_table[next].start = start]
      ELSE IF Len(h.excl_table) = MAX_EXCLUSIONS THEN [h EXCEPT !.aborted = TRUE]
      ELSE [h EXCEPT !.excl_table = InsertAt(@, at, [start |-> start, end |-> finish])]

\* What is left of the words from bottom to below top, as GC_push_conditional
\* gets it: a sequence of sets of words.
RECURSIVE WithExclusions(_, _, _)
WithExclusions(h, bottom, top) ==
  LET next == GC_next_exclusion(h, bottom)
      excl == h.excl_table[next]
  IN  IF bottom >= top THEN <<>>
      ELSE IF next = NULL \/ excl.start >= top THEN <<bottom..(top - 1)>>
      ELSE (IF excl.start > bottom THEN <<bottom..(excl.start - 1)>> ELSE <<>>)
             \o WithExclusions(h, excl.end, top)

-----------------------------------------------------------------------------
\* A header of a loaded object.  What is made read-only after the relocation is
\* cut out of the segment around it, the last one listed that has its start;
\* a second such cut is not made.
GC_register_dynlib_callback(segs, p) ==
  LET around == {j \in DOMAIN segs : p.start \in WordsOf(segs[j])}
      j      == Max(around)
      cut    == [start |-> segs[j].start, end |-> p.start, start2 |-> p.end, end2 |-> segs[j].end]
  IN  IF p.type = "PT_LOAD"
      THEN Append(segs, [start |-> p.start, end |-> p.end, start2 |-> 0, end2 |-> 0])
      ELSE IF around = {} \/ segs[j].start2 # 0 THEN segs
      ELSE [segs EXCEPT ![j] = cut]

\* The segments that may be written, of the objects that the program's filter
\* lets through; their list is itself excluded, once.
GC_register_dynamic_libraries(h) ==
  LET own     == GC_exclude_static_roots_inner(h, load_segs.start, load_segs.end)
      begun   == IF h.excluded_segs THEN h ELSE [own EXCEPT !.excluded_segs = TRUE]
      kept    == SelectSeq(h.loaded, LAMBDA l : l \in h.has_static_roots)
      segs    == FoldLeft(GC_register_dynlib_callback, <<>>,
                          FlattenSeq([i \in DOMAIN kept |-> Headers[kept[i]]]))
      both(g, s) == GC_add_roots_inner(GC_add_roots_inner(g, s.start, s.end, TRUE),
                                       s.start2, s.end2, TRUE)
  IN  IF Len(segs) > MAX_ROOT_SETS THEN [h EXCEPT !.aborted = TRUE]
      ELSE FoldLeft(both, begun, segs)

GC_cond_register_dynamic_libraries(h) ==
  IF h.no_dls THEN GC_remove_tmp_roots(h)
  ELSE GC_register_dynamic_libraries(GC_remove_tmp_roots(h))

-----------------------------------------------------------------------------
\* The memory of a loaded object, and the part of it that the program writes.
Memory(l) == UNION {WordsOf(p) : p \in ToSet(Headers[l])}
Data(l) ==
  Memory(l) \ UNION {WordsOf(p) : p \in {q \in ToSet(Headers[l]) : q.type = "PT_GNU_RELRO"}}

\* To read there is an error.
Unloaded(h) == UNION {Memory(l) : l \in Libraries \ ToSet(h.loaded)}

\* Where the program may have its static pointers: in what the collector finds
\* for itself and in what it was told of, but for what it was told to leave out.
Relied(h) ==
  LET found == IF h.no_dls THEN {} ELSE ToSet(h.loaded) \cap h.has_static_roots
  IN  (h.added \cup UNION {Data(l) : l \in found}) \ h.excluded
=============================================================================
