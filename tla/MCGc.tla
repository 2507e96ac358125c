-------------------------------- MODULE MCGc --------------------------------
(***************************************************************************)
(* Programs for GcClient: each calls the part of the collector that it is  *)
(* named for.                                                              *)
(***************************************************************************)
EXTENDS GcClient

MCStackRoots == {210, 211}
MCStaticRoots == {200, 224, 232}

\* The program's data end with the root 200 and that of the library with 224;
\* the root 232 is in memory that neither has.
MCLibraries == {"lib"}
MCHeaders ==
  [l \in {"main", "lib"} |->
     IF l = "main" THEN <<[type |-> "PT_LOAD", start |-> 197, end |-> 201],
                          [type |-> "PT_GNU_RELRO", start |-> 197, end |-> 198]>>
     ELSE <<[type |-> "PT_LOAD", start |-> 220, end |-> 225],
            [type |-> "PT_GNU_RELRO", start |-> 221, end |-> 222]>>]
MCLoadSegs == [start |-> 198, end |-> 199]
MCArrays == [start |-> 199, end |-> 200]

Plain ==
  [all_interior_pointers |-> TRUE, incremental |-> FALSE, find_leak |-> FALSE, dont_gc |-> FALSE,
   dont_expand |-> FALSE, use_entire_heap |-> FALSE, USE_MUNMAP |-> FALSE, unmap_threshold |-> 1,
   downwards |-> FALSE, gap |-> 0, got |-> 0, max_heapsize |-> 0, time_limit |-> FALSE,
   default_stop |-> FALSE, max_retries |-> 0, java_finalization |-> FALSE,
   finalize_on_demand |-> FALSE, keep |-> 211, no_dls |-> FALSE,
   has_static_roots |-> {"main", "lib"}]

Of(r, kind, lb) == [op |-> "malloc", at |-> r, kind |-> kind, lb |-> lb]
Small(r) == Of(r, NORMAL, 1)
Pointing(r, i, from) == [op |-> "store", at |-> r, i |-> i, from |-> from]
Finalized(r, fn, proc) == [op |-> "finalizer", at |-> r, fn |-> fn, proc |-> proc]
Linked(table, r, i, from) == [op |-> "link", table |-> table, at |-> r, i |-> i, from |-> from]

Program(configuration, prefix, called, sizes, budget) ==
  [configuration |-> configuration, prefix |-> prefix, calls |-> called, sizes |-> sizes,
   budget |-> budget, roots |-> {200, 210, 211}, ranges |-> {}, kinds |-> {NORMAL}, junk |-> {}, fns |-> {}, procs |-> {},
   patience |-> {-1}]

\* Small objects, waiting blocks and explicit deallocation.
Sweeping ==
  Program(Plain, <<Small(200), Small(210)>>,
          {"malloc", "malloc_many", "free", "realloc", "forget", "store", "gcollect"}, {1}, 3)

\* Blocks merged, split, unmapped and mapped again.
Unmapping ==
  [Program([Plain EXCEPT !.USE_MUNMAP = TRUE], <<Of(200, NORMAL, 4), Of(210, NORMAL, 9)>>,
           {"malloc", "ignore_off_page", "free", "unmap", "expand_hp"}, {4, 19}, 4)
     EXCEPT !.roots = {210, 211}]

\* Partial collections, done a little at a time while the program goes on.
Incremental ==
  [Program([Plain EXCEPT !.incremental = TRUE, !.time_limit = TRUE],
           <<Small(200), Small(210), Pointing(200, 0, 210), Small(210)>>,
           {"malloc", "store", "load", "forget", "collect_a_little"}, {1}, 4)
     EXCEPT !.roots = {200, 210}, !.patience = {-1, 2}]

\* The same with large objects, which ask for more of it at a time.
IncrementalLarge == [Incremental EXCEPT !.sizes = {6}, !.calls = {"malloc", "forget"}, !.budget = 3]

\* The dirty bits switched on in the middle of a program that has garbage.
Switching ==
  [Program(Plain, <<Small(200), Small(210), Pointing(200, 0, 210), Small(210)>>,
           {"malloc", "store", "forget", "collect_a_little", "enable_incremental", "realloc"}, {1}, 4)
     EXCEPT !.roots = {200, 210}]

\* False pointers, with interior ones not recognised except from the stack.
Misled ==
  [Program([Plain EXCEPT !.all_interior_pointers = FALSE, !.gap = 1], <<Small(200), Of(210, PTRFREE, 6)>>,
           {"malloc", "misleading", "advance", "forget", "gcollect"}, {2, 6}, 3)
     EXCEPT !.roots = {200, 210}, !.kinds = {NORMAL, PTRFREE}, !.junk = {24, 33}]

\* Objects that only an explicit call frees.
Uncollected ==
  [Program([Plain EXCEPT !.downwards = TRUE, !.got = NBLOCKS + 1],
           <<Of(200, UNCOLLECTABLE, 1), Of(210, AUNCOLLECTABLE, 6)>>,
           {"malloc", "free", "realloc", "forget", "gcollect"}, {1, 6}, 3)
     EXCEPT !.roots = {200, 210}, !.kinds = {UNCOLLECTABLE, AUNCOLLECTABLE}]

\* Collections given up, and gone on with if they are incremental.
Interrupted ==
  [Program([Plain EXCEPT !.default_stop = TRUE], <<Small(200), Small(210)>>,
           {"malloc", "store", "forget", "try_to_collect"}, {1}, 4)
     EXCEPT !.roots = {200, 210}, !.patience = {-1, 1, 3}]

InterruptedLater ==
  [Interrupted EXCEPT !.configuration.incremental = TRUE, !.configuration.time_limit = TRUE,
                      !.prefix = @ \o <<Pointing(210, 0, 200), Pointing(210, 1, 210)>>]

\* More pointers than the mark stack holds, to objects that point on.
Overflowing ==
  LET leaf(i) == <<Small(210), Pointing(200, i, 210), Small(211), Pointing(210, 0, 211)>>
  IN  [Program([Plain EXCEPT !.all_interior_pointers = FALSE],
               <<Of(200, NORMAL, 8)>> \o leaf(0) \o leaf(1) \o leaf(2) \o leaf(3)
                 \o leaf(4) \o leaf(5) \o leaf(6) \o leaf(7),
               {"malloc", "forget", "gcollect", "load"}, {1}, 3)
         EXCEPT !.roots = {210, 211}]

\* A heap that may not grow, or only so far.
Bounded ==
  [Program([Plain EXCEPT !.max_heapsize = 5 * HBLKSIZE, !.use_entire_heap = TRUE], <<Small(200), Of(210, NORMAL, 6)>>,
           {"malloc", "forget", "malloc_many", "realloc"}, {1, 6}, 4)
     EXCEPT !.roots = {200, 210}]
Fixed == [Bounded EXCEPT !.configuration.dont_expand = TRUE]
Uncollecting == [Bounded EXCEPT !.configuration.dont_gc = TRUE]
\* The collections asked for instead of growing are given up.
Refused == [Bounded EXCEPT !.configuration.default_stop = TRUE, !.configuration.max_retries = 1,
                           !.patience = {0}, !.calls = {"malloc", "forget"}]

\* Finalizers in both orders, run at once or on demand.
Finalizing ==
  [Program(Plain, <<Small(200), Small(210), Pointing(200, 0, 210), Small(211), Pointing(210, 0, 211),
                    Finalized(200, "look", normal), Finalized(210, "keep", normal)>>,
           {"register_finalizer", "invoke_finalizers", "store", "load", "forget", "gcollect"}, {1}, 4)
     EXCEPT !.configuration.finalize_on_demand = TRUE, !.roots = {200, 210},
            !.fns = {"none", "keep"}, !.procs = {ignore_self}]
AtOnce ==
  [Finalizing EXCEPT !.configuration.finalize_on_demand = FALSE, !.fns = {"look"}, !.procs = {no_order},
                     !.calls = @ \cup {"finalize_all"}]
Java == [Finalizing EXCEPT !.configuration.java_finalization = TRUE, !.procs = {unreachable}]

\* Links of both sorts to objects with and without finalizers.
Linking ==
  [Program(Plain, <<Small(200), Small(210), Linked("dl", 200, 0, 210), Small(211),
                    Linked("ll", 211, 0, 210), Finalized(210, "look", normal)>>,
           {"register_link", "unregister_link", "move_link", "malloc", "forget", "gcollect"}, {1}, 3)
     EXCEPT !.roots = {210, 211}]

\* Ranges added, taken away and excluded.
FromTo(start, end) == [start |-> start, end |-> end]
Rooted ==
  [Program(Plain, <<Small(200), Small(210)>>,
           {"malloc", "forget", "add_roots", "remove_roots", "exclude_static_roots", "clear_roots", "gcollect"}, {1}, 5)
     EXCEPT !.roots = {200, 232}, !.ranges = {FromTo(230, 233), FromTo(230, 232), FromTo(231, 234)}]

\* A library that comes and goes.
Loading ==
  [Program(Plain, <<Small(200), Small(210)>>,
           {"malloc", "store", "forget", "dlopen", "dlclose", "add_roots", "clear_roots", "gcollect"}, {1}, 5)
     EXCEPT !.roots = {224, 232}, !.ranges = {FromTo(230, 234)}]

\* Only the roots that the program names, or only the libraries it names.
ByHand == [Rooted EXCEPT !.configuration.no_dls = TRUE, !.budget = 4]
Filtered == [Loading EXCEPT !.configuration.has_static_roots = {"main"}, !.budget = 4]

MCMenus == {Sweeping, Unmapping, Incremental, IncrementalLarge, Switching, Misled, Uncollected,
            Interrupted, InterruptedLater, Overflowing, Bounded, Fixed, Uncollecting, Refused,
            Finalizing, AtOnce, Java, Linking, Rooted, Loading, ByHand, Filtered}
=============================================================================
