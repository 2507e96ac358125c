----------------------------- MODULE MCGcBlocks -----------------------------
(***************************************************************************)
(* Settings for GcBlocks: with and without memory that can be unmapped,    *)
(* and a heap that grows from either end.                                  *)
(***************************************************************************)
EXTENDS GcBlocks

Plain ==
  [all_interior_pointers |-> TRUE, incremental |-> FALSE, find_leak |-> FALSE, dont_gc |-> FALSE,
   use_entire_heap |-> FALSE, USE_MUNMAP |-> FALSE, unmap_threshold |-> 0, max_heapsize |-> 0,
   downwards |-> FALSE, gap |-> 0, got |-> 0]

Calling(configuration, sizes) ==
  [configuration |-> configuration, sizes |-> sizes, kinds |-> {NORMAL},
   false_pointers |-> {}, collections |-> 0, allocd |-> 0]

\* Blocks of one to three, while collections become due or not.
Cutting == [Calling(Plain, {1, 4, 5}) EXCEPT !.allocd = 1, !.kinds = {PTRFREE}]

\* Black-listed blocks cut off or dropped.
Avoiding ==
  [Calling([Plain EXCEPT !.all_interior_pointers = FALSE, !.use_entire_heap = TRUE,
                         !.max_heapsize = 8, !.downwards = TRUE, !.got = NBLOCKS + 1], {1, 4})
     EXCEPT !.false_pointers = {4}, !.allocd = 1]

\* Blocks unmapped, merged and mapped again.
Unmapping ==
  [Calling([Plain EXCEPT !.USE_MUNMAP = TRUE, !.unmap_threshold = 1, !.max_heapsize = 8], {2, 4})
     EXCEPT !.collections = 2, !.allocd = 2]

MCCallers == {Cutting, Avoiding, Unmapping}
=============================================================================
