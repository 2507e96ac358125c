------------------------------ MODULE GcBlocks ------------------------------
(***************************************************************************)
(* The block allocator by itself, under callers that may do anything: get  *)
(* a block for an object of any size and kind, give back any block in use, *)
(* let the heap grow, merge and unmap free blocks, and between two such    *)
(* calls count collections, note false pointers and change the counters    *)
(* from which the allocator decides where to cut.  The rest of the         *)
(* collector calls it in some of these orders (GcObjects, GcMalloc).       *)
(***************************************************************************)
EXTENDS GcHblk

CONSTANT Callers
\* Sorts of callers: their settings, which do not change; the granules and the
\* kinds of the objects they ask for; the blocks that something which is no
\* pointer points to; and, as bounds, how many collections they count and the
\* most granules that they allocate and lose between two of them.

ASSUME CallersAre ==
  \A c \in Callers :
    /\ DOMAIN c.configuration =
         {"all_interior_pointers", "incremental", "find_leak", "dont_gc", "use_entire_heap",
          "USE_MUNMAP", "unmap_threshold", "max_heapsize", "downwards", "gap", "got"}
    /\ c.configuration.gap \in Nat
    /\ c.configuration.got \in IF c.configuration.downwards THEN 0..(NBLOCKS + 1) ELSE 0..NBLOCKS
    /\ c.sizes \subseteq Nat \ {0} /\ c.kinds \subseteq Kinds
    /\ c.false_pointers \subseteq Blocks
    /\ c.collections \in Nat /\ c.allocd \in Nat

VARIABLES h, caller

vars == <<h, caller>>

\* The fields of two parts of the heap.
With(f, g) == [x \in DOMAIN f \cup DOMAIN g |-> IF x \in DOMAIN f THEN f[x] ELSE g[x]]

Counters ==
  [gc_no |-> 0, last_gc_no |-> 0, last_min_bytes_allocd |-> 0, fail_count |-> 0,
   bytes_allocd |-> 0, bytes_dropped |-> 0, bytes_freed |-> 0,
   finalizer_bytes_freed |-> 0, bytes_finalized |-> 0,
   non_gc_bytes |-> 0, non_gc_bytes_at_gc |-> 0,
   root_size |-> 0, composite_in_use |-> 0, atomic_in_use |-> 0,
   old_stack_bl |-> {}, incomplete_stack_bl |-> {},
   old_normal_bl |-> {}, incomplete_normal_bl |-> {},
   black_list_spacing |-> MINHINCR * HBLKSIZE, aborted |-> FALSE]

StartUp(configuration) ==
  With(configuration, With(InitialHeap, With(InitialHblks, With(NoHeaders, Counters))))

Init == caller \in Callers /\ h = StartUp(caller.configuration)

-----------------------------------------------------------------------------
\* The calls of GC_allochblk in GC_new_hblk, for a block of small objects, and
\* in GC_alloc_large.
Allocate(sz, kind, flags) ==
  /\ h.bytes_dropped <= caller.allocd
  /\ flags # {} => sz > MAXOBJGRANULES
  /\ LET found == GC_allochblk(h, sz, kind, flags)
     IN  h' = IF found.result = NULL THEN found.h
              ELSE Counted(found.h, OBJ_SZ_TO_BLOCKS(sz))

\* The calls of GC_freehblk in the sweep and in GC_free.
Free(b) ==
  /\ IsUsed(h, b)
  /\ h' = GC_freehblk(Uncounted(h, OBJ_SZ_TO_BLOCKS(h.hdr[b].sz)), b)

Expand(n) == h' = GC_expand_hp_inner(h, n).h

\* With memory that can be unmapped: when no block was found for a large
\* object, and after a collection.
Merge == h.USE_MUNMAP /\ h' = GC_merge_unmapped(h)
UnmapOld == h.USE_MUNMAP /\ h' = GC_unmap_old(h)

\* What a collection does besides: it begins with the promotion of the black
\* lists, is counted when all is marked, and resets the counters at its end.
Promote == h' = GC_promote_black_lists(h)
Mislead(b) ==
  h' \in {GC_add_to_black_list_normal(h, b), GC_add_to_black_list_stack(h, b)}
CountCollection == h.gc_no < caller.collections /\ h' = [h EXCEPT !.gc_no = @ + 1]
Reset == h' = [h EXCEPT !.bytes_allocd = 0, !.bytes_dropped = 0]

\* Objects are allocated from a free list.
Use(n) ==
  /\ h.bytes_allocd + n <= caller.allocd
  /\ h' = [h EXCEPT !.bytes_allocd = @ + n]

Next ==
  /\ \/ \E sz \in caller.sizes, kind \in caller.kinds, flags \in SUBSET {"IGNORE_OFF_PAGE"} :
          Allocate(sz, kind, flags)
     \/ \E b \in Blocks : Free(b)
     \/ \E n \in Blocks : Expand(n)
     \/ Merge \/ UnmapOld
     \/ Promote \/ CountCollection \/ Reset
     \/ \E b \in caller.false_pointers : Mislead(b)
     \/ \E n \in caller.sizes : Use(n)
  /\ UNCHANGED caller

Spec == Init /\ [][Next]_vars

-----------------------------------------------------------------------------
\* Whatever the order of the calls, every block of the heap belongs to one
\* header, and the free ones stand on the one list for their size.
Tiled == BlocksTileHeap(h)

\* Unless blocks may be unmapped, freeing leaves no two free blocks side by side.
Merged == FreeBlocksAreMerged(h)

\* The header of an object is found from each of its blocks, and the walks over
\* the index find every block.
BlocksFound == LookupsAgree(h)
=============================================================================
