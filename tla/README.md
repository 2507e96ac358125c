# A verification of the mcsv CTL model checker

The repository is a symbolic CTL model checker in C. Its command line gives
postfix formulas for the initial states, the transition relation, a CTL
property and the states one expects to satisfy it; the program builds BDDs with
CUDD, explores the reachable states, computes the states that satisfy the
property, and prints two answers: are the reachable satisfying states the
expected ones, and do all initial states satisfy the property.

The repository also carries the Boehm garbage collector, gc-7.4.2, which
`makefile.new` links into the program. It is by far the larger part
of the source and holds most of what is hard to test.

This directory holds TLA+ modules that model both, TLC configurations that check
them on small instances, and TLAPS proofs, for every instance, of the model
checker's results, of the collector's block allocator, of the protocol by which it stops
the threads, and of the one by which its parallel markers share their work. The model checker is sequential and keeps nothing on
disk: what makes it hard is loops that must stop at the right place, bookkeeping
that several phases share, and tests of the input that are weaker than what later
phases rely on. The collector is a set of data structures that must agree with
each other in every state in which any call may find them, and, when it is built for
threads, a protocol of signals, locks and counters.

## The system

| component | source | state | operations | uses |
|---|---|---|---|---|
| tokenisation | `tokenisation.c`, `.h` | none kept | `tokenize`, `getUniqVars`, `isOperator` | called by `main`, `check` |
| operand stack | `ddStack.c`, `.h` | `top`, `capacity`, `stack[]` | init, push, pop | one per formula being parsed |
| formula parser | `bddFromPrefix.c` | stack, `recentNode`; the caller's array of variables | one turn per token | CUDD; the array is shared by three calls |
| CTL parser | `check` in `ctlmc.c` | stack, `recentNode`, `_RECENT_CTLPROP`, `_EGPROP` | one turn per token | calls the fixpoint operators |
| fixpoint operators | `EF` .. `AU` in `ctlmc.c` | `prev`, `current` | one update per turn | call `EX`, `AX` |
| pre-image, image | `EX` in `ctlmc.c`, `translatedImage` in `aux.c` | one BDD | conjoin, quantify each variable, swap | CUDD; the paired arrays of `main` |
| set-up | `main.c:87-181` | the array of variables, three roots, the paired arrays | parse three formulas, split and pair the variables | parser, `find` |
| reachability | `main.c:182-192` | `prevReachable`, `image`, `reachable` | one image per turn | `translatedImage` |
| verdicts | `main.c:194-219` | the satisfying states, two intersections | two comparisons | `check` |
| dump, shutdown | `main.c:232-264` | | DOT file, dereferences | CUDD |

All calls are direct and all failures end the process: `exit(2)` for uneven
numbers of primed and unprimed variables and for a name that is too long, `exit(3)`
for a refused formula or a failed swap, an assertion for an expected formula with
new variables. CUDD is external: the repository does not hold it.

The collector (paths below `gc-7.4.2/`):

| component | source | state | operations | uses |
|---|---|---|---|---|
| headers | `headers.c`, `gc_hdrs.h` | the two-level table from addresses to block headers | install, remove, forwarding counts, next/previous block | asked by every other part |
| heap blocks | `allchblk.c`, `alloc.c` | lists of free blocks, byte counts, heap sections | allocate, split, merge, free, unmap, remap, expand | headers, black lists |
| policy, black lists | `alloc.c`, `blacklst.c` | counters since the last collection, sets of false references | decide when to collect; note and ask about an address | |
| objects | `reclaim.c`, `new_hblk.c`, `malloc.c` | free lists per kind and size, blocks waiting for a sweep, mark bits | build, sweep, free | heap blocks |
| roots | `mark_rts.c`, `dyn_load.c` | the table of static roots, that of its exclusions, what is loaded | add, remove, clear, exclude; register the libraries before each marking | marker, policy |
| marker | `mark.c`, `mark_rts.c` | mark stack, mark state, place of the scan | `GC_mark_some`, `GC_mark_from`, push of roots and dirty blocks | headers, black lists |
| finalization | `finalize.c` | tables of finalizers, short and long links; the queue | register, unregister, move; the pass after marking; run the queue | marker, allocation |
| collections | `alloc.c`, `misc.c` | state of a collection, attempts, deficit | full, partial, incremental, abandoned; expand or fail | all of the above |
| allocation | `malloc.c`, `mallocx.c` | byte counts | `GC_malloc` and its relatives, `GC_realloc`, `GC_free`, `GC_malloc_many` | collections, objects |
| dirty bits | `os_dep.c` | protected pages, dirty pages | protect, fault, read | marker |
| threads | `pthread_support.c` | the table of threads, the allocation lock | create, start, end, join, detach, register, block, fork | |
| stopping the world | `pthread_stop_world.c` | stop count, answers, signals pending | stop, handlers, restart | threads |
| thread-local allocation | `thread_local_alloc.c`, `mallocx.c` | free lists of a thread, lists built outside the lock | allocate, build, give back | threads, objects |
| parallel marker | `mark.c`, `pthread_support.c` | shared mark stack, local stacks, counts of helpers | take, mark, return, wait, agree on the end | |

One thread at a time works on the heap, under `GC_allocate_ml`; what interrupts it are the
client's callbacks: stop functions and finalizers. With threads, signals stop the others
wherever they are, a few operations work without the lock, and helpers
mark together.

What makes each part correct, and where it is hard to test:

* *fixpoints*: every call stops, with the least (EF, AF, EU, AU) or the greatest
  (EG, AG) solution, and this is what the operator says about paths, also where
  a state has no successor. A loop that stops a turn early is right on most
  small models.
* *images*: the variables that an operation quantifies are gone from its result,
  and the result is the image of a relation on states. This needs the paired
  arrays to be aligned.
* *reachability*: expanding only the last image loses nothing.
* *parsers*: the stack never refuses a push, exactly the postfix formulas are
  accepted, and the result is what the whole token sequence means.
* *set-up*: a name is one CUDD variable over all formulas, and the pairs are
  exactly the variables and their counterparts.
* *verdicts*: computing on all states and intersecting afterwards is the same as
  checking the reachable part.

* *collector*: what the program can get at stays where and what it is; the tables
  describe the heap; a collection that is interrupted, overflows its stack, or runs
  a little at a time loses nothing.
* *threads*: while the collector marks, nobody else can touch an object; whatever
  any thread holds is found; every collection comes to an end.

The hazards with their lines are in `PROJECT.json`.

## The modules

### The model checker

| module | models | variables and the code they stand for |
|---|---|---|
| `CtlFixpoint` | `ctlmc.c:156-262` over sets of states | `prev`, `current`; `op`, `beforeStates`, `finallyStates` are the call; `Enter` the lines before the loop, `Iterate` a turn, `Return` the exit; `PathSemantics` compares with `CtlPaths` |
| `CtlPaths` | nothing of the code: the meaning of CTL over paths | |
| `Reach` | `main.c:184-192` | `prevReachable`, `image`, `reachable`; `First`, `Iterate`, `Exit`; `ImageFails` is the exit of `aux.c:49` |
| `Exploration` | nothing of the code: what exploring promises | |
| `Cudd` | external: the CUDD operations by what they compute | a BDD is the set of valuations it accepts |
| `Image` | `EX` and `translatedImage`, one CUDD call per step | `node` is `preExist` or `image`; `Begin`, `Abstract` (a turn of the loop), `SwapBack`, `SwapFails` |
| `Tokenise` | `tokenize` and `getUniqVars`, character by character | `count` and `outside` of the counting loop, `rest` where `strtok` goes on, `tokens`, `seenVars`; one action per turn of the three loops |
| `Symbols` | `tokenisation.h`, `isOperator`, `isPrimedToken`, `getUniqVars`; `ddStack.c` | a token is its text and the number of its primes; a stack is a record, `Popped` is what a pop returns, `ddStack_pop` what it leaves |
| `Formula` | `bddFromPrefix.c` and the calls of it | `tokens`, `i`, `stack`, `recentNode`, `seenVars` as in the code; `numVars` are CUDD's variables; an action per branch of the loop |
| `Postfix` | nothing of the code: what a postfix formula is, where the operand that ends at a token begins | |
| `FormulaMeaning` | nothing of the code: the BDD of a postfix formula, by its last token | |
| `Setup` | `main.c:87-181`; extends `Formula` | `forms` are the arguments, `unprimed`, `numPrimed`, `paired` the arrays and the counter; `Took` is main after a call |
| `CtlCheck` | `check`; extends `CtlFixpoint` | an action per branch; `CallUnary`/`CallUntil` start a function whose steps are `Compute`, `Resume` pushes its result; the meaning of a CTL formula, by its last token and over paths, stands at the end |
| `ModelCheck` | `main.c:182-219`; extends `CtlCheck`, instantiates `Reach` | `Explore`, then `Check`, then `Answer` |

These modules work at two levels. `Cudd`, `Image`, `Formula` and `Setup` handle
BDDs; `CtlFixpoint`, `Reach`, `CtlCheck` and `ModelCheck` handle sets of states
and a relation. `Image` joins them: it instantiates `CtlFixpoint` and `Reach`
and shows that `EX` and `translatedImage` on BDDs are the operators `EX` and
`Image` on the states, given what `Setup` establishes (`NodesPaired` in `Image` is
the conclusion of `PairingIsOneToOne`).

CUDD gives no meaning to a NULL operand. Where the code would pass one the
model stops with "undefined"; nothing is claimed of what comes after.

The modules named `...Proofs` hold the theorems about the module before the
name and about what is built on it; `CommonLemmas` holds what several of them need.

The operators named `X_Something` before a definition `X` are variants of it
with a plausible bug. No specification uses them; `PROJECT.json` pairs each
with the property that tells it from `X`.

### The collector without threads

A chain of modules, each extending the one before. The state of the collector is
one record `h` whose fields are the globals of `gc_priv.h` without the prefix
`GC_`; a function that runs under the allocation lock and can call nothing of the
client is an operator from `h` to the next `h`, named after the function.

| module | models |
|---|---|
| `GcHeaders` | `headers.c`: index entries that are headers, forwarding counts or nil |
| `GcRoots` | `mark_rts.c`'s tables of roots and exclusions, and the registration of loaded segments (`dyn_load.c`, with `dl_iterate_phdr`) |
| `GcHblk` | `allchblk.c`: free lists by size, splitting, merging, unmapping; black lists (`blacklst.c`), when to collect and expanding the heap (`alloc.c`), and the system that memory comes from |
| `GcObjects` | mark bits, new blocks, the sweep, leaks, freeing (`new_hblk.c`, `reclaim.c`, `malloc.c`) |
| `GcMark` | `GC_mark_some` and what it calls: the states of the marker, the stack, its overflow and growth, roots, interior pointers, dirty blocks |
| `GcFinalize` | the pass of `finalize.c` after marking, with the four orders and both sorts of links |
| `GcCollect` | full, partial, incremental and abandoned collections (`alloc.c`) |
| `GcMalloc` | the allocation paths as a machine: `stack` holds a frame per running C function, because a collection in the middle of one can call the client |
| `GcClient` | the program: `live` is its own record of the objects it can get at, `menu` the calls it may make, `calls` how many are left |
| `MCGc` | twenty-two menus |
| `GcBlocks` | the operations of `GcHblk` under any caller, without the rest of the chain: `caller` holds the settings and what may be asked for |
| `MCGcBlocks` | three callers |

Sizes and addresses are counted in granules. `h.mem` has one word for each granule, the address of an
object, 0 or `JUNK`, so that a free list lives in the objects it links, as in C. The
actions of `GcClient` are the calls of `gc.h`, including the ones a finalizer makes;
the actions of `GcMalloc` are the steps between two calls of something that
may collect. `live` is updated by what the program did and never by what the
collector knows: comparing the two is `ObjectsKeepTheirContents`.

### The collector with threads

| module | models | state |
|---|---|---|
| `GcThreadTable` | `GC_threads`: entries, look-up, deletion | `table`, newest entry first |
| `GcStopWorld` | `pthread_stop_world.c`: signals and their handlers, stopping and restarting | `stop` (count, answers, pending signals, handlers), `gc` (who collects, and where it is) |
| `GcParallelMark` | the parallel marker of `mark.c` and `GC_wait_for_reclaim` | `pm` (shared stack, counts, a record of locals for each marker), `mark_lock` |
| `GcThreads` | `pthread_support.c`, `thread_local_alloc.c`, `GC_generic_malloc_many`, `GC_malloc`'s path without the lock | `th` (each thread's place and what it holds), `heap`, `lock` |
| `MCGcThreads` | thirteen menus | |

What runs under `GC_allocate_ml` without waiting is one step, taken when the lock is
free; `lock` is set only for what keeps it across steps. A signal may arrive
between any two steps. `GC_generic_malloc_many` sweeps the blocks that have a marked object
first (`ToSweep`); a block without one went back to the heap when the collection ended, and
is what `GC_allochblk` finds once the lists are empty. Thread ids come from the thread
library: one may be used again as soon as its thread is gone, also when the table still has
an entry with it, except that a thread that registers itself, or forks, begins with
an id for which the table has no entry (`FreeIds`). That is a restriction of the
environment, not of the code: the actions take any entry that the code would take. The
heap is abstract here (objects of one size, free
lists as sets, `points` says what they point to): how it is laid out is what the
modules above are about.

## The runs

| run | instance | what it shows |
|---|---|---|
| `fixpoints` | 3 states, every relation, argument and operator | results are fixpoints (`FixpointResult`) and the path meaning (`PathSemantics`); approximations are monotone; every loop ends |
| `reachability` | 3 states, every relation and initial set | the closure, also as states on paths; `FrontierSuffices`; `Reach` implements `Exploration`, its liveness included |
| `images` | 2 pairs of variables, every relation of at most 3 edges, every argument | EX and translatedImage are pre-image and image |
| `formulas` | every sequence of at most 3 tokens over two names, a CTL operator name and the Boolean operators; those of 5 tokens over x, x', NOT and IFF; up to 3 calls | the root is the meaning, by the grammar of postfix formulas in `Postfix`; only ill-formed sequences are refused; the stack suffices; numbering |
| `setup` | any 3 of 11 formulas over x, y and primes of them | pairing, no foreign variables, capacity for proper formulas |
| `model_check` | 3 states: every relation, 13 formulas, 2 initial and 2 expected sets; or one state apart, every relation on the other two, every sequence of 2 tokens, those of 3 that start with a variable, 5-token formulas with until operators | both answers; unreachable states do not matter; the result of `check` is the meaning over paths; only ill-formed sequences are refused; the program ends |
| `tokenise` | every text of up to 8 characters out of a blank and two letters | `strtok` finds exactly the tokens counted (`TokensKeepUp`), which are the words of the text (`TokensAreWords`); comparing prefixes is comparing names (`ComparisonsAreExact`) |
| `gc_blocks` | a heap of 6 blocks, three sorts of callers | the blocks tile the heap, free ones are merged, headers are found, in whatever order the allocator is called |
| `gc_heap` | a heap of 8 blocks, twenty-two sorts of programs | eight invariants, below |
| `gc_threads` | up to 4 threads and 2 helper markers, thirteen sorts of programs | the world is stopped, nothing held is lost or given out twice, parallel marking is complete, collections end |

The properties of `gc_blocks`: `Tiled` (every block belongs to one header, every free
one stands once, on the list for its size), `Merged` (free neighbours are merged, unless
blocks may be unmapped) and `BlocksFound` (the look-ups of headers and the walks over
the index agree with a search). Nothing keeps a caller from any order of calls.
`HeapIsSound` of `gc_heap` holds the same and the counts of bytes against the orders in
which the collector calls.

The properties of `gc_heap`:

* `ObjectsKeepTheirContents`: what the program can get at has the place, kind, length and
  words that the program knows of. It is what a collector promises, and it fails
  if the sweep, the marker, unmapping, a finalizer or a link goes wrong anywhere.
* `HeapIsSound`, `FreeListsAreSound`, `MarkCountsAgree`: the tables agree with each other
  in every state between two steps, within a collection too. `HeapIsSound` is about the
  blocks (tiled, merged, counted, found) and also compares the size of the roots, on which
  collections are timed, with their table.
* `MarkedOrDirty`: the invariant `gc_pmark.h` states for incremental marking.
* `NeverAborts`: the mark stack has room where the code does not look.
* `FinalizersInOrder`, `LinksNameObjects`: what finalization promises.

Its menus: `Sweeping`, `Unmapping`, `Incremental`, `IncrementalLarge`, `Switching`
(dirty bits turned on in a running program), `Misled` (false pointers, black lists),
`Uncollected`, `Interrupted` and `InterruptedLater` (collections given up),
`Overflowing` (the mark stack), `Bounded`, `Fixed`, `Uncollecting`, `Refused` (a
heap that may not grow, a collector that may not collect), `Finalizing`, `AtOnce`, `Java`, `Linking`,
`Rooted` (ranges added, removed and excluded), `Loading` (a library comes and goes), `ByHand` and `Filtered` (the
collector registers no library, or only what a filter lets through).

The menus of `gc_threads`: `Stopping`, `Listing` and `BuildingLists` (thread-local lists),
`Joining`, `Detaching`, `Apart` (threads created detached), `Recycling` (an id in use again),
`Foreign` (threads the collector did not create), `Mixed` (one of these beside one that is
joined), `Blocking`, `Forking` (either of two threads forks), `Marking1` and `Marking2` (one or two
helpers).

Two runs are expected to fail, each with one property that a comment of the
repository states and the code does not keep:

* `setup_unpaired`: `main.c:161` promises that all primed and unprimed variables
  show up; only two counts are compared, and a transition formula over `x` and
  `y'` passes.
* `tokenise_primed`: names of five characters are accepted, and the buffer at
  `main.c:170` is one character short for the prime of such a name.

`PairingIsOneToOne` states what does hold in the same place.

**Bounds.** Three states give every shape that tells the operators apart: a dead
end, a self-loop, a cycle with an exit, a state that needs two turns of a loop.
The paths of `CtlPaths` are as long as there are states, which is enough to
force a repetition. Two pairs of variables make a quantification loop of two
turns and a swap that can be misaligned. Five tokens nest two binary operators
either way round. `MaxEdges`, `MaxCalls`, `Var` and the sets of formulas are the
only bounds; `MaxCalls = 3` is the number of calls the program makes. `model_check`
takes few formulas where it takes three states, and many where it takes two.

`tokenise` takes texts long enough for three tokens with blanks around
them, and letters that make a name start like an operator.

`gc_heap`: blocks of 5 granules hold two small objects and a rest; eight blocks are
enough for a large object with used and free neighbours on both sides. `BOTTOM_SZ = 4`
makes a walk cross two bottom indices, `MAX_JUMP = 2` makes a forwarding chain of
several jumps, `USHORT = 4` lets the age of free blocks wrap around, a mark stack of
6 entries overflows on a wide object and grows once. The other thresholds are
small enough for every branch on them to be taken. A menu allows 3 or 4 calls
after a prefix that brings the heap into a state worth calling in, those of the root table 4 or 5; the coverage
of TLC shows that between them the menus take every action.

`gc_blocks`: blocks of 2 granules, so that objects of 1, 4 and 5 granules take one, two and
three blocks; a list for each of the sizes 1 and 2, one for 3 and more. Of the callers, `Cutting` allocates while collections
become due, `Avoiding` has a black-listed block in a heap that grows downwards,
`Unmapping` ages, unmaps and merges blocks. Six blocks let a block have a neighbour on
each side with something beyond.

The table of roots holds six ranges and that of exclusions three, for one program and
one library whose segment has a read-only part in the middle. The program
excludes no range twice, adds none that begins where a segment of a library does, and
does not unload a library while an incremental collection may hold its ranges.

`gc_threads`: four threads give a collector, one that is joined, a joiner and one
that takes the id; two helpers are the fewest that can wait for each other. `menu.stops` bounds the
collections to at most three, which is what a late and an early return from a signal
handler need; `menu.most` bounds what a thread holds. `INITIAL_MARK_STACK_SIZE = 1`
and `LOCAL_MARK_STACK_SIZE = 6` make the roots and the returned entries
overflow; `ENTRIES_TO_GET = 1` is what `GC_mark_local` takes from a stack
that is nearly empty. A menu that starts with the table of a few threads starts in
a state that a program reaches by creating them.

**Deadlock** is not checked: the modules of the model checker describe
computations that end, and the programs of `gc_heap` and `gc_threads` run out of
calls. That threads and markers do not wait for each other for ever is `CollectionsEnd`.

**Fairness.** In the model checker, weak fairness of the next-state action is all that is
assumed: a sequential program that can take a step takes one. `Setup`, `Tokenise`
and `GcClient` have no liveness property and no fairness. In `GcThreads` each of
the collector's steps, each marker, each delivery and handling of a signal, and
each thread that builds a list outside the lock is weakly fair: the system's
scheduler runs every thread that can run, and delivers signals. Nothing is
assumed of what the program calls, and nothing of who gets a lock.

## The proofs

TLAPS proves, for all values of the constants:

* `ModelCheckProofs`, about the loops of `ctlmc.c`: `TypeCorrect`, `FixpointCorrect`,
  `MonotoneApproximations`. The invariant says that at the loop test `current` is the body applied to `prev`, that
  `prev` lies between the start and every solution on the right side, and that `current`
  and `prev` are ordered. The body is monotone (one lemma, by cases on the six); when
  the two are equal, `prev` is a solution and no other one is on the wrong side of it.
  `FixpointResult` alone says nothing before the end and so is not inductive.
* `ReachProofs`: `TypeCorrect`, `ReachCorrect`, `FrontierCorrect` and
  `ImplementsSafely`. The invariant says that `reachable` is `prevReachable` with the
  last image, contains all successors of `prevReachable`, and lies in every closed
  superset of the initial states. Images distribute over union, which is why the last
  image is enough. `ImplementsSafely` maps each step to a step of `Exploration` or a
  stutter.
* `FormulaProofs`, about `Image`: `AbstractionHolds`, `EXCorrect`, `ImageCorrect`, for any number of
  paired variables. The invariant describes the BDD after `i` turns of the loop as the
  quantification over the first `i` variables; the rest is the correspondence between
  valuations and pairs of states.
* `FormulaProofs`, about the parser: `TypeCorrect`, `PushFits`, `NamesAreNodes`,
  `SeenVarsKept`, `RootCorrect`, `RejectsCorrectly`, for formulas of any length and any
  number of calls. Each turn pushes one node after popping any, so the stack is never
  higher than the tokens read. The names stored are distinct names of the formulas, so
  by counting CUDD never needs more variables than there are names. That the root is the
  meaning needs to know what lies on the stack: `MeaningInv` says that its nodes, from
  the top down, are the meanings of the operands that end where the next one begins,
  back to the first token; below them there may be a NULL that `!` made when it had no
  operand, and then the sequence is no formula.
* `FormulaProofs`, about `Setup`: `Paired`, `OnlyModelVars`, `EnoughCapacity`. The
  search finds each unprimed variable a counterpart or stops. Equally many primed and
  unprimed variables and an injection from one into the other leave no primed variable
  over, so the count at `main.c:160` and the search together are enough, and neither
  alone is.
* `TokeniseProofs`: `CountIsRight`, `BoundedComparisons`, `WordsInOrder`, for texts of
  any length. The counting loop and `strtok` walk the same text with different ideas of
  where a word ends; the invariant of each relates what it has done to the blanks and
  letters it has passed.
* `ModelCheckProofs`, about the same loops: `PathsCorrect`. That the least and greatest solutions are what
  the operators say of paths: from a state in a least solution a path is built by going
  down the ranks at which states enter, and it repeats no state, so that it fits into as
  many steps as there are states; from a state in a greatest one a path that never
  leaves it is built for ever, or until a state has no successor.
* `ModelCheckProofs`, about `check()` and `main()`: `CheckCorrect`, `CheckRejects`, `AnswersCorrect`,
  `UnreachableIgnored`, for every finite set of states, every relation and formulas of
  any length. `CheckInv` is `MeaningInv` over sets of states, with the fixpoint
  computation that is going on as one more operand to come: `FixpointCorrect` and
  `PathsCorrect` say what it will be. `MainInv` joins it with `ReachInv`. Paths from
  reachable states stay among reachable states, which is why unreachable ones do not
  matter.
* `GcThreadsProofs`: `WorldStops`, for any set of threads, any programs and any number
  of collections. `WorldIsStopped` follows from an inductive invariant of seven parts.
  `ShapeInv`: what the records consist of. `TableInv`: each thread that has registered
  and not unregistered has one entry, which says whether it is blocked, is not
  `FINISHED`, and is the most recent one with its id; older ones with that id are of
  threads that have ended; so a thread finds its own entry, and a signal to the id of an
  entry reaches its thread. `IdInv`: a thread that registers itself or forks shares its
  id with no entry but its own, which rests on the ids it may begin with (`FreeIds`). `JoinInv`: the entry that a join is about to delete is of a thread that is
  gone. `LockInv`: a collection keeps the lock from its first step to its last.
  `SignalInv`: a thread is in its handler, unanswered, only during a stop that has sent
  it a signal. `AnswerInv`: the answers the collector still waits for are those on the
  semaphore and those of threads signalled that have not answered. Steps are classed by
  what they leave alone (`Stutter`, `PlainStep`, `OwnStep`, `Drift`, `CalmStep`), and
  what changes the table without a collection going on by whether it adds an entry,
  changes one or takes one out.
* `GcThreadsProofs`: `MarksComplete`, for any set of markers, any finite heap and whatever
  the threads do. `MarkingIsComplete` speaks of the moment when marking ends; what makes
  it true then is an invariant of the time before. `ScanInv` is the tri-colour invariant:
  of an object that is marked and is neither on the shared stack nor a marker's own, all
  that it points to is marked or was found by a marker that is about to mark it - unless
  an entry was dropped (`invalid`), and then `AfterParallelMark` starts over from the
  marked objects. `CountInv` says that `active_count` and `helper_count` count the
  markers at the places in the code where they should be counted, so that "none active
  and no entry left" is what `GC_mark_local` takes it for. `PlaceInv` says that all
  entries below `first_nonempty`, and below the place from which a marker looks, are
  taken, so that no entry is passed over, and that an entry that one marker has read and
  another has taken meanwhile is only scanned twice. `MarkerShape` says when a marker has
  entries of its own. `ObjectInv`, that whatever is held or listed is an object and that
  the objects on free lists are clear, is preserved by every step of the program.
  `Frozen` draws on `WorldInv`: while the world is stopped no step of a thread changes
  what the markers start from.
* `GcHeldProofs`: `HeldStay`, for all the same, on top of the two theorems before:
  `HeldObjectsStay`, that whatever a thread holds, or reaches from what it holds, is on
  no free list and waits for no sweep, and that no object is listed twice. Its
  inductive part is `OwnerInv`: the free lists of the heap, what waits to be swept, what
  is on each thread's own list or is about to be put there, and what is in use are
  apart from one another. Allocation moves an object
  from one to the next, and so keeps it. The hard steps are the beginning and end of
  threads, and collections. `SoundInv` says of each thread and its entry in the table
  that a collection finds by the entry all that the thread has: on its stack, in what its
  handler saved, before the place where it blocked, or as the result it left for who
  joins it; and of a thread without an entry that it has nothing. `OtherInv` covers what
  a thread has by way of another: the argument of a thread that starts is still held by
  its creator, also while the new thread collects to get its entry or if nobody will join
  it, and who joins or detaches has found a thread that was begun. `BuildInv`:
  the threads that build a list outside the lock are those that `builders` counts, and
  there are none when the marks of a new collection are cleared or a process forks.
  `MarkedInv`: from the end of marking to the start of the world the lists of the threads
  and all that is in use are marked, by `MarkingIsComplete` at the step where marking
  ends and because the world is stopped after that; so what becomes sweepable was not in
  use. A step adds to what is in use only objects that are given out and point nowhere
  yet (`LiveGrows`).
* `GcBlocksProofs`: `TilesHeap`, `MergesBlocks` and `FindsBlocks`, for heaps of any size,
  any thresholds and any callers.
  `Tiled` alone is not inductive: what is freed is looked up and merged by way of counts
  and headers, so the invariant `Good` adds that the counts of a used extent lead to its
  header, that there are none elsewhere, and that the index has the entries of every
  header (`Indexed`). Nor does it hold within a call, while a block
  is in the allocator's hands: `But` is `Good` but for a hole, a set of blocks that no
  list and no header counted as the heap's speaks for, and each operator of `GcHblk` has a
  lemma that says what it does to the hole. `TakeOff` and `UsedHole` open one, `PutOn` and
  `Filled` close it, `InHole` says that inside it headers and counts may be rewritten. A
  free block is `Held` (a hole of n blocks with one header) when it has been taken off its
  list, cut (`Carved`, `CutOff`, `CarvedBehind`) and `Established`; a freed one is `Clear`
  (without counts) while it swallows its neighbours. The loops (over the blocks of a list,
  over the lists, over the merges) are recursive functions, followed by induction
  on the turns (`Nth`, `Searched`, `MergedList`, `MergedUnmapped`). Growth makes a hole beyond
  the heap (`NewHole`), which needs that the system has not handed out those blocks before
  (`Fresh`). `MergesBlocks` needs one more conjunct, `Lone`, kept along with the rest
  (`Settled`): in a collector that does not unmap, every block is mapped and no free block
  ends where another begins. That all are mapped belongs to it, as `GC_freehblk` only
  merges blocks that are. Within a call it is said of all free blocks but the one in hand;
  that nothing free lies behind that one (`Fenced`) and nothing free ends where it begins
  (`Unled`) is what the merges with the successor and the predecessor establish, and what
  lets it go back on a list. A part cut off a block is put back beside the part in use,
  and `Still` says of a search that none but the block it returns may have come to lie
  beside another. Where blocks may be unmapped neither `Merged`
  nor `Lone` says anything, as a free block and an unmapped one are left apart.
  `FindsBlocks` says of every state with this invariant what the look-ups find:
  `Leads` that counts lead to headers, `Downward` and `Upward` that one step of a walk
  passes no block it looks for, across bottom indices that do not exist, and `WithinIs`
  that the visit of one index passes none. That the walks end, and what they have gathered
  at their end, are said once for all of them (`GatherExist`, `GatherFinds`).
* `CommonLemmas`: sets of numbers, sequences, postfix formulas and stacks of operands,
  for any set of leaves and operators. Induction over the length of a formula is done on
  sets of numbers (`SetInduction`, from the existence of least elements), and recursion
  with recursive functions.

The assumptions these proofs use, all of them evaluated by TLC: in `CtlFixpoint`, that
there are finitely many states (`FiniteStates`); in `Image`, `NodesPaired`; in `Formula`,
that tokens are what `Symbols` takes them for (`Tokenised`), that the bound on calls is
a number (`Bound`), and that CUDD numbers its variables from 1 and has one for every
name (`Manager`); in `FormulaMeaning` and `CtlCheck`, that NULL is no BDD
(`NullIsNoBDD`, `NullIsNoSet`), and in `CtlCheck` again `Tokenised`; in `Tokenise`, that
the lengths are numbers and texts end (`Lengths`, `Terminated`); in `GcThreads`, that
NULL is no thread (`Nobody`), that blocks are disjoint sets of objects and objects point
to objects (`Heaps`), and that the main thread is registered from the start,
once, as are the others that are (`Programs`); in `GcParallelMark`,
that there are finitely many helpers and the collecting thread is none of them
(`MarkThreads`);
in `GcHeaders` and `GcHblk`, that the sizes and thresholds are numbers in their order (`HeaderSizes`,
`Counts`, `ListSizes`); in `GcBlocks`, what the settings are (`CallersAre`). `NodesPaired` is what
`PairingIsOneToOne` establishes when nothing stays unpaired; `setup_unpaired` shows that
the program itself does not make sure of that.

Model-checked only: the eight invariants of `gc_heap`, and all liveness
(`Termination`, `MainEnds`, `CollectionsEnd`, that the exploration that `Reach`
implements ends), which is out of reach of the prover, as is ENABLED. The modules of
`gc_heap` above `GcHblk` use recursive operators for the loops of the marker and cannot hold
proofs as they are.

## Not modelled

Of the model checker:

* Node lifetimes: only some BDDs are referenced (`main.c:189`, `ctlmc.c:197`) and
  `main.c:257-259` releases nodes it never referenced. CUDD here never reclaims a
  node; its source, which decides when that happens, is not in the repository.
* A CUDD that runs out of memory, except in the one place where the code looks.
* Formulas for initial or expected states over primed variables, above `Setup`.
* The damage of a store past the end of the array of variables; `Setup` goes on as
  if it had succeeded.
* The DOT file, all printing, generated documentation.
* `_RECENT_CTLPROP` and `_EGPROP` are assigned in `CtlCheck` as in the code; only lines of
  `main.c` that are commented out (222-228) read them, and no property speaks of them.

Of the collector:

* `os_dep.c`, `gcconfig.h`, `misc.c`'s start-up: where stacks and data segments lie on
  each operating system; `dyn_load.c` but for systems with `dl_iterate_phdr`; how pages are protected, other than by `mprotect`.
  `win32_threads.c`, `darwin_stop_world.c` and the like are other systems' code.
* The debugging layer, typed and per-object descriptors, `gcj`, disclaim
  procedures, `GC_memalign`, registered displacements, `cord`, the C++ interface: the program
  calls none of it.
* Roots that are not word-aligned, the hash of the root table; scratch memory, which does not run out.
* The growth of the hash tables of `finalize.c`, and finalizers that run from within others.
* In `gc_threads`: `pthread_exit`, `pthread_cancel`, `GC_dont_gc`, `GC_retry_signals`,
  the hash of the table, and allocation for `start_info`. There is one level of
  `GC_do_blocking` and `GC_call_with_gc_active`. No thread that registers itself, or forks,
  has the id of an entry that was there before it (`FreeIds`; the first two observations on
  `pthread_support.c` below say what happens otherwise).
  `GC_wait_for_gc_completion` has nothing to wait for, as no collection here is incremental;
  a `pthread_create` that fails changes nothing; and a block that waits for a
  sweep has garbage in it (`Reclaimable`), so that no sweep comes back empty.
  `GC_mark_from` may stop after any entry, as sizes are left out; the pass over marked
  objects after an overflow is one step, and so is reading the mark bits of a block.
  The build files leave threads and parallel marking off by default; this is the
  code as compiled with both on.

## Observations

Found while reading and modelling; no run depends on them.

* An operator without operands works on NULL and can be accepted
  (`bddFromPrefix.c:95`, `ctlmc.c:145`): the test of "well formed expression" is one of the
  depth of the stack. `RejectsOnlyIllFormed` is the half that holds.
* The count at `main.c:105` leaves out the expected formula and the names of CTL
  operators, which the parser stores as variables: the array can be too small.
  `CapacitySuffices` says for which formulas it is large enough.
* `pthread_support.c:1571`: a foreign thread that registers with the id of a joined
  thread before the joiner has deleted the entry revives that entry, and the
  joiner deletes it (line 1412) while the thread runs.
* `pthread_support.c:674`: in the child of a fork the last entry with the thread's id is
  kept, not the most recent.
* `pthread_stop_world.c:633`: with `GC_retry_signals` an answer can be posted twice.
* `pthread_support.c:1322`: `DISABLED_GC` is never cleared, so `GC_dont_gc` can be lowered
  twice or stay raised.
* `mark.c:877-882` says that the count of active markers stays zero once it is zero; a
  helper that joins late raises it again. It does no harm, as the collector waits for `helper_count`.
* `reclaim.c:53-66`: a leaked object can be listed twice.
* `malloc.c:292-346`: the slow path of `GC_malloc_uncollectable` is not added to the bytes
  that are not collected.
* `mark_rts.c:235-242`: a range that the program adds where a temporary one begins makes that one
  longer and leaves it temporary, so that it goes with the next registration; the branch for
  Windows (line 202) makes it permanent. A program that adds a segment of a library loses it
  when the collector registers no libraries any more.
* `mark_rts.c:462-468`: with a full table of exclusions the entries are moved up by one, past
  its end, and only then is "Too many exclusions" noticed.
* `alloc.c:926`: the unsigned subtraction can wrap, which only makes the next collection
  a full one.

## Plan

Done: everything in the tables above. What is worth doing next:

1. The theorems about `GcBlocks` carried over to `GcClient`, whose steps call the same operators.
2. `Program`: `Setup` and then `ModelCheck` over the BDDs that `Setup` built, with the
   exit codes; the command lines of `test_cases` with their expected answers.
3. The growth of the tables of `finalize.c`.
