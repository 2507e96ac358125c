----------------------------- MODULE MCGcThreads -----------------------------
(***************************************************************************)
(* Programs of one to four threads for GcThreads, each named for what it   *)
(* does to the collector.                                                  *)
(***************************************************************************)
EXTENDS GcThreads

\* Main does `ops', the others what `others' says.
Menu(registered, ops, others) ==
  [registered |-> registered, others |-> {}, at |-> "none", ids |-> {}, helpers |-> {},
   held |-> {1}, most |-> 2, stops |-> 2,
   ops |-> [t \in Threads |-> IF t = "Main" THEN ops ELSE others],
   blocks |-> {{1, 2}, {3}}, points |-> [o \in 1..3 |-> {}]]
One == <<"Main">>
Two == <<"Main", "T1">>
Three == <<"Main", "T1", "T2">>

\* Three threads that collect, and signals that are not the collector's.
Stopping == [Menu(Three, {"gcollect", "disturb"}, {"gcollect"}) EXCEPT !.stops = 3]

\* Lists of their own, with and without lists built outside the lock.
Listing == [Menu(Two, {"malloc", "forget", "gcollect"}, {"malloc", "forget"}) EXCEPT !.most = 1]
BuildingLists ==
  [Menu(Two, {"malloc", "gcollect"}, {"malloc", "forget"}) EXCEPT
     !.helpers = {"H1"}, !.most = 1, !.stops = 1,
     !.held = {}, !.points = [o \in 1..3 |-> CASE o = 1 -> {2} [] o = 2 -> {3} [] OTHER -> {}]]

\* Threads that are created, return a result and are joined or detached; one
\* more registers itself again while it ends, or is created detached.
Joining ==
  [Menu(One, {"create", "join", "forget"}, {"return", "gcollect"}) EXCEPT
     !.others = {"T1", "T2"}, !.ids = {"T1", "T2"}, !.stops = 1]
Detaching ==
  [Menu(Two, {"detach", "gcollect"}, {"return", "register", "malloc"}) EXCEPT !.most = 1]
Apart ==
  [Menu(One, {"create_detached", "gcollect"}, {"return", "register", "malloc"}) EXCEPT
     !.others = {"T1", "T2"}, !.ids = {"T1"}, !.most = 1, !.stops = 1]
\* An id in use again while the entry of the first to have it is still there.
Recycling ==
  [Menu(Three, {"join"}, {}) EXCEPT
     !.others = {"T3"}, !.ids = {"T1"}, !.stops = 1,
     !.ops = [@ EXCEPT !["T1"] = {"return"}, !["T2"] = {"create", "gcollect"}, !["T3"] = {"malloc"}]]
Foreign ==
  [Menu(One, {"gcollect"}, {"register", "malloc"}) EXCEPT
     !.others = {"T1", "T2"}, !.at = "outside", !.ids = {"T1", "T2"}, !.stops = 1]
Mixed ==
  [Menu(Two, {"join", "gcollect"}, {"return"}) EXCEPT
     !.others = {"T2"}, !.at = "outside", !.ids = {"T1", "T2"}, !.stops = 1,
     !.ops = [@ EXCEPT !["T2"] = {"register", "malloc"}]]

Blocking == Menu(Two, {"malloc", "gcollect"}, {"block", "gc_active", "malloc"})
Forking == [Menu(Two, {"fork", "malloc"}, {"fork", "malloc"}) EXCEPT !.helpers = {"H1"}, !.stops = 1]

\* A tree too wide for the mark stacks, and one or two helpers.
Marking1 ==
  [Menu(One, {"gcollect"}, {}) EXCEPT
     !.helpers = {"H1"}, !.stops = 1, !.blocks = {1..6},
     !.points = [o \in 1..6 |-> CASE o = 1 -> {2, 3, 4, 5} [] o = 3 -> {6} [] OTHER -> {}]]
Marking2 == [Marking1 EXCEPT !.helpers = {"H1", "H2"}]

MCMenus == {Stopping, Listing, BuildingLists, Joining, Detaching, Apart, Recycling, Foreign,
            Mixed, Blocking, Forking, Marking1, Marking2}
=============================================================================
