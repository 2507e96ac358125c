SPECIFICATION Spec
CHECK_DEADLOCK FALSE
CONSTANTS
  NULL = NULL
  Threads = {"Main", "T1", "T2", "T3"}
  Helpers = {"H1", "H2"}
  INITIAL_MARK_STACK_SIZE = 1
  LOCAL_MARK_STACK_SIZE = 6
  ENTRIES_TO_GET = 1
  Menus <- MCMenus
INVARIANTS
  WorldIsStopped
  HeldObjectsStay
  MarkingIsComplete
PROPERTY
  CollectionsEnd
