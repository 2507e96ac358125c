SPECIFICATION Spec
CHECK_DEADLOCK FALSE
CONSTANTS
  NBLOCKS = 8
  HBLKSIZE = 5
  BOTTOM_SZ = 4
  MAX_JUMP = 2
  free_space_divisor = 3
  stack_size = 2
  PHT_ENTRIES = 16
  MAXHINCR = 4
  MINHINCR = 2
  UNIQUE_THRESHOLD = 2
  HUGE_THRESHOLD = 6
  FL_COMPRESSION = 2
  MAX_BLACK_LIST_ALLOC = 8
  USHORT = 4
  MAX_LEAKED = 2
  INITIAL_MARK_STACK_SIZE = 6
  GC_MARK_STACK_DISCARDS = 1
  STACK_ENTRIES = 6
  SPLIT_RANGE = 9
  FO_SIZE = 2
  GC_RATE = 2
  MAX_PRIOR_ATTEMPTS = 1
  full_freq = 1
  FO_SURPLUS = 1
  BL_SLOP = 2
  MAX_ROOT_SETS = 6
  MAX_EXCLUSIONS = 3
  MainProgram = "main"
  Libraries <- MCLibraries
  Headers <- MCHeaders
  GC_arrays <- MCArrays
  load_segs <- MCLoadSegs
  StaticRoots <- MCStaticRoots
  StackRoots <- MCStackRoots
  Menus <- MCMenus
INVARIANTS
  ObjectsKeepTheirContents
  HeapIsSound
  FreeListsAreSound
  MarkCountsAgree
  NeverAborts
  MarkedOrDirty
  FinalizersInOrder
  LinksNameObjects
