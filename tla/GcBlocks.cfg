SPECIFICATION Spec
CONSTANTS
  NBLOCKS = 6
  HBLKSIZE = 2
  BOTTOM_SZ = 4
  MAX_JUMP = 1
  free_space_divisor = 3
  stack_size = 2
  PHT_ENTRIES = 8
  MAXHINCR = 3
  MINHINCR = 3
  UNIQUE_THRESHOLD = 2
  HUGE_THRESHOLD = 4
  FL_COMPRESSION = 2
  MAX_BLACK_LIST_ALLOC = 2
  USHORT = 3
  Callers <- MCCallers
INVARIANTS
  Tiled
  Merged
  BlocksFound
