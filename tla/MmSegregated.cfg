SPECIFICATION SoundSpec
CONSTANTS
  mem_start_brk = 8
  MAX_HEAP = 80
  INT_MAX = 127
  CHUNKSIZE = 32
  a = a
  b = b
  c = c
  Ids <- ThreeIds
  Junk = Junk
  Sizes = {8, 24, 40, 56}
  LIST_MAX = 6
  BACK_SIZE = 32
SYMMETRY Symmetry
CHECK_DEADLOCK FALSE
INVARIANTS
  HeapTiled
  FreeListsExact
  NoLeak
  PayloadsIntact
PROPERTIES
  ImplementsContract
