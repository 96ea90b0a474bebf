SPECIFICATION Spec
CONSTANTS
  mem_start_brk = 184
  MAX_HEAP = 32
  INT_MAX = 127
  Increments <- SomeIncrements
INVARIANTS
  AreasTileHeap
