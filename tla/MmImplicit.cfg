SPECIFICATION Spec
CONSTANTS
  mem_start_brk = 8
  MAX_HEAP = 80
  INT_MAX = 127
  CHUNKSIZE = 32
  a = a
  b = b
  c = c
  Ids <- ThreeIds
  Junk = Junk
  Sizes = {8, 24, 116}
SYMMETRY Symmetry
INVARIANTS
  TypeOK
  HeapTiled
  HeapCoalesced
  SearchStartOnBlock
  NoLeak
  PayloadsIntact
  ReallocKeepsData
  GrowOnlyIfNoFit
  BoundedSlack
PROPERTIES
  ImplementsContract
