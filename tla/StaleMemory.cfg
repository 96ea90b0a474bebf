SPECIFICATION FairBothSpec
CONSTANTS
  mem_start_brk = 8
  MAX_HEAP = 72
  INT_MAX = 127
  CHUNKSIZE = 56
  a = a
  b = b
  Ids <- TwoIds
  Junk = Junk
  Sizes = {8, 16, 40}
  LIST_MAX = 6
  BACK_SIZE = 24
CHECK_DEADLOCK FALSE
INVARIANTS
  BestFit
  SameAnswers
PROPERTIES
  CallReturns
