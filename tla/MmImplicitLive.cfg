SPECIFICATION FairSpec
CONSTANTS
  mem_start_brk = 8
  MAX_HEAP = 80
  INT_MAX = 127
  CHUNKSIZE = 32
  a = a
  b = b
  c = c
  Ids <- TwoIds
  Junk = Junk
  Sizes = {8, 116}
PROPERTIES
  CallReturns
