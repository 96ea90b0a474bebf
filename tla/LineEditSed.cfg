SPECIFICATION Spec
CONSTANTS
  f = f
  g = g
  x = x
  y = y
  Names <- TwoNames
  Text <- Letters
  NL = NL
  NUL = NUL
  BUFSIZE = 3
  INT_MAX = 7
  SIZE_MAX = 15
  LineNos <- SomeLineNos
  MALLOCSIZE = 2
  Handles = {1, 2}
  Garbage = Garbage
  Contents <- Files1
  Trees <- Trees3
  Arguments <- SomeArguments
  Errors = {1, 2}
  MaxPrints = 1
  MaxReports = 1
CHECK_DEADLOCK FALSE
INVARIANTS
  SameAsSed
