SPECIFICATION Spec
CONSTANTS
  WORD = 16
  NEVENT = 2
  THRESHOLD = 10
  RECORDTHRESH = 20
  TickCosts = {40, 55}
  CheapTick = 40
  DearTick = 55
  TurnCosts = {4, 10}
  Params <- SomeParams
  CacheSizes = {1, 2}
  Times <- SomeTimes
  Starts = {13, 250}
  MICROS = 10
  MAX_ETIME = 3
  RUNS = 3
  Clocks = {0, 7}
  Durations = {1, 5, 14}
CHECK_DEADLOCK FALSE
INVARIANTS
  TypeOK
  KBest
  StopsWhenConverged
  TicksPaidFor
  TimeOfRuns
