SPECIFICATION Spec
CONSTANTS
  Disk <- SomeFiles
  TRACEDIR = "traces/"
  Here = "./"
  DEFAULT_TRACEFILES <- TwoTraces
  CommandLines <- SomeCommandLines
  Ids <- SomeIds
  Addresses <- SomeAddresses
  heap_lo = 8
  HeapEnds = {32, 48}
  ALIGNMENT = 8
  PASSES = 3
CHECK_DEADLOCK FALSE
INVARIANTS
  TypeOK
  RangesAreHeldBlocks
  AcceptedPayloads
  UtilisationAddsUp
  HandsBackHeld
  ReportAddsUp
PROPERTIES
  FairVerdict
