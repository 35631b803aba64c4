SPECIFICATION LiveSpec
CONSTANTS
  MaxFrames = 2
  MaxFailures = 1
  MayPanic = TRUE
  ChunkSize = 2
INVARIANTS
  SuccessIsComplete
  ExportHasMap
  StopsAtOnce
PROPERTY
  EndsWhenTold
CHECK_DEADLOCK FALSE
