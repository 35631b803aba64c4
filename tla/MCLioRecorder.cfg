SPECIFICATION FairSpec
CONSTANTS
  MaxFrames = 3
  MaxFailures = 1
  MayPanic = TRUE
  ChunkSize = 2
INVARIANTS
  TypeOK
  NoPoseLost
  FinishIsComplete
  StopIsPrompt
PROPERTIES
  KeepsOrder
  CallsReturn
CHECK_DEADLOCK FALSE
