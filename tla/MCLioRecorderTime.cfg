SPECIFICATION FairSpec
CONSTANTS
  MaxFrames = 3
  MaxFailures = 0
  MayPanic = FALSE
  ChunkSize = 2
INVARIANT
  ChunksFollowTime
CHECK_DEADLOCK FALSE
