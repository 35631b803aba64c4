SPECIFICATION BakeSpec
CONSTANTS
  None = None
  Stamps = {1, 3}
  ChunkSizes = {1, 2}
  Indexed <- MCIndexed
  Damage = {2}
  MaxFrames = 3
  MaxFailures = 1
  MayPanic = TRUE
  ChunkSize = 2
INVARIANTS
  BakeKeepsFrames
  BakeMapsAll
PROPERTY
  BakeEnds
CHECK_DEADLOCK FALSE
