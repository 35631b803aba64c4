SPECIFICATION Spec
CONSTANTS
  Stamps = {1, 2}
  Lens = {0, 2}
  SchemaKeys = {"imu"}
  Names = {"imu"}
  IdSpace = 65536
  Overhead = 1
  ChunkTarget = 3
  MaxMessages = 4
  MaxFailures = 2
INVARIANTS
  TypeOK
  EveryMessageOnce
  ChunksTile
  IndexLocatesChunks
  ChunksSorted
  BufferBounded
CHECK_DEADLOCK FALSE
