SPECIFICATION RecordingSpec
CONSTANTS
  Stamps = {1}
  Lens = {1}
  SchemaKeys <- MCSchema
  Imu = Imu
  PointCloud = PointCloud
  Rbag1 = Rbag1
  Names = {"imu"}
  IdSpace = 65536
  Overhead = 1
  ChunkTarget = 4
  MaxMessages = 4
  MaxFailures = 0
  NoCall = NoCall
  MaxReads = 1
  None = None
INVARIANT
  TruncationKeepsWholeChunks
CHECK_DEADLOCK FALSE
