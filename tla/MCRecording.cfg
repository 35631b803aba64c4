SPECIFICATION RecordingSpec
CONSTANTS
  Stamps = {1, 2}
  Lens = {1}
  SchemaKeys <- MCSchemas
  late = late
  Names = {imu, late}
  Imu = Imu
  PointCloud = PointCloud
  Rbag1 = Rbag1
  IdSpace = 65536
  Overhead = 1
  ChunkTarget = 4
  MaxMessages = 3
  MaxFailures = 1
  NoCall = NoCall
  MaxReads = 2
  None = None
SYMMETRY MCSymmetry
INVARIANTS
  ReadsAreHonest
  CutOffReadsBack
  FinishKeepsAll
  RereadAgrees
  OldFilesReadBack
  InfoIsRight
  IdsLeadBack
CHECK_DEADLOCK FALSE
