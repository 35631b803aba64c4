SPECIFICATION Spec
CONSTANTS
  None = None
  Nanos = 3
  Parts = 8
  Mantissa = 32
  Stamps = {0, 3, 4, 19, 20, 23, 24, 44, 67, 71, 76, 139, 404}
  MaxPoints = 2
INVARIANTS
  FrameSurvives
  DamageIsNoticed
  StampsAgree
CHECK_DEADLOCK FALSE
