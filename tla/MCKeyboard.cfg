SPECIFICATION Spec
CONSTANTS
  MaxCommands = 3
  MaxResends = 3
  StartSets = {1, 2}
  MaxKeys = 2
  MaxGarbled = 5
  MaxLost = 1
INVARIANTS
  TypeOK
  OneByteAtATime
  ScancodesReachDecoder
  InitializedMeansSet2
PROPERTIES
  InitEnds
CHECK_DEADLOCK FALSE
