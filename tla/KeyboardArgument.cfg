SPECIFICATION Spec
CONSTANTS
  MaxCommands = 3
  MaxResends = 3
  StartSets = {1, 2}
  MaxKeys = 2
  MaxGarbled = 5
  MaxLost = 1
INVARIANT
  AcknowledgedMeansSent
CHECK_DEADLOCK FALSE
