SPECIFICATION MCSpec
CONSTANTS
  Machines <- MCMachines
  MaxKeys = 2
  MaxLate = 1
  MaxNoise = 2
  NumBuses = 4
  NumDevices = 2
  NumFunctions = 2
  MaxNesting = 4
  ByteSpan = 4
  NibbleSpan = 2
  Computers <- MCComputers
  Requests <- MCRequests
  MaxRequests = 2
INVARIANTS
  PS2TypeOK
  NothingLeftInService
  DevicesFound
  PciOnce
  DrivesFound
  PartitionsAreTheEntries
  SectorsAsAsked
PROPERTIES
  KeysServed
  DisksStart
CHECK_DEADLOCK FALSE
