SPECIFICATION FairSpec
CONSTANTS
  SectorSize = 2
  EntriesPerFatSector = 4
  FOPEN_MAX = 2
  BadCluster = 100
  Volumes <- MCVolumes
  Characters <- MCCharacters
  Paths <- MCPaths
  ReadSizes = {1, 3}
  LineSizes = {4}
PROPERTIES
  OpensReturn
