SPECIFICATION Spec
CONSTANTS
  PointerSpan = 1024
  MemorySize = 128
  InitialList <- MCInitialList
  Sizes = {0, 5, 20}
  Alignments = {8}
PROPERTY
  ReallocKeepsContents
