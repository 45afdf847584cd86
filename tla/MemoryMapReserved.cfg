SPECIFICATION Spec
CONSTANTS
  PointerSpan = 16
  KernelStart = 4
  KernelEnd = 6
  Top = 9
  Maps <- OverlappingMaps
INVARIANT
  ReservedNotFreed
CHECK_DEADLOCK FALSE
