SPECIFICATION Spec
CONSTANTS
  PointerSpan = 16
  KernelStart = 4
  KernelEnd = 6
  Top = 9
  Maps <- TidyMaps
INVARIANTS
  TypeOK
  ExactlyTheAvailable
  FreedOnce
  ListIsTight
CHECK_DEADLOCK FALSE
