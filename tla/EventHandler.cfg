SPECIFICATION Spec
CONSTANTS
  PointerSpan = 1024
  InitialLists <- MCInitialLists
  ArenaEnd = 500
  MaxKeys = 3
  Interruptible = {"check", "test", "fetch", "load", "free", "idle", "halted"}
PROPERTY
  AddsToHead
CHECK_DEADLOCK FALSE
