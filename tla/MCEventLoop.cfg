SPECIFICATION Spec
CONSTANTS
  PointerSpan = 1024
  InitialLists <- MCInitialLists
  ArenaEnd = 500
  MaxKeys = 5
  Interruptible = {"check", "test", "fetch", "load", "idle", "halted"}
INVARIANTS
  TypeOK
  QuietHeap
PROPERTIES
  EventsSpec
