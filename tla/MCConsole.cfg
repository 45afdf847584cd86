SPECIFICATION MCSpec
CONSTANTS
  LongBits = 12
  ScreenWidth = 4
  ScreenHeight = 3
  CommandSize = 5
  WordBits = 8
  Words <- MCWords
  Desks <- MCDesks
  PortBytes = {0, 15}
  FastHits = 5
  TypedHits = 7
INVARIANTS
  ConsoleTypeOK
  ScancodesInBounds
  LineOnScreen
  ShellInBounds
  PrintsFaithfully
PROPERTIES
  KeysReported
  ExecutedIsTyped
CHECK_DEADLOCK FALSE
