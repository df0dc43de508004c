SPECIFICATION LiveSpec
CONSTANTS
  Levels = {"info", "error"}
  MaxBackends = 2
  MaxEntries = 3
  Reentrant = TRUE
INVARIANTS
  TypeOK
  SessionComesFirst
  NothingFreedInUse
PROPERTIES
  WritesInOrder
  EventuallyWritten
  OnlyReentryBlocksStop
CHECK_DEADLOCK FALSE
