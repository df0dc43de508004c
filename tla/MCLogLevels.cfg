SPECIFICATION Spec
CONSTANTS
  Levels = {"info", "error"}
  MaxBackends = 1
  MaxEntries = 2
  Reentrant = FALSE
INVARIANTS
  KeepsLevel
