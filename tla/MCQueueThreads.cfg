SPECIFICATION Spec
CONSTANTS
  a = a
  b = b
  w1 = w1
  w2 = w2
  r1 = r1
  r2 = r2
  Loop = loop
  Nil = nil
  Threads = {w1}
  Targets = {a}
  Receivers = {}
  Types = {1, 2}
  DebounceTypes = {2}
  Delays <- OverdueOrSoon
  Timeouts <- ForeverOrSoon
  Api = {"Post", "Broadcast", "Debounce", "Remove", "Register", "Unregister"}
  MaxTime = 2
  MaxPosts = 3
CHECK_DEADLOCK FALSE
INVARIANTS
  TypeOK
  UnregisterDrains
  DebounceCoalesces
  NoLostWakeup
PROPERTIES
  HandledInOrder
  ImplementsMailbox
