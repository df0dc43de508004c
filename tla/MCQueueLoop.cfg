SPECIFICATION Spec
CONSTANTS
  a = a
  b = b
  w1 = w1
  w2 = w2
  r1 = r1
  r2 = r2
  Loop = loop
  Nil = nil
  Threads = {}
  Targets = {a, b}
  Receivers = {}
  Types = {1, 2}
  DebounceTypes = {2}
  Delays <- OverdueOrSoon
  Timeouts <- ForeverOrSoon
  Api = {"Post", "Broadcast", "Remove", "Debounce", "Register", "Unregister"}
  MaxTime = 3
  MaxPosts = 3
SYMMETRY Symmetry
PROPERTIES
  NeverSkipsDue
