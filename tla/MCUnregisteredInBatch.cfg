SPECIFICATION Spec
CONSTANTS
  a = a
  b = b
  w1 = w1
  w2 = w2
  r1 = r1
  r2 = r2
  Loop = loop
  Nil = nil
  Threads = {}
  Targets = {a, b}
  Receivers = {}
  Types = {1}
  DebounceTypes = {}
  Delays = {0}
  Timeouts = {1}
  Api = {"Post", "Register", "Unregister"}
  MaxTime = 2
  MaxPosts = 2
PROPERTIES
  HandledWhileRegistered
