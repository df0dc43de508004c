SPECIFICATION EvLiveSpec
CONSTANTS
  a = a
  w1 = w1
  Loop = loop
  Nil = nil
  Threads = {w1}
  Targets = {a}
  Receivers = {}
  Types = {1, 2}
  DebounceTypes = {2}
  Delays = {0, 1}
  Timeouts = {}
  Api = {"Post", "Remove", "Register", "Debounce", "Unregister", "Broadcast"}
  ThreadApi = {"Post"}
  MaxTime = 2
  MaxPosts = 2
  PipeSize = 2
CHECK_DEADLOCK FALSE
INVARIANTS
  EvTypeOK
  LoopHears
PROPERTIES
  PostWakesLoop
  TermEndsLoop
