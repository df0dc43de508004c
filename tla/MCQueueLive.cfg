SPECIFICATION LiveSpec
CONSTANTS
  a = a
  b = b
  w1 = w1
  w2 = w2
  r1 = r1
  r2 = r2
  Loop = loop
  Nil = nil
  Threads = {w1}
  Targets = {}
  Receivers = {r1, r2}
  Types = {1}
  DebounceTypes = {}
  Delays = {0, 2}
  Timeouts <- ForeverOrSoon
  Api = {"Broadcast", "RegisterForBroadcasts", "UnregisterForBroadcasts", "Release"}
  MaxTime = 3
  MaxPosts = 2
PROPERTIES
  EventuallyHandled
  BroadcastReaches
  DeadArePruned
