SPECIFICATION Spec
CONSTANTS
  p1 = p1 p2 = p2 p3 = p3 p4 = p4
  Pids = {p1, p2, p3}
  Absent = absent
  Empty = empty
  NotRunning = notRunning
  OwnGroup = ownGroup
  Garbage = {notRunning}
  Exclusive = TRUE
  PidReuse = TRUE
PROPERTIES
  StopsOnlyDaemons
