\* Two requests at a time, two persons that may share a device, one fault.
SPECIFICATION Spec
CONSTANTS
  p1 = p1
  p2 = p2
  d1 = d1
  d2 = d2
  x1 = x1
  x2 = x2
  Absent = Absent
  None = None
  Callers = {c1, c2}
  Persons = {p1, p2}
  Devices = {d1}
  Positions = {x1, x2}
  Zones = {home, work}
  Home = home
  HomeArea <- HomeAt
  Areas <- SomeAreas
  Links <- Shared
  Overlapping <- Overlaps
  MaxCalls = 3
  MaxFaults = 1
INVARIANTS
  Settled
  Told
  CrowdTrue
  RowCurrent
SYMMETRY Symmetry
CHECK_DEADLOCK FALSE
