\* Two first reports of one person's devices; nothing but reports overlaps.
SPECIFICATION Spec
CONSTANTS
  p1 = p1
  p2 = p2
  d1 = d1
  d2 = d2
  x1 = x1
  x2 = x2
  Absent = Absent
  None = None
  Callers = {c1, c2}
  Persons = {p1}
  Devices = {d1, d2}
  Positions = {x1, x2}
  Zones = {home}
  Home = home
  HomeArea <- HomeAt
  Areas <- SomeAreas
  Links <- OnePerson
  Overlapping = {"ingest"}
  MaxCalls = 2
  MaxFaults = 0
PROPERTIES LinkKept
CHECK_DEADLOCK FALSE
