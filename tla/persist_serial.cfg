\* One caller, a ring that never overflows, a store that does not fail.
SPECIFICATION PersistSpec
CONSTANTS
  Callers = {c1}
  Devices = {d1, d2}
  Rooms = {r1}
  Groups = {g1}
  Values = {v1}
  NoRoom = NoRoom
  Absent = Absent
  Ops = {"ingest", "tracker", "remove", "addRoom", "removeRoom", "addGroup", "removeGroup", "setMembers", "assign"}
  MaxRepeat = 1
  MaxCalls = 4
  Capacity = 12
  MaxIncidents = 1
INVARIANTS NothingOwed
PROPERTIES CatchesUp ShutdownEnds
CHECK_DEADLOCK FALSE
