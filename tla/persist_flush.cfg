\* A device and a group are created and the process is shut down.
SPECIFICATION PersistSpec
CONSTANTS
  Callers = {c1}
  Devices = {d1}
  Rooms = {r1}
  Groups = {g1}
  Values = {v1}
  NoRoom = NoRoom
  Absent = Absent
  Ops = {"ingest", "addGroup"}
  MaxRepeat = 1
  MaxCalls = 2
  Capacity = 12
  MaxIncidents = 1
INVARIANTS FlushComplete
CHECK_DEADLOCK FALSE
