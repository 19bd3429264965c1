\* One caller, every operation, a ring of one slot, and two store errors,
\* shutdowns or crashes.
SPECIFICATION PersistSpec
CONSTANTS
  Callers = {c1}
  Devices = {d1}
  Rooms = {r1}
  Groups = {g1}
  Values = {v1, v2}
  NoRoom = NoRoom
  Absent = Absent
  Ops = {"ingest", "tracker", "remove", "addRoom", "removeRoom", "addGroup", "removeGroup", "setMembers", "assign"}
  MaxRepeat = 2
  MaxCalls = 4
  Capacity = 1
  MaxIncidents = 2
INVARIANTS PersistTypeOK RoomsIntact MembersIntact NoSilentDivergence ReconcileExact
SYMMETRY Symmetry
CHECK_DEADLOCK FALSE
