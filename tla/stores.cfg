CONSTANTS
  d1 = d1
  d2 = d2
  power = power
  Base = 2
  Devices = {d1, d2}
  Attributes = {power}
  AdapterOf <- MCAdapterOf
  Rooms = {r1}
  Groups = {g1}
  Values = {0, 1}
  Automations = {au1}
  Persons = {p1}
  Places = {z1}
  Hashes = {h1, h2, h3}
  Roles = {admin}
  Worker = worker
  Pruner = pruner
  Requests = {q1, q2}
  NoRow = NoRow
  NoRoom = NoRoom
  Absent = Absent
  Nobody = Nobody
  Unbounded = Unbounded
  Forever = Forever
  Families <- MCFamilies
  Configs <- MCConfigs
  Clock <- MCClock
  Timed <- MCTimed
  MaxCalls <- MCMaxCalls
  MaxFaults = 1
SPECIFICATION Spec
CHECK_DEADLOCK FALSE
INVARIANTS
  StoreTypeOK
  VersionsMeanSchemas
  SameState
  SameHistory
  HistoryTells
  OwnRecordBack
PROPERTIES
  RevokedStays
  ContractKept
