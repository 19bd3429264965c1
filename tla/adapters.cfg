CONSTANTS
  Capacity = 2
  Wasm = {home_meteo}
  Ipc = {zigbee}
  Underscored = {home_meteo}
  Requests = {q1}
  Nobody = Nobody
  MaxPolls = 2
  MaxExits = 1
  MaxIngests = 1
SPECIFICATION Spec
CHECK_DEADLOCK FALSE
INVARIANTS
  ReadyHonest
PROPERTIES
  CommandsEnd
  ChildrenEnd
  Restarted
