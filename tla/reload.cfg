\* An automation whose schedule ends, and one of the event bus.
CONSTANTS
  Automations = {once, event}
  Starts = {{}, {once, event}}
  Timed = {once}
  Ending = {once}
  Bus = Bus
  Callers = {c1}
  Watcher = Watcher
  Users = {u1}
  MaxReloads = 2
  MaxEdits = 2
  MaxToggles = 1
SPECIFICATION Spec
CHECK_DEADLOCK FALSE
INVARIANTS
  SwapsAgree
  FlagsKept
  WatchedLoaded
PROPERTY
  LatestRuns
