\* Three occurrences, a crash, a store error and a switch.
CONSTANTS
  Runs = {1, 2, 3, 4}
  None = None
  Maxima = {1, 2}
  Policies <- MCPolicies
  Schedules <- MCSchedules
  RunModes <- MCModes
  MaxClock = 3
  MaxCrashes = 2
  MaxFaults = 1
  MaxSwitches = 1
SPECIFICATION ScheduleSpec
CHECK_DEADLOCK FALSE
INVARIANTS
  CompletedOnce
  CooldownKept
  NoneForgotten
