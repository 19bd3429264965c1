\* Three requests for one scene in every mode, callers that go away, panics.
SPECIFICATION Spec
CONSTANTS
  Runs = {r1, r2, r3}
  None = None
  Maxima = {0, 1, 2}
INVARIANT ScriptsBounded
PROPERTIES AcceptedRuns SlotsKept
CHECK_DEADLOCK FALSE
