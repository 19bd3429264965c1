------------------------ MODULE MCAutomationSchedule ------------------------
(* A schedule that goes on and one that ends; policies and modes.            *)
EXTENDS AutomationSchedule

MCPolicies ==
  {[cooldown |-> 0, dedupe |-> 0, resumable |-> TRUE],
   [cooldown |-> 2, dedupe |-> 0, resumable |-> TRUE],
   [cooldown |-> 2, dedupe |-> 1, resumable |-> FALSE]}
MCSchedules == {1..4, 1..2}
MCModes ==
  {[type |-> "single", max |-> 1], [type |-> "queued", max |-> 2],
   [type |-> "parallel", max |-> 2]}
=============================================================================
