------------------------- MODULE AutomationSchedule -------------------------
(***************************************************************************)
(* One automation with a schedule and a runtime-state policy: the loop     *)
(* that fires its occurrences (crates/automations/src/triggers/            *)
(* scheduled.rs), the row that a finished run saves and a later one, or    *)
(* the loop of the next process, loads (state.rs), and crashes.  The runs  *)
(* are those of AutomationExecution: an occurrence is the run it triggers. *)
(*                                                                         *)
(* Time is counted in occurrences of the schedule.  Timers may be late and *)
(* scripts may be slow: the clock goes on whatever they do.                *)
(***************************************************************************)
EXTENDS AutomationExecution

CONSTANTS
  Policies,    (* RuntimeStatePolicy: cooldown and dedupe window, 0 for     *)
               (* none, and whether the schedule is resumable               *)
  Schedules,   (* sets of occurrences                                       *)
  RunModes,    (* the execution modes of this instance                      *)
  MaxClock, MaxCrashes, MaxFaults, MaxSwitches   (* bounds                  *)

ASSUME ScheduleAssumption ==
  /\ Runs \subseteq Nat \ {0}
  /\ Schedules \subseteq SUBSET Runs
  /\ Policies \subseteq [cooldown : Nat, dedupe : Nat, resumable : BOOLEAN]
  /\ {MaxClock, MaxCrashes, MaxFaults, MaxSwitches} \subseteq Nat
  /\ None \notin [slot : Nat, at : Nat]

VARIABLES
  policy, occurrences,   (* what the automation's file declares             *)
  clock,
  enabled,     (* the catalog's flag                                        *)
  loop,        (* "starting", "sleeping", "ended"                           *)
  next,        (* next_fire_at                                              *)
  row,         (* the stored AutomationRuntimeState, or None: the           *)
               (* occurrence it was saved for, and when                     *)
  completed,   (* history: occurrences whose row was saved, and the last    *)
  lastSaved,   (* time one was                                              *)
  started,     (* history: occurrences whose script began                   *)
  passed,      (* history: occurrences that were let go knowingly           *)
  blind,       (* history: runs whose load of the row failed                *)
  again, early,          (* history: a script began for a completed         *)
               (* occurrence; one began within the cooldown                 *)
  crashes, faults, switches

loopVars    == <<clock, enabled, loop, next, switches>>
historyVars == <<completed, lastSaved, started, passed, blind, again, early>>
faultVars   == <<crashes, faults>>
fixedVars   == <<policy, occurrences>>
scheduleVars == <<vars, fixedVars, loopVars, row, historyVars, faultVars>>

\* next_schedule_time: the first occurrence after a time, if there is one.
After(t)     == {s \in occurrences : s > t}
NextAfter(t) == CHOOSE s \in After(t) : \A o \in After(t) : s <= o

ScheduleInit ==
  /\ Init /\ mode \in RunModes
  /\ policy \in Policies /\ occurrences \in Schedules
  /\ clock = 0 /\ enabled = TRUE /\ loop = "starting" /\ next = 0
  /\ row = None
  /\ completed = {} /\ lastSaved = 0 /\ started = {} /\ passed = {} /\ blind = {}
  /\ again = FALSE /\ early = FALSE
  /\ crashes = 0 /\ faults = 0 /\ switches = 0

-----------------------------------------------------------------------------
\* The loop

Tick ==
  /\ clock < MaxClock /\ clock' = clock + 1
  /\ UNCHANGED <<vars, fixedVars, enabled, loop, next, switches, row, historyVars, faultVars>>

\* set_automation_enabled; the flag is not stored.
Switch ==
  /\ switches < MaxSwitches /\ switches' = switches + 1
  /\ enabled' = ~enabled
  /\ UNCHANGED <<vars, fixedVars, clock, loop, next, row, historyVars, faultVars>>

\* The loop goes on to the first occurrence after t, or ends.
Awaits(t) ==
  IF After(t) # {} THEN loop' = "sleeping" /\ next' = NextAfter(t)
                   ELSE loop' = "ended" /\ UNCHANGED next

StoreFails == faults < MaxFaults /\ faults' = faults + 1

\* Faulty variant: every schedule begins with the next occurrence from now.
LoopStarts_Now ==
  /\ loop = "starting"
  /\ Awaits(clock)
  /\ passed' = passed \cup {s \in occurrences : row = None /\ s <= clock}
  /\ UNCHANGED <<vars, fixedVars, clock, enabled, switches, row, completed, lastSaved, started,
                 blind, again, early, faultVars>>

\* next_scheduled_fire_after: a resumable schedule goes on after the occurrence
\* of the row; without a row, or when it cannot be loaded, from now on.
LoopStarts ==
  /\ loop = "starting"
  /\ \/ /\ policy.resumable /\ row # None
        /\ Awaits(row.slot)
        /\ UNCHANGED <<passed, faults>>
     \/ /\ \/ ~policy.resumable /\ UNCHANGED faults
           \/ policy.resumable /\ row = None /\ UNCHANGED faults
           \/ policy.resumable /\ row # None /\ StoreFails
        /\ Awaits(clock)
        /\ passed' = passed \cup {s \in occurrences : s <= clock}
  /\ UNCHANGED <<vars, fixedVars, clock, enabled, switches, row, completed, lastSaved, started,
                 blind, again, early, crashes>>

Due == loop = "sleeping" /\ next <= clock

\* An automation that is off goes on from now: what was due meanwhile is passed.
LoopSkips ==
  /\ Due /\ ~enabled
  /\ Awaits(clock)
  /\ passed' = passed \cup {s \in occurrences : next <= s /\ s <= clock}
  /\ UNCHANGED <<vars, fixedVars, clock, enabled, switches, row, completed, lastSaved, started,
                 blind, again, early, faultVars>>

\* A scheduled event carries no delay.
Undelayed == \A r \in Runs : phase'[r] # "delay"

\* The loop looks for the occurrence after this one before it fires this one:
\* the last of a schedule is not fired.
LoopFires ==
  /\ Due /\ enabled
  /\ Awaits(next)
  /\ IF After(next) # {}
       THEN /\ Trigger(next) /\ Undelayed
            /\ passed' = passed \cup {s \in {next} : phase'[s] = "dropped"}
       ELSE passed' = passed \cup {next} /\ UNCHANGED vars
  /\ UNCHANGED <<fixedVars, clock, enabled, switches, row, completed, lastSaved, started, blind,
                 again, early, faultVars>>

-----------------------------------------------------------------------------
\* The runs

\* should_skip_trigger, with the row as it was loaded.
Within(window, state) == state # None /\ clock < state.at + window
Skips(s, state) ==
  \/ Within(policy.cooldown, state)
  \/ Within(policy.dedupe, state) /\ state.slot = s
  \/ policy.resumable /\ state # None /\ s <= state.slot

\* A row that cannot be loaded counts as none.
RunChecks(s) ==
  /\ CheckPolicy(s)
  /\ \/ phase'[s] = (IF Skips(s, row) THEN "finalize" ELSE "conditions")
        /\ UNCHANGED <<blind, faults>>
     \/ row # None /\ StoreFails /\ phase'[s] = "conditions" /\ blind' = blind \cup {s}
  /\ passed' = passed \cup {r \in {s} : phase'[s] = "finalize" /\ Within(policy.cooldown, row)}
  /\ UNCHANGED <<fixedVars, loopVars, row, completed, lastSaved, started, again, early, crashes>>

\* A condition that does not hold, or a timeout before the script has begun,
\* lets the occurrence go.
RunGoesOn(s) ==
  /\ CheckConditions(s) \/ Observe(s) \/ BackstopTimeout(s) \/ (Finalize(s) /\ Undelayed)
  /\ passed' = passed \cup
       {r \in {s} : phase[s] # "finalize" /\ phase'[s] = "finalize"
                      /\ body'[s] \in {"none", "aborted"}}
  /\ UNCHANGED <<fixedVars, loopVars, row, completed, lastSaved, started, blind, again, early,
                 faultVars>>

\* Faulty variant: the row has the time the occurrence was scheduled for.
SavedRow_Scheduled(s) == [slot |-> s, at |-> s]

\* What persist_runtime_state writes, over whatever is there.
SavedRow(s) == [slot |-> s, at |-> clock]

RunSaves(s) ==
  /\ Persist(s)
  /\ \/ /\ row' = SavedRow(s)
        /\ completed' = completed \cup {s} /\ lastSaved' = clock
        /\ UNCHANGED faults
     \/ StoreFails /\ UNCHANGED <<row, completed, lastSaved>>
  /\ UNCHANGED <<fixedVars, loopVars, started, passed, blind, again, early, crashes>>

ScriptBegins(s) ==
  /\ BodyBegins(s)
  /\ started' = started \cup {s}
  /\ again' = (again \/ s \in completed)
  /\ early' = (early \/ (completed # {} /\ s \notin blind /\ clock < lastSaved + policy.cooldown))
  /\ UNCHANGED <<fixedVars, loopVars, row, completed, lastSaved, passed, blind, faultVars>>

ScriptEnds(s) ==
  /\ BodyEnds(s)
  /\ UNCHANGED <<fixedVars, loopVars, row, historyVars, faultVars>>

\* The process dies, and comes back: only the row is left.
Crash ==
  /\ crashes < MaxCrashes /\ crashes' = crashes + 1
  /\ active' = 0 /\ queue' = <<>> /\ cancel' = None /\ cancelled' = {}
  /\ phase' = [r \in Runs |-> "new"] /\ body' = [r \in Runs |-> "none"]
  /\ enabled' = TRUE /\ loop' = "starting" /\ next' = 0 /\ blind' = {}
  /\ UNCHANGED <<mode, fixedVars, clock, switches, row, completed, lastSaved, started, passed,
                 again, early, faults>>

-----------------------------------------------------------------------------

Loop == LoopStarts \/ LoopSkips \/ LoopFires

RunStep(s) == RunChecks(s) \/ RunGoesOn(s) \/ RunSaves(s)

ScheduleNext ==
  \/ Tick \/ Switch \/ Loop \/ Crash
  \/ \E s \in Runs : RunStep(s) \/ ScriptBegins(s) \/ ScriptEnds(s)

ScheduleSpec == ScheduleInit /\ [][ScheduleNext]_scheduleVars

-----------------------------------------------------------------------------
\* Properties

\* Modes in which one run follows another.
Serial == mode.type \in {"single", "queued"} \/ (mode.type = "parallel" /\ mode.max = 1)

\* "A server restart won't repeat a slot that already fired" (state.rs), and
\* neither does anything else, if the slot's row was ever saved: in the modes
\* whose runs follow one another, whatever fails and whenever the process dies.
CompletedOnce == Serial => ~again

\* A script does not begin within the cooldown of a run that was recorded, also
\* across a restart, unless its own load of the row failed.
CooldownKept == Serial => ~early

\* No occurrence is forgotten: when nothing is due or under way, each has had
\* its script, or was let go for a reason the code knows: switched off, dropped
\* by the mode, in the cooldown, a condition, a timeout, a schedule that ends,
\* or a start without a row to resume from.
NoneForgotten ==
  Serial /\ loop = "sleeping" /\ clock < next /\ Live = {} =>
    \A s \in occurrences : s <= clock => s \in started \cup passed

=============================================================================
