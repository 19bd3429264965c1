------------------------ MODULE AutomationExecution ------------------------
(***************************************************************************)
(* The executions of one automation (crates/automations/src/runner.rs):    *)
(* the mode check a trigger goes through, the task of each run from its    *)
(* delay to its end, the Lua body that task waits for, the backstop        *)
(* timeout, and the hand-over of the slot.                                 *)
(*                                                                         *)
(* The counters are under one mutex, taken once when a trigger arrives and *)
(* once when a run ends.  The Lua body is a task of its own: synchronous   *)
(* code, which an abort cannot stop once it has begun.                     *)
(***************************************************************************)
EXTENDS Naturals, Sequences, FiniteSets

CONSTANTS
  Runs,         (* the triggers of the automation, one run each              *)
  None,         (* no cancel token                                           *)
  Maxima        (* the values of max a mode may declare                      *)

ASSUME ExecutionAssumption ==
  /\ IsFiniteSet(Runs) /\ None \notin Runs
  /\ Maxima \subseteq Nat

VARIABLES
  mode,         (* the declared ExecutionMode                                *)
  active,       (* PerAutomationConcurrency.active                           *)
  queue,        (* .queue                                                    *)
  cancel,       (* .cancel: the run whose token it is                        *)
  cancelled,    (* the runs whose token is set                               *)
  phase,        (* per run: where its task is                                *)
  body          (* per run: where its Lua body is                            *)

vars == <<mode, active, queue, cancel, cancelled, phase, body>>

-----------------------------------------------------------------------------
\* State

\* PerAutomationConcurrency is created on first use; the mode is the catalog's.
Init ==
  /\ mode \in [type : {"parallel", "queued"}, max : Maxima]
              \cup [type : {"single", "restart"}, max : {1}]
  /\ active = 0 /\ queue = <<>> /\ cancel = None
  /\ cancelled = {}
  /\ phase = [r \in Runs |-> "new"]
  /\ body = [r \in Runs |-> "none"]

\* Phases in which a run's task exists.
TaskPhases == {"delay", "policy", "conditions", "awaiting", "persist", "finalize"}

Live == {r \in Runs : phase[r] \in TaskPhases}

\* do_spawn_execution: the task begins with a delay if the event carries one.
FirstPhase == {"delay", "policy"}

-----------------------------------------------------------------------------
\* spawn_automation_execution

\* Faulty variant: a single run is checked for as a bound is.
Admits_Loose ==
  \/ mode.type = "parallel" /\ active < mode.max
  \/ mode.type \in {"single", "queued"} /\ active <= mode.max
  \/ mode.type = "restart"

\* The mode lets a new trigger run at once.
Admits ==
  \/ mode.type = "parallel" /\ active < mode.max
  \/ mode.type \in {"single", "queued"} /\ active = 0
  \/ mode.type = "restart"

\* Faulty variants: the token is taken to be there; the token is not set.
Revoked_Unwrapped == {cancel}
Revoked_Never == {}

\* state.cancel.take(), if there is one: the token the new run's replaces.
Revoked == {cancel} \ {None}

TriggerStarts(r) ==
  /\ phase[r] = "new" /\ Admits
  /\ active' = active + 1
  /\ IF mode.type = "restart"
       THEN cancelled' = cancelled \cup Revoked /\ cancel' = r
       ELSE UNCHANGED <<cancel, cancelled>>
  /\ \E p \in FirstPhase : phase' = [phase EXCEPT ![r] = p]
  /\ UNCHANGED <<mode, queue, body>>

\* Faulty variant: the newest trigger is put before those that wait.
TriggerWaits_Front(r) ==
  /\ phase[r] = "new" /\ ~Admits
  /\ mode.type = "queued" /\ Len(queue) < mode.max
  /\ queue' = <<r>> \o queue
  /\ phase' = [phase EXCEPT ![r] = "waiting"]
  /\ UNCHANGED <<mode, active, cancel, cancelled, body>>

TriggerWaits(r) ==
  /\ phase[r] = "new" /\ ~Admits
  /\ mode.type = "queued" /\ Len(queue) < mode.max
  /\ queue' = Append(queue, r)
  /\ phase' = [phase EXCEPT ![r] = "waiting"]
  /\ UNCHANGED <<mode, active, cancel, cancelled, body>>

TriggerDropped(r) ==
  /\ phase[r] = "new" /\ ~Admits
  /\ ~(mode.type = "queued" /\ Len(queue) < mode.max)
  /\ phase' = [phase EXCEPT ![r] = "dropped"]
  /\ UNCHANGED <<mode, active, queue, cancel, cancelled, body>>

-----------------------------------------------------------------------------
\* do_spawn_execution: the task of a run

GoesTo(r, p) ==
  /\ phase' = [phase EXCEPT ![r] = p]
  /\ UNCHANGED <<mode, active, queue, cancel, cancelled>>

\* confirm_delayed_trigger, should_skip_trigger and first_failed_condition each
\* let the run go on or end it.
ConfirmDelay(r) ==
  /\ phase[r] = "delay"
  /\ \E p \in {"policy", "finalize"} : GoesTo(r, p)
  /\ UNCHANGED body

\* Faulty variant: a skipped run returns without finalize_and_maybe_dequeue.
CheckPolicy_Leaks(r) ==
  /\ phase[r] = "policy"
  /\ \E p \in {"conditions", "done"} : GoesTo(r, p)
  /\ UNCHANGED body

CheckPolicy(r) ==
  /\ phase[r] = "policy"
  /\ \E p \in {"conditions", "finalize"} : GoesTo(r, p)
  /\ UNCHANGED body

CheckConditions(r) ==
  /\ phase[r] = "conditions"
  /\ \/ GoesTo(r, "finalize") /\ UNCHANGED body
     \/ GoesTo(r, "awaiting") /\ body' = [body EXCEPT ![r] = "spawned"]

\* The body's task has ended within the backstop timeout ...
Observe(r) ==
  /\ phase[r] = "awaiting"
  /\ \/ body[r] = "ok" /\ GoesTo(r, "persist")
     \/ body[r] = "error" /\ GoesTo(r, "finalize")
  /\ UNCHANGED body

\* Faulty variant: the timeout waits for the aborted task to be gone.
BackstopTimeout_Joins(r) ==
  /\ phase[r] = "awaiting"
  /\ body[r] = "spawned"
  /\ body' = [body EXCEPT ![r] = "aborted"]
  /\ GoesTo(r, "finalize")

\* ... or it has not: the abort stops it only if it was never polled.
BackstopTimeout(r) ==
  /\ phase[r] = "awaiting"
  /\ body[r] \in {"spawned", "running"}
  /\ body' = [body EXCEPT ![r] = IF @ = "spawned" THEN "aborted" ELSE @]
  /\ GoesTo(r, "finalize")

\* persist_runtime_state
Persist(r) ==
  /\ phase[r] = "persist"
  /\ GoesTo(r, "finalize")
  /\ UNCHANGED body

\* Faulty variant: the slot is given up and the queue is not looked at.
Finalize_NoDequeue(r) ==
  /\ phase[r] = "finalize"
  /\ active' = active - 1
  /\ phase' = [phase EXCEPT ![r] = "done"]
  /\ UNCHANGED <<mode, queue, cancel, cancelled, body>>

\* finalize_and_maybe_dequeue
Finalize(r) ==
  /\ phase[r] = "finalize"
  /\ LET left == IF active = 0 THEN 0 ELSE active - 1        \* saturating_sub
     IN  IF mode.type = "queued" /\ queue # <<>>
           THEN /\ active' = left + 1
                /\ queue' = Tail(queue)
                /\ \E p \in FirstPhase :
                     phase' = [phase EXCEPT ![r] = "done", ![Head(queue)] = p]
           ELSE /\ active' = left
                /\ phase' = [phase EXCEPT ![r] = "done"]
                /\ UNCHANGED queue
  /\ UNCHANGED <<mode, cancel, cancelled, body>>

TaskStep(r) ==
  \/ ConfirmDelay(r) \/ CheckPolicy(r) \/ CheckConditions(r)
  \/ Observe(r) \/ BackstopTimeout(r) \/ Persist(r) \/ Finalize(r)

-----------------------------------------------------------------------------
\* execute_automation: the body, on a worker thread of its own

BodyBegins(r) ==
  /\ body[r] = "spawned"
  /\ body' = [body EXCEPT ![r] = "running"]
  /\ UNCHANGED <<mode, active, queue, cancel, cancelled, phase>>

\* The script returns, fails, panics, or is stopped by the execution hook, which
\* looks at the cancel token every 10 000 instructions.
BodyEnds(r) ==
  /\ body[r] = "running"
  /\ \E b \in {"ok", "error"} : body' = [body EXCEPT ![r] = b]
  /\ UNCHANGED <<mode, active, queue, cancel, cancelled, phase>>

-----------------------------------------------------------------------------

Trigger(r) == TriggerStarts(r) \/ TriggerWaits(r) \/ TriggerDropped(r)

Next == \E r \in Runs : Trigger(r) \/ TaskStep(r) \/ BodyBegins(r) \/ BodyEnds(r)

\* Tasks are polled when ready and timers fire; a script may never return.
Spec == Init /\ [][Next]_vars /\ \A r \in Runs : WF_vars(TaskStep(r))

-----------------------------------------------------------------------------
\* Properties

TypeOK ==
  /\ mode \in [type : {"parallel", "single", "queued", "restart"}, max : Nat]
  /\ active \in Nat
  /\ queue \in Seq(Runs)
  /\ cancel \in Runs \cup {None}
  /\ cancelled \subseteq Runs
  /\ phase \in [Runs -> {"new", "waiting", "dropped", "done"} \cup TaskPhases]
  /\ body \in [Runs -> {"none", "spawned", "running", "ok", "error", "aborted"}]

\* The counter is the number of runs whose task exists: whichever way a run ends
\* (delay not confirmed, skipped, condition failed, finished, timed out) it is
\* counted down once, and the saturating subtraction never saturates.
ActiveCounts == active = Cardinality(Live)

\* A mode's bound holds, over every path a run can end by.
ModeBound ==
  /\ mode.type = "parallel" => active <= mode.max
  /\ mode.type \in {"single", "queued"} => active <= 1
  /\ Len(queue) <= mode.max
  /\ mode.type # "queued" => queue = <<>>

\* A queued trigger always has a run before it that will dequeue it, and is
\* queued once.
NoneStranded ==
  /\ queue # <<>> => Live # {}
  /\ \A i, j \in DOMAIN queue : queue[i] = queue[j] => i = j
  /\ \A r \in Runs : phase[r] = "waiting" <=> \E i \in DOMAIN queue : queue[i] = r

\* In restart mode every run but the latest has been told to stop: two runs that
\* nobody has cancelled are never alive together.
OneUncancelled ==
  mode.type = "restart" => Live \ cancelled \subseteq {cancel}

\* At most one script of the automation executes at a time in the modes that
\* promise it.
OneBodyAtATime ==
  mode.type \in {"single", "queued"} =>
    \A r, s \in Runs : body[r] = "running" /\ body[s] = "running" => r = s

\* A trigger that was let in or queued comes to its end, even when the scripts
\* before it never return: the backstop timeout frees the slot.
EveryRunEnds ==
  \A r \in Runs : phase[r] \in TaskPhases \cup {"waiting"} ~> phase[r] = "done"

\* The slots behave as the modes promise (ExecutionSlots): a slot is never left
\* free while a trigger waits, and waiting triggers start in their order.
Slots == INSTANCE ExecutionSlots WITH occupying <- Live, waiting <- queue
SlotsImplemented == Slots!SlotsSpec

=============================================================================
