--------------------------- MODULE SceneExecution ---------------------------
(***************************************************************************)
(* The executions of one scene (crates/scenes/src/runner.rs): the mode     *)
(* check, the script in a task of its own, and the hand-over of the slot.  *)
(*                                                                         *)
(* Unlike an automation's run, a scene's first run is awaited by the       *)
(* request that asked for it (execute_scene in                             *)
(* crates/api/src/handlers/scenes.rs), and the slot is given up by the     *)
(* code behind that await.  If the request's future is dropped, or the     *)
(* script's task panics, nothing gives it up.  Runs taken from the queue   *)
(* have a task of their own and always do.                                 *)
(***************************************************************************)
EXTENDS Naturals, Sequences, FiniteSets

CONSTANTS
  Runs,         (* the requests for the scene, one run each                  *)
  None,         (* no cancel token                                           *)
  Maxima        (* the values of max a mode may declare                      *)

ASSUME SceneAssumption ==
  /\ IsFiniteSet(Runs) /\ None \notin Runs
  /\ Maxima \subseteq Nat

VARIABLES
  mode,         (* the declared ExecutionMode                                *)
  active,       (* PerSceneConcurrency.active                                *)
  queue,        (* .queue                                                    *)
  cancel,       (* .cancel: the run whose token it is                        *)
  cancelled,    (* the runs whose token is set                               *)
  phase,        (* per run: who will give up its slot                        *)
  script        (* per run: where its script is                              *)

vars == <<mode, active, queue, cancel, cancelled, phase, script>>

-----------------------------------------------------------------------------

Init ==
  /\ mode \in [type : {"parallel", "queued"}, max : Maxima]
              \cup [type : {"single", "restart"}, max : {1}]
  /\ active = 0 /\ queue = <<>> /\ cancel = None
  /\ cancelled = {}
  /\ phase = [r \in Runs |-> "new"]
  /\ script = [r \in Runs |-> "none"]

\* The run's request waits for it, or its own task does; or nobody does.
Attended == {r \in Runs : phase[r] \in {"awaited", "background"}}
Leaked   == {r \in Runs : phase[r] = "abandoned"}
Holding  == Attended \cup Leaked

-----------------------------------------------------------------------------
\* decide_scene_dispatch

Admits ==
  \/ mode.type = "parallel" /\ active < mode.max
  \/ mode.type \in {"single", "queued"} /\ active = 0
  \/ mode.type = "restart"

\* state.cancel.take(), if there is one: the token the new run's replaces.
Revoked == {cancel} \ {None}

\* Run: the script's task is spawned, the request waits for it.
ExecuteRuns(r) ==
  /\ phase[r] = "new" /\ Admits
  /\ active' = active + 1
  /\ IF mode.type = "restart"
       THEN cancelled' = cancelled \cup Revoked /\ cancel' = r
       ELSE UNCHANGED <<cancel, cancelled>>
  /\ phase' = [phase EXCEPT ![r] = "awaited"]
  /\ script' = [script EXCEPT ![r] = "spawned"]
  /\ UNCHANGED <<mode, queue>>

\* Faulty variant: the back-log has no limit.
ExecuteQueued_Unlimited(r) ==
  /\ phase[r] = "new" /\ ~Admits
  /\ mode.type = "queued"
  /\ queue' = Append(queue, r)
  /\ phase' = [phase EXCEPT ![r] = "waiting"]
  /\ UNCHANGED <<mode, active, cancel, cancelled, script>>

\* Queued: 202 Accepted.
ExecuteQueued(r) ==
  /\ phase[r] = "new" /\ ~Admits
  /\ mode.type = "queued" /\ Len(queue) < mode.max
  /\ queue' = Append(queue, r)
  /\ phase' = [phase EXCEPT ![r] = "waiting"]
  /\ UNCHANGED <<mode, active, cancel, cancelled, script>>

\* Drop: 423 Locked.
ExecuteDropped(r) ==
  /\ phase[r] = "new" /\ ~Admits
  /\ ~(mode.type = "queued" /\ Len(queue) < mode.max)
  /\ phase' = [phase EXCEPT ![r] = "refused"]
  /\ UNCHANGED <<mode, active, queue, cancel, cancelled, script>>

-----------------------------------------------------------------------------
\* The script: synchronous code in a task of its own

ScriptBegins(r) ==
  /\ script[r] = "spawned"
  /\ script' = [script EXCEPT ![r] = "running"]
  /\ UNCHANGED <<mode, active, queue, cancel, cancelled, phase>>

\* It returns or fails (also when it is cancelled or over its instructions), or
\* panics.
ScriptEnds(r) ==
  /\ script[r] = "running"
  /\ \E s \in {"returned", "panicked"} : script' = [script EXCEPT ![r] = s]
  /\ UNCHANGED <<mode, active, queue, cancel, cancelled, phase>>

-----------------------------------------------------------------------------
\* run_and_finalize, spawn_queued_scene

\* The slot is given up, and taken by the first that waits, in a task of its own.
HandsOver(r) ==
  LET left == IF active = 0 THEN 0 ELSE active - 1           \* saturating_sub
  IN  IF mode.type = "queued" /\ queue # <<>>
        THEN /\ active' = left + 1
             /\ queue' = Tail(queue)
             /\ phase' = [phase EXCEPT ![r] = "done", ![Head(queue)] = "background"]
             /\ script' = [script EXCEPT ![Head(queue)] = "spawned"]
        ELSE /\ active' = left
             /\ phase' = [phase EXCEPT ![r] = "done"]
             /\ UNCHANGED <<queue, script>>

\* The request's await returns; after a panic it returns the error at once.
RunReturns(r) ==
  /\ phase[r] = "awaited"
  /\ \/ /\ script[r] = "returned"
        /\ HandsOver(r)
     \/ /\ script[r] = "panicked"
        /\ phase' = [phase EXCEPT ![r] = "abandoned"]
        /\ UNCHANGED <<active, queue, script>>
  /\ UNCHANGED <<mode, cancel, cancelled>>

\* Faulty variant: a queued run gives up its slot only if its script returned.
QueuedRunReturns_IfWell(r) ==
  /\ phase[r] = "background"
  /\ \/ /\ script[r] = "returned"
        /\ HandsOver(r)
     \/ /\ script[r] = "panicked"
        /\ phase' = [phase EXCEPT ![r] = "done"]
        /\ UNCHANGED <<active, queue, script>>
  /\ UNCHANGED <<mode, cancel, cancelled>>

\* A queued run's task does not look at the result.
QueuedRunReturns(r) ==
  /\ phase[r] = "background"
  /\ script[r] \in {"returned", "panicked"}
  /\ HandsOver(r)
  /\ UNCHANGED <<mode, cancel, cancelled>>

\* Faulty variant: a dropped request's run counts as over.
CallerGone_Frees(r) ==
  /\ phase[r] = "awaited"
  /\ active' = active - 1
  /\ phase' = [phase EXCEPT ![r] = "done"]
  /\ UNCHANGED <<mode, queue, cancel, cancelled, script>>

\* The client goes away: the server drops the request's future, not the script.
CallerGone(r) ==
  /\ phase[r] = "awaited"
  /\ phase' = [phase EXCEPT ![r] = "abandoned"]
  /\ UNCHANGED <<mode, active, queue, cancel, cancelled, script>>

-----------------------------------------------------------------------------

Execute(r) == ExecuteRuns(r) \/ ExecuteQueued(r) \/ ExecuteDropped(r)

Proceed(r) ==
  ScriptBegins(r) \/ ScriptEnds(r) \/ RunReturns(r) \/ QueuedRunReturns(r)

Next == \E r \in Runs : Execute(r) \/ Proceed(r) \/ CallerGone(r)

\* Tasks are polled, and a script ends at the latest at its instruction limit.
Spec == Init /\ [][Next]_vars /\ \A r \in Runs : WF_vars(Proceed(r))

-----------------------------------------------------------------------------
\* Properties

TypeOK ==
  /\ mode \in [type : {"parallel", "single", "queued", "restart"}, max : Nat]
  /\ active \in Nat
  /\ queue \in Seq(Runs)
  /\ cancel \in Runs \cup {None}
  /\ cancelled \subseteq Runs
  /\ phase \in [Runs -> {"new", "waiting", "refused", "awaited", "background",
                         "abandoned", "done"}]
  /\ script \in [Runs -> {"none", "spawned", "running", "returned", "panicked"}]

\* The counter is exact: a slot is counted once for the run that holds it, also
\* while it passes from a request to the queue, and stays counted if its run is
\* abandoned.
ActiveCounts == active = Cardinality(Holding)

\* No more scripts of the scene run at once than its mode allows, not even when
\* requests are dropped while their scripts go on.
ScriptsBounded ==
  LET running == {r \in Runs : script[r] \in {"spawned", "running"}}
  IN  /\ mode.type = "parallel" => Cardinality(running) <= mode.max
      /\ mode.type \in {"single", "queued"} => Cardinality(running) <= 1

\* A request that was accepted with 202 comes to run, unless a slot has leaked.
AcceptedRuns ==
  \A r \in Runs : phase[r] = "waiting" ~> phase[r] = "done" \/ Leaked # {}

\* The slots behave as the modes promise (ExecutionSlots), but for an abandoned
\* run, which keeps its slot.
Slots == INSTANCE ExecutionSlots WITH occupying <- Holding, waiting <- queue
SlotsKept == Slots!SlotsInit /\ [][Slots!SlotsNext]_(Slots!slotVars)

\* When every script that was started has returned and no request waits for one
\* any more, no slot is taken.
SlotFreed ==
  (/\ Attended = {}
   /\ \A r \in Runs : script[r] \in {"none", "returned"}) => active = 0

=============================================================================
