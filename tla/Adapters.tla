------------------------------ MODULE Adapters ------------------------------
(***************************************************************************)
(* All adapters of a server, from its start to its shutdown                *)
(* (crates/api/src/startup.rs): those in the process, whose runtime and    *)
(* monitor run in one task, and those in processes of their own, which     *)
(* report to POST /ingest/devices and are heard by the same monitor.       *)
(***************************************************************************)
EXTENDS AdapterRuntime

CONSTANTS
  MaxExits,    (* bound: exits of a process and failures to spawn it        *)
  MaxIngests   (* bound: reports of an adapter, and commands to it          *)

VARIABLES
  child, backoff, exits, stopping,     (* of IpcHost                        *)
  stage,      (* of run(): "starting", "serving", "draining", "leaving",    *)
              (* "stopped"                                                  *)
  ingests     (* reports taken from each adapter                            *)

INSTANCE IpcHost

ASSUME ExitsAssumption == MaxExits \in Nat

hostVars == <<child, backoff, exits, stopping>>
serverVars == <<stage, ingests>>
vars == <<runtimeVars, hostVars, serverVars>>

Init ==
  /\ RuntimeInit /\ HostInit
  /\ stage = "starting"
  /\ ingests = [a \in Ipc |-> 0]

Serving == stage \in {"serving", "draining"}

\* The task of the runtime may begin any time after it was spawned.
Runtime ==
  /\ \/ RunBegins
     \/ stage \in {"draining", "leaving", "stopped"} /\ AbortAdapters
     \/ \E a \in Wasm :
          \/ AdapterStarts(a) \/ PollBegins(a) \/ PollReturns(a) \/ PollPanics(a)
          \/ JoinFailed(a) \/ AbandonedPollEnds(a)
  /\ UNCHANGED <<hostVars, serverVars>>

Monitor ==
  /\ MonitorReceives \/ MonitorLags \/ MonitorAborted
  /\ UNCHANGED <<hostVars, serverVars>>

Commands ==
  /\ \E q \in Requests :
       \/ Serving /\ \E a \in Wasm : CommandBegins(q, a)
       \/ CommandLocks(q) \/ CommandEnds(q)
  /\ UNCHANGED <<hostVars, serverVars>>

\* The loops of the processes begin when they are spawned, before the server
\* is up.
Children ==
  /\ \E a \in Ipc : SpawnChild(a) \/ ChildExits(a) \/ KillChild(a) \/ Pause(a) \/ PauseEnds(a)
  /\ UNCHANGED <<runtimeVars, serverVars>>

\* ingest_devices: the devices it changes, then the sign of life.
Ingest(a) ==
  /\ Serving /\ child[a] = "up"
  /\ ingests[a] < MaxIngests /\ ingests' = [ingests EXCEPT ![a] = @ + 1]
  /\ Publish(Started(a))
  /\ UNCHANGED <<run, lock, poisoned, polls, driver, monitor, health, command>>
  /\ UNCHANGED <<hostVars, stage>>

\* A command to such an adapter is published, and a device's change is.
Dispatch(a) ==
  /\ Serving
  /\ ingests[a] < MaxIngests /\ ingests' = [ingests EXCEPT ![a] = @ + 1]
  /\ CommandDispatched(a)
  /\ UNCHANGED <<hostVars, stage>>

Starts ==
  /\ stage = "starting"
  /\ stage' = "serving"
  /\ StartupCompletes
  /\ UNCHANGED <<hostVars, ingests>>

Signal ==
  /\ stage = "serving"
  /\ stage' = "draining"
  /\ UNCHANGED <<runtimeVars, hostVars, ingests>>

\* The requests are drained or their time is over: the runtime's task is
\* aborted, unless it has ended, and then the processes are told.
StopRuntime ==
  /\ stage = "draining"
  /\ stage' = "leaving"
  /\ \/ RuntimeTaskAborted
     \/ driver = "returned" /\ UNCHANGED runtimeVars
  /\ UNCHANGED <<hostVars, ingests>>

StopHost ==
  /\ stage = "leaving"
  /\ stage' = "stopped"
  /\ HostShutdown
  /\ UNCHANGED <<runtimeVars, ingests>>

Next ==
  \/ Runtime \/ Monitor \/ Commands \/ Children
  \/ \E a \in Ipc : Ingest(a) \/ Dispatch(a)
  \/ Starts \/ Signal \/ StopRuntime \/ StopHost

\* Tasks that can run do.  A guest that loops, a process that exits and what
\* callers do are nobody's duty; a waiting thread gets a mutex that is free
\* again and again, as the polls leave it free while their task sleeps.
Fairness ==
  /\ WF_vars(Monitor)
  /\ \A a \in Ipc :
       WF_vars((SpawnChild(a) \/ KillChild(a) \/ Pause(a) \/ PauseEnds(a))
               /\ UNCHANGED <<runtimeVars, serverVars>>)
  /\ \A a \in Wasm :
       WF_vars((PollReturns(a) \/ AbandonedPollEnds(a)) /\ UNCHANGED <<hostVars, serverVars>>)
  /\ \A q \in Requests :
       /\ SF_vars(CommandLocks(q) /\ UNCHANGED <<hostVars, serverVars>>)
       /\ SF_vars(CommandEnds(q) /\ UNCHANGED <<hostVars, serverVars>>)
  /\ WF_vars(StopRuntime) /\ WF_vars(StopHost)

Spec == Init /\ [][Next]_vars /\ Fairness

-----------------------------------------------------------------------------
\* Properties

Signs == {"starting", "ok", "error"}

AdaptersTypeOK ==
  /\ HostTypeOK
  /\ run \in [Wasm -> {"none", "spawned", "due", "polling", "failed", "joined"}]
  /\ lock \in [Wasm -> {"free", "poll", "hung"} \cup Requests]
  /\ poisoned \subseteq Wasm
  /\ driver \in {"waiting", "running", "returned", "cancelled"}
  /\ monitor \in {"none", "running", "aborted"}
  /\ receiver \in Receiver(Event) /\ Len(receiver.buf) <= Capacity
  /\ command \in [Requests -> Wasm \cup {Nobody}]
  /\ \A a \in Wasm : run[a] = "polling" => lock[a] \in {"poll", "hung"}
  /\ \A a \in Wasm, q \in Requests : lock[a] = q => command[q] = a
  /\ told \in [adapter : [AllAdapters -> Signs], error : BOOLEAN, covered : BOOLEAN]
  /\ health \in [startup : BOOLEAN, runtime : Signs, adapter : [AllAdapters -> Signs]]

\* What /ready says is what was published: when the monitor has read all it
\* can, the server is ready only if the last sign of every adapter was good
\* and no failure was published that is charged to none of them, also when
\* events were lost.  Except that the end of the startup covers an error.
CaughtUp == monitor = "running" /\ receiver.buf = <<>> /\ ~receiver.lagged
ReadyHonest ==
  CaughtUp /\ ~told.covered /\ Ready =>
    ~told.error /\ \A a \in AllAdapters : told.adapter[a] = "ok"

\* A command is answered although the plugin panicked in another call, unless
\* a call of the plugin never returns.
CommandsEnd ==
  \A q \in Requests : (command[q] # Nobody) ~>
    (command[q] = Nobody \/ \E a \in Wasm : lock[a] = "hung")

\* When the host is told to stop every process ends and no loop goes on,
\* whatever the loop was doing: waiting for the process, pausing, spawning.
ChildrenEnd == stopping ~> \A a \in Ipc : child[a] = "stopped"

\* A process that went down is up again, unless the host is told to stop.
Restarted == \A a \in Ipc : (child[a] = "down") ~> (child[a] = "up" \/ stopping)

=============================================================================
