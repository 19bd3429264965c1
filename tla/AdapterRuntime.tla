--------------------------- MODULE AdapterRuntime ---------------------------
(***************************************************************************)
(* The adapters that run in the server's process, and how their health is  *)
(* known: Runtime::run_until (crates/core/src/runtime.rs) drives the tasks *)
(* of WasmAdapter (crates/plugin-host/src/adapter.rs), which publish what  *)
(* happens to them on the event bus; monitor_runtime_health                *)
(* (crates/api/src/workers.rs) reads it there and writes HealthState       *)
(* (crates/api/src/state.rs).                                              *)
(*                                                                         *)
(* A plugin is called under a mutex, for a poll or a command.  A call may  *)
(* panic, which poisons the mutex for good, and nothing bounds how long it *)
(* takes.  The health of persistence and of the automations is not here.   *)
(***************************************************************************)
EXTENDS EventBus, FiniteSets

CONSTANTS
  Wasm,        (* adapters in the process                                   *)
  Ipc,         (* adapters in processes of their own                        *)
  Underscored, (* the names with an underscore in them                      *)
  Requests,    (* callers of command_device                                 *)
  Nobody,
  MaxPolls     (* bound: polls of all adapters                              *)

ASSUME NamesAssumption ==
  /\ Wasm \cap Ipc = {} /\ Underscored \subseteq Wasm \cup Ipc
  /\ Nobody \notin Wasm \cup Ipc
  /\ Requests \cap {"free", "poll", "hung"} = {}

VARIABLES
  run,        (* the task of each in-process adapter                        *)
  lock,       (* who holds the plugin: "free", "poll", "hung", or a request *)
  poisoned,   (* adapters whose plugin panicked                             *)
  polls,
  driver,     (* run_until: "waiting", "running", "returned" or              *)
              (* "cancelled"                                                *)
  monitor,    (* the monitor's task: "none", "running", "aborted"           *)
  receiver,
  health,
  command,    (* the adapter each request waits for or calls, or Nobody     *)
  told        (* history: what was published of each adapter, whether an    *)
              (* error was published that is charged to no adapter, and     *)
              (* whether the end of the startup covered an error            *)

runtimeVars == <<run, lock, poisoned, polls, driver, monitor, receiver, health, command, told>>

AllAdapters == Wasm \cup Ipc
Event == [type : {"started"}, adapter : AllAdapters]
         \cup [type : {"error"}, adapter : AllAdapters \cup {Nobody}] \cup {[type |-> "device"]}

Started(a) == [type |-> "started", adapter |-> a]
Device     == [type |-> "device"]

\* "<name> poll failed", of which adapter_name_from_system_error takes the
\* first word if it has an underscore.
PollError(a) == [type |-> "error", adapter |-> IF a \in Underscored THEN a ELSE Nobody]

\* "adapter '<name>' failed": its first word is no adapter.
RunError == [type |-> "error", adapter |-> Nobody]

Publish(e) ==
  /\ receiver' = IF monitor = "running" THEN Published(receiver, e) ELSE receiver
  /\ told' = CASE e.type = "started" -> [told EXCEPT !.adapter[e.adapter] = "ok"]
               [] e.type = "error" /\ e.adapter # Nobody ->
                    [told EXCEPT !.adapter[e.adapter] = "error"]
               [] e.type = "error" /\ e.adapter = Nobody -> [told EXCEPT !.error = TRUE]
               [] e.type = "device" -> told

RuntimeInit ==
  /\ run = [a \in Wasm |-> "none"]
  /\ lock = [a \in Wasm |-> "free"]
  /\ poisoned = {}
  /\ polls = 0
  /\ driver = "waiting"
  /\ monitor = "none"
  /\ receiver = Subscribed
  /\ health = [startup |-> FALSE, runtime |-> "starting",
               adapter |-> [a \in AllAdapters |-> "starting"]]
  /\ command = [q \in Requests |-> Nobody]
  /\ told = [adapter |-> [a \in AllAdapters |-> "starting"], error |-> FALSE, covered |-> FALSE]

-----------------------------------------------------------------------------
\* run_until and the adapters' tasks

\* The monitor subscribes, then the adapters' tasks are spawned.
RunBegins ==
  /\ driver = "waiting"
  /\ driver' = "running"
  /\ monitor' = "running"
  /\ run' = [a \in Wasm |-> "spawned"]
  /\ UNCHANGED <<lock, poisoned, polls, receiver, health, command, told>>

AdapterStarts(a) ==
  /\ run[a] = "spawned"
  /\ run' = [run EXCEPT ![a] = "due"]
  /\ Publish(Started(a))
  /\ UNCHANGED <<lock, poisoned, polls, driver, monitor, health, command>>

\* spawn_blocking(plugin.lock().unwrap().plugin_poll()): a guest may loop.
PollBegins(a) ==
  /\ run[a] = "due" /\ lock[a] = "free" /\ a \notin poisoned
  /\ polls < MaxPolls /\ polls' = polls + 1
  /\ run' = [run EXCEPT ![a] = "polling"]
  /\ \E h \in {"poll", "hung"} : lock' = [lock EXCEPT ![a] = h]
  /\ UNCHANGED <<poisoned, driver, monitor, receiver, health, command, told>>

\* The updates are applied, or the error is published; then the task sleeps.
PollReturns(a) ==
  /\ run[a] = "polling" /\ lock[a] = "poll"
  /\ lock' = [lock EXCEPT ![a] = "free"]
  /\ run' = [run EXCEPT ![a] = "due"]
  /\ \/ UNCHANGED <<receiver, told>>
     \/ Publish(Device)
     \/ Publish(PollError(a))
  /\ UNCHANGED <<poisoned, polls, driver, monitor, health, command>>

\* The poll panics, or finds the mutex poisoned: the task returns an error.
PollPanics(a) ==
  /\ \/ run[a] = "polling" /\ lock[a] = "poll"
     \/ run[a] = "due" /\ lock[a] = "free" /\ a \in poisoned
  /\ poisoned' = poisoned \cup {a}
  /\ lock' = [lock EXCEPT ![a] = "free"]
  /\ run' = [run EXCEPT ![a] = "failed"]
  /\ UNCHANGED <<polls, driver, monitor, receiver, health, command, told>>

\* join_next(): the failure is published, and after the last one run returns.
JoinFailed(a) ==
  /\ driver = "running"
  /\ run[a] = "failed"
  /\ run' = [run EXCEPT ![a] = "joined"]
  /\ Publish(RunError)
  /\ driver' = IF \A b \in Wasm \ {a} : run[b] = "joined" THEN "returned" ELSE driver
  /\ UNCHANGED <<lock, poisoned, polls, monitor, health, command>>

\* Ctrl-C: run_until aborts the tasks.  A plugin's call goes on to its end.
AbortAdapters ==
  /\ driver = "running"
  /\ driver' = "returned"
  /\ run' = [a \in Wasm |-> "joined"]
  /\ UNCHANGED <<lock, poisoned, polls, monitor, receiver, health, command, told>>

\* The call of a poll whose task was aborted ends.
AbandonedPollEnds(a) ==
  /\ run[a] = "joined" /\ lock[a] = "poll"
  /\ lock' = [lock EXCEPT ![a] = "free"]
  /\ UNCHANGED <<run, poisoned, polls, driver, monitor, receiver, health, command, told>>

-----------------------------------------------------------------------------
\* Commands

\* Runtime::command_device: an adapter in the process is called.
CommandBegins(q, a) ==
  /\ command[q] = Nobody
  /\ command' = [command EXCEPT ![q] = a]
  /\ UNCHANGED <<run, lock, poisoned, polls, driver, monitor, receiver, health, told>>

\* One of another process is told by an event, whether or not it listens.
CommandDispatched(a) ==
  /\ a \in Ipc
  /\ Publish(Device)
  /\ UNCHANGED <<run, lock, poisoned, polls, driver, monitor, health, command>>

CommandLocks(q) ==
  LET a == command[q] IN
  /\ a # Nobody /\ lock[a] = "free" /\ a \notin poisoned
  /\ \E h \in {q, "hung"} : lock' = [lock EXCEPT ![a] = h]
  /\ UNCHANGED <<run, poisoned, polls, driver, monitor, receiver, health, command, told>>

\* Faulty variant: a request waits on a poisoned mutex.
CommandEnds_Waits(q) ==
  LET a == command[q] IN
  /\ a # Nobody
  /\ lock[a] = q
  /\ poisoned' \in {poisoned, poisoned \cup {a}}
  /\ lock' = [lock EXCEPT ![a] = "free"]
  /\ command' = [command EXCEPT ![q] = Nobody]
  /\ UNCHANGED <<run, polls, driver, monitor, receiver, health, told>>

\* The call returns or panics; a poisoned mutex makes it panic at once.
CommandEnds(q) ==
  LET a == command[q] IN
  /\ a # Nobody
  /\ \/ lock[a] = q /\ poisoned' \in {poisoned, poisoned \cup {a}}
     \/ lock[a] = "free" /\ a \in poisoned /\ UNCHANGED poisoned
  /\ lock' = [lock EXCEPT ![a] = "free"]
  /\ command' = [command EXCEPT ![q] = Nobody]
  /\ UNCHANGED <<run, polls, driver, monitor, receiver, health, told>>

-----------------------------------------------------------------------------
\* Health

Ready == health.startup /\ health.runtime = "ok" /\ \A a \in AllAdapters : health.adapter[a] = "ok"

\* mark_startup_complete
StartupCompletes ==
  /\ health' = [health EXCEPT !.startup = TRUE, !.runtime = "ok"]
  /\ told' = [told EXCEPT !.covered = health.runtime = "error"]
  /\ UNCHANGED <<run, lock, poisoned, polls, driver, monitor, receiver, command>>

\* What an event tells the monitor.
Noted(e) ==
  CASE e.type = "started" -> [health EXCEPT !.adapter[e.adapter] = "ok"]
    [] e.type = "error" /\ e.adapter # Nobody -> [health EXCEPT !.adapter[e.adapter] = "error"]
    [] e.type = "error" /\ e.adapter = Nobody -> [health EXCEPT !.runtime = "error"]
    [] e.type = "device" -> health

MonitorReceives ==
  /\ monitor = "running"
  /\ HasEvent(receiver)
  /\ health' = Noted(Head(receiver.buf))
  /\ receiver' = AfterEvent(receiver)
  /\ UNCHANGED <<run, lock, poisoned, polls, driver, monitor, command, told>>

\* Faulty variant: a lag is only logged.
MonitorLags_Logs ==
  /\ monitor = "running"
  /\ HasLagged(receiver)
  /\ receiver' = AfterLagged(receiver)
  /\ UNCHANGED <<run, lock, poisoned, polls, driver, monitor, health, command, told>>

\* Events were lost: the runtime's health is an error from now on.
MonitorLags ==
  /\ monitor = "running"
  /\ HasLagged(receiver)
  /\ health' = [health EXCEPT !.runtime = "error"]
  /\ receiver' = AfterLagged(receiver)
  /\ UNCHANGED <<run, lock, poisoned, polls, driver, monitor, command, told>>

\* The task of runtime.run() is aborted before: the monitor is left alone.
RuntimeTaskAborted ==
  /\ driver \in {"waiting", "running"}
  /\ driver' = "cancelled"
  /\ run' = [a \in Wasm |-> "joined"]
  /\ UNCHANGED <<lock, poisoned, polls, monitor, receiver, health, command, told>>

\* runtime.run() has returned: the monitor is aborted, whatever it has to read.
MonitorAborted ==
  /\ driver = "returned" /\ monitor = "running"
  /\ monitor' = "aborted"
  /\ UNCHANGED <<run, lock, poisoned, polls, driver, receiver, health, command, told>>

=============================================================================
