# Verification of homecmdr-api

TLA+ models of the homecmdr home-automation server (`src/crates`), the TLC runs
that check them on small instances, and TLAPS proofs of what holds on every
instance. The models are read off the Rust code; a line reference below is to
`src/crates/...` unless it starts with `config/`.

## 1. Inventory

The server is one process on a multi-threaded tokio runtime. Its parts share a
`Runtime` (event bus and device registry), a SQL store and a few locked maps.

| Component | State | Operations | Talks to | Hard part |
|---|---|---|---|---|
| Event bus `core/bus.rs` | ring of `event_bus_capacity` slots | publish, subscribe, recv | everybody | a slow receiver loses events and is told only that |
| Device registry `core/registry.rs` | three maps, a lock each: devices, rooms, groups | upsert, remove, upsert/remove room, upsert/remove group, set members, assign, restore | bus | an operation is several lock sections; the event comes after the last |
| Registry handlers `api/handlers/devices.rs`, `events.rs`, `plugin-host/adapter.rs` | none | HTTP and adapter calls | registry | read, then write back later |
| Persistence worker `api/workers.rs`, `api/helpers.rs` | its receiver, the event in hand | handle an event, reconcile, flush | bus, registry, store | events handled against a newer registry; lag; refused writes; shutdown |
| Stores `store-sql`, `store-postgres` | tables with foreign keys, a schema version | migrate; save, delete, load; history, journals, keys, persons | worker, handlers | constraints reject what the registry accepts; two implementations of one trait; instants as text or as microseconds; migrations cut off |
| Startup `api/startup.rs` | task handles | restore, spawn, drain, flush | all | order of tasks; timed-out drain |
| Automation runner `automations/runner.rs`, `concurrency.rs` | per automation: active, queue, cancel token | trigger, run, time out, finalize | bus, registry, Lua, store | four modes; five ways out of a run; a body that cannot be stopped |
| Runtime state `automations/state.rs` | stored: last trigger, fingerprint, last slot | skip decision, save, next slot | store | read at the start, written at the end |
| Triggers, schedules, conditions `automations/triggers`, `schedule.rs`, `events.rs`, `conditions.rs` | next fire time per loop | match, fire, evaluate | runner | slots missed while down |
| Catalog and reload `automations/catalog.rs`, `api/reload.rs` | catalog, enabled flags, watch channel | reload, enable | supervisor, runner | old executions outlive their catalog |
| Scenes `scenes/runner.rs` | per scene: active, queue, cancel | execute | Lua | the caller's future may be dropped |
| Person registry `core/person_registry.rs` | persons, zones, tracker snapshots, index | location and state reports, CRUD, derive | bus, person store | one read, one write and one event at a time, with awaits between |
| Lua host `lua-host` | a VM per run, an instruction count | run, cancel | adapters | looks at the token every 10 000 instructions |
| Adapters, command dispatch `core/runtime.rs`, `plugin-host/adapter.rs` | a task and a mutex per plugin | poll, command, abort | bus, registry | a call that panics or never returns while others wait |
| IPC host `plugin-host/ipc_host.rs` | a child process and a backoff per entry | spawn, wait, pause, kill | HTTP | a shutdown at any point of the loop |
| Health `api/state.rs` | status per part | ok, error | bus, HTTP | told by events that may be lost; an ok hides an earlier error |
| Capabilities, validation, configuration, HTTP surface | none | pure checks | - | - |

What makes each component correct:

- **bus**: a receiver reads the events in order, or is told of a gap before it
  reads on.
- **registry**: devices are in rooms that exist, groups hold devices that are
  registered, a report does not move a device.
- **persistence**: whenever the worker has nothing left to do, the tables agree
  with the registry, apart from keys whose write failed; a reconciliation
  leaves what it read; it catches up; a shutdown flushes all and ends.
- **automation runner**: the mode's bound; no trigger stranded; FIFO; one
  uncancelled run in restart mode; every run ends.
- **runtime state**: one run per cooldown window, also across a restart; a slot
  whose run was recorded does not fire again; no slot is forgotten.
- **scenes**: as the runner, and a caller that goes away changes nothing.
- **reload**: what is listed, switched and run is one catalog; flags survive;
  what is on disk is loaded; the last catalog runs.
- **persons**: the derived state is that of the latest reports; each change
  gives one history entry and one event; aggregate events alternate.
- **stores**: both hold the same rows and answer the same histories, whatever
  fails; the version never runs ahead of the schema; a revoked key stays so.
- **adapters**: commands are answered, `/ready` does not hide what was published.
- **IPC host**: a child that exits comes back, none is left after the shutdown.

## 2. Plan

Most important first; what is done:

1. `EventBus`, `DeviceRegistry` (extends it), `Persistence` (extends the
   registry, so that the two are composed step by step), the abstract
   `ExecutionSlots` and `AutomationExecution`, which implements it.
2. `SceneExecution`, which keeps to `ExecutionSlots` too, with a caller that may
   go away and a script that may panic.
3. `PersonRegistry`: fixes, derivation under the derive lock, store errors,
   announcements.
4. The stores: `SqliteStore` and `PostgresStore`, run side by side by
   `StoreMirror`, against the abstract `StoreContract`, behind `SchemaMigration`.
5. `AdapterRuntime` and `IpcHost`, composed by `Adapters` with the health they
   are seen through.
6. `AutomationReload`: the catalog's three places, the watcher, the supervisor.
7. `AutomationSchedule` (extends `AutomationExecution`): the schedule's loop, the
   stored row and restarts.
8. Proofs about the registry, the persistence worker, both runners, the
   schedule, the reload, the persons, the migrations, the two stores and the
   adapters (section 6).

What is left:

- `AutomationExecution` under several catalogs: the executions of a catalog that
  was replaced, which outlive it and are not counted by the new one, with the
  row they still save.
- Scenes' and scripts' reloads, and the flags of the health state that are not
  the adapters'.

## 3. Modules

| Module | Models | Notes |
|---|---|---|
| `EventBus` | `core/bus.rs` and the broadcast channel behind it | operators on one receiver: `buf` is what it can still read, `lagged` that it must be told of a gap |
| `DeviceRegistry` | `core/registry.rs`, the calls of its handlers | variables, steps, properties |
| `Persistence` | `api/workers.rs`, `api/helpers.rs`, tables of `store-sql/sqlite.rs`, restart | extends `DeviceRegistry` |
| `ExecutionSlots` | what `ExecutionMode` promises | abstract |
| `AutomationExecution` | `automations/runner.rs`, `concurrency.rs` | refines `ExecutionSlots` |
| `AutomationSchedule` | `automations/triggers/scheduled.rs`, `state.rs`, `schedule.rs` | extends `AutomationExecution` |
| `AutomationReload` | `api/reload.rs`, `automations/catalog.rs`, the supervisor of `api/startup.rs` | variables, steps, properties |
| `SceneExecution` | `scenes/runner.rs`, the handler that awaits it | its steps are those of `ExecutionSlots` |
| `PersonRegistry` | `core/person_registry.rs`, `api/handlers/persons.rs`, their tables | variables, steps, faults, properties |
| `Instants`, `HistoryFilter`, `StoreData` | how instants are kept and compared; `core/history_filter.rs`; the tables and what a caller holds | operators the two stores share |
| `SqliteStore`, `PostgresStore` | `store-sql/sqlite.rs`, `store-postgres/postgres.rs` | an action per call and per statement |
| `SchemaMigration` | `initialize()` of either store | a program of statements, cut off anywhere |
| `SqliteSchema`, `PostgresSchema` | the statements of `migrate_to_v1`... | constants |
| `StoreContract` | what `DeviceStore` promises of devices, rooms and groups (`core/store.rs`) | abstract |
| `StoreMirror` | both stores behind the same callers | composes all of these |
| `AdapterRuntime` | `core/runtime.rs`, `plugin-host/adapter.rs`, `monitor_runtime_health`, `HealthState` | extends `EventBus` |
| `IpcHost` | `plugin-host/ipc_host.rs` | variables and steps |
| `Adapters` | both kinds of adapter under `run` of `api/startup.rs` | composes the two |
| `Persistence_proofs` (with `DeviceRegistry`), `AutomationSchedule_proofs` (with `AutomationExecution`), `StoreMirror_proofs`, `Adapters_proofs`, `SceneExecution_proofs`, `AutomationReload_proofs`, `PersonRegistry_proofs`, `SchemaMigration_proofs` | - | TLAPS |
| `MCPersistence`, `MCPersonRegistry`, `MCStoreMirror`, `MCSqliteMigration`, `MCAutomationSchedule` | - | small instances; symmetry |

An operator whose name has an underscore in it (`SaveGroup_Merges`) is a plausible
mistake, beside the operator it would replace: PROJECT.json, "mutants", names the
property that TLC finds violated by it.

### DeviceRegistry

`rooms`, `devices` and `groups` are the three maps. `call[c]` is the lock section
caller `c` is about to enter, with the values it holds in its locals; `out[c]`
are the events it has still to publish. So an operation is a sequence of steps:

- `upsert` = `IngestRead` or `TrackerUpsert` (what the caller read before it),
  `UpsertCheck` (rooms lock), `UpsertWrite` (devices lock), `Publish`
- `remove` = `RemoveDevice`, `Publish`, `PruneGroups`, `Publish`...
- `remove_room` = `RemoveRoom`, `ClearRoom`, then all events
- `assign_device_to_room` = `AssignCheck`, `AssignWrite`, `Publish`
- `upsert_group`, `set_group_members` = a check under the devices lock and a
  write under the groups lock
- `upsert_room`, `remove_group` = one section

A device is its room and a value that stands for kind, attributes and metadata;
`last_seen` is the choice of `UpsertWrite` between publishing `DeviceSeen` and
nothing. A member list is how often each device occurs in it, because
`create_group` does not remove duplicates and the database refuses them. A call
that fails before it changes anything is no step, except where it fails in a
later section (`UpsertCheck`). `remove` has no caller outside tests; it is kept as
part of the registry's interface.

### Persistence

`db` holds the committed tables. `todo` is the set of the worker's writes in
hand, and `Due` those that may be the next: the order between a reconciliation's
passes is fixed (`Place`), the order within one (a map's iteration) is not. `Accepts` and `Applied` are
the foreign keys, the primary key of `group_members` and the ON DELETE actions.
`WorkerRecv` plans the write of one event from the registry as it then is;
`WorkerLag` and `WorkerShutdown` start a reconciliation, whose three reads are
`SnapRooms`, `SnapGroups` and `SnapDevices`; `WriteFailed` ends a reconciliation and
only skips the write of an event. `mode` is the life of the process: `starting`
(the worker has not subscribed yet), `up`, `stopping` (told to flush),
`flushing`, `down`. `Restart` is `restore_rooms`, `restore` and `restore_groups`.

`owed` and `missed` are history variables: the keys whose last write the store
did not execute, and those whose event was published before the worker
subscribed. No action reads them (except to keep them).

### AutomationExecution

One automation. `active`, `queue`, `cancel` are `PerAutomationConcurrency`;
`phase[r]` is where the task of run `r` is in `do_spawn_execution`, `body[r]` where
its script is. A trigger is decided in one step (one mutex section); each await
of the task is a step; `Finalize` is the second mutex section together with the
spawn of the run it dequeues. The verdicts of delay, policy, conditions and
script are arbitrary. `BackstopTimeout` aborts a body that has not been polled
and leaves a running one running.

`ExecutionSlots` says the same without tasks: who holds a slot, who waits, that
a slot falling free goes to the first that waits, and that no run holds its
slot for ever. The mapping is `occupying <- Live`, `waiting <- queue`.

### SceneExecution

One scene. The variables are those of `AutomationExecution`, with one phase per
answer to "who will give up this run's slot": the request that awaits it
(`awaited`), a task of its own (`background`, for a run from the queue), or
nobody (`abandoned`). `CallerGone` is the server dropping the handler's future
while the script's own task goes on; a script that panics leaves its request by
the `?` behind the await (`RunReturns`), but not a queued run, whose task
ignores the result (`QueuedRunReturns`). The mapping to `ExecutionSlots` is
`occupying <- Attended \cup Leaked`: an abandoned run keeps its slot, so that the
steps are kept and the promise that no run keeps its slot for ever is not.

### PersonRegistry

`persons`, `zones` and `fixes` are the maps of `Inner`; `device_to_persons` is a
function of the first (`LinkedTo`), since every writer rebuilds it. `call[c]` is
the lock section or store statement a request is about to enter, with its
locals. So

- `ingest_location` = `IngestLooks`, `IngestLinked`, and if the device is not
  linked `IngestReadsLinks`, `ClearRows`, `InsertRow`..., `LinkWrite`; then
  `handle_device_state_changed` = `HandleReads`, `FixWrite`, a derivation of each
  person linked
- link and unlink = the new list from a read (`LinkReads`, `UnlinkReads`), the
  rows, the list, a derivation
- `re_derive_person` = `DeriveReads` (takes `derive_lock`, compares), then `Drift`,
  or `StateWrite`, `RowRead`, `RowWrite`, `Announce` (behind the history's row) and
  `Crowd`
- create and update = `SaveRow`, `PutPerson`, `Tell`; remove = `RemoveRow`,
  `DropPerson`, `TellRemoved`
- zones = `ZoneRow`, `PutZone`, or `RemoveZone`, `DropZone`; then, except for a
  new zone, `DeriveAll` and a derivation of each person

A coordinate is one of a few positions and a zone the set of positions it
covers. `detect_zone` looks at `home` first and at the others in the order of a
hash map, hence the set of outcomes of `StatesAt`. Times are counted in fixes,
which is all that is compared: two fixes never have the same, and a row has the
time of the latest fix before it.

Faults are a store call that fails (`StoreFails`: the request ends, a loop over
persons goes on), a request whose future is dropped (`Dropped`) and a restart.
`said` and `crowd` are what the bus has last told of each person and of the
house; `behind` and `cut` say whom a request owes a derivation it never came to,
and whose change a fault left half. No step reads any of the four.

The derivation's cases for stationary and BLE trackers are left out because
nothing reaches them: `handle_device_state_changed` has one caller, which always
reports a GPS fix. In particular nothing subscribes the person registry to the
bus, although its documentation says so: an adapter's tracker report never
moves a person.

### The stores

`tables` (`pgTables`) are the rows of one database, `jobs[c]` the statements a
caller's call has still to execute, with the values it read. A call that is one
statement, or one transaction, is one action; the others are a first action and
one for each statement that follows: `SaveDevice`, `RecordSnapshot`,
`RecordAttribute`..., `SavePrunes`; `UpdateTrackers`, `InsertTracker`...;
`CreateKey`, `ReadBackKey`; `PruneHistory`, `PruneDevices`, `PruneAttributes`.
`Fail` ends a call behind any of its statements, `Crash` all of them; `cut`
remembers that one was. PostgreSQL cuts every instant it is given to
microseconds, the `last_scheduled_at` of a runtime state as well as its
`updated_at`. Foreign keys are in the actions: `DeleteRoom` clears rooms,
`DeleteDevice` takes members along.

`Instants` is where the two differ most. SQLite keeps `to_rfc3339()`, which has
as many digits as it needs, and compares the texts; PostgreSQL cuts to
microseconds. `Render` is that text as a sequence of groups of digits in the
order of ASCII, `TextBefore` the comparison of a `WHERE` clause. `Base` is the
number of ticks of a group: 1000 in the code, 2 in the runs, so that the edges
of all four widths lie close together.

`SchemaMigration` runs a script, the statements of all migrations in order, from
the version it read: `RunCreate`, `RunAdd`, `RunStamp`, and `Stop` between any two.
`Tolerant` is `IF NOT EXISTS` on columns, which PostgreSQL has.

`StoreMirror` gives both stores the same call when each has finished the last,
and lets the statements behind it interleave. Calls of different families share
no table, so a behaviour keeps to one family. `SC` and `PC` map the rows of
either store to `StoreContract`; `ContractKept` is that each implements it.

### AdapterRuntime, IpcHost, Adapters

`run[a]` is where the task of an in-process adapter is, `lock[a]` who holds its
plugin's mutex: a poll, a request, or a call that does not return (`hung`).
`PollPanics` poisons the mutex, after which commands fail but are answered.
`receiver` is the monitor's on the bus; `MonitorReceives` and `MonitorLags` write
`health`, from which `Ready` is computed as `/ready` does. Which adapter an error
is charged to depends on the first word of its text (`PollError`, `RunError`).
`child[a]` is where the loop of a process is. `stage` is how far `run` is:
`Starts`, `Signal`, `StopRuntime` (the drain is over), `StopHost`.
`told` is a history variable: what was published of each adapter last.

### AutomationReload

A catalog is a position in `catalogs`, with its files (`ids`) and the flags that
are off; those who hold an `Arc` of it hold the number. `reload[r]` is where a
reload is: `ReloadBegins` reads the flags, `LoadFiles` the directory,
`SwapCatalog`, `SwapController` and `SendRunner` put the result in its three
places. The watcher's turn is `WatcherTakes` or, within 400 ms of its last,
`WatcherSkips`. A switch takes the controller (`TakeController`) and sets a flag
of that catalog (`SetEnabled`). `supervisor`, `task` and `loops` are the task of
`startup.rs` with the runner it has spawned. `asked`, `overlap`, `disturbed` and
`skipped` are history variables the properties need to say when they do not
apply.

### AutomationSchedule

Time is counted in occurrences of the schedule, and the run an occurrence
triggers has its number. `loop` and `next` are `run_scheduled_trigger_loop`:
`LoopStarts` (`next_scheduled_fire_after`), `LoopSkips` (switched off), `LoopFires`.
`row` is the stored state, saved by `RunSaves` and read by `RunChecks`
(`should_skip_trigger`) and `LoopStarts`; a load that fails counts as no row.
`Crash` leaves the row only. The runs are those of `AutomationExecution`, in its
phases and with its slots, conjoined with what they do here. `completed`,
`lastSaved`, `started`, `passed`, `blind`, `again` and `early` are history
variables.

## 4. Runs

| Run | Checks | Bounds |
|---|---|---|
| `persist_serial` | `NothingOwed`, `CatchesUp`, `ShutdownEnds` | 1 caller, 2 devices, 4 calls, ring of 12 (no lag), 1 incident |
| `persist_lag` | `PersistTypeOK`, `RoomsIntact`, `MembersIntact`, `NoSilentDivergence`, `ReconcileExact` | 1 caller, 1 device, 2 values, lists with a device twice, 4 calls, ring of 1, 2 incidents |
| `persist_flush` | violates `FlushComplete` | 2 calls, shutdown |
| `automation` | `TypeOK`, `ActiveCounts`, `NoneStranded`, `OneUncancelled`, `EveryRunEnds`, `SlotsImplemented` | 3 triggers, `max` 0 to 2 |
| `schedule` | `CompletedOnce`, `CooldownKept`, `NoneForgotten` | 4 occurrences of which 3 come, 2 crashes, 1 store error, 1 switch; 3 policies, 2 schedules, 3 modes |
| `reload` | `SwapsAgree`, `FlagsKept`, `WatchedLoaded`, `LatestRuns` | a request and the watcher, 2 automations, 2 reloads, 2 edits, 1 switch |
| `scenes` | `ScriptsBounded`, `AcceptedRuns`, `SlotsKept` | 3 requests, `max` 0 to 2 |
| `persons` | `Settled`, `Told`, `CrowdTrue`, `RowCurrent` | 2 requests at a time, 3 in all, 1 fault; 2 persons that may share a device, 2 positions, 2 zones |
| `persons_lost_link` | violates `LinkKept` | 2 reports |
| `stores` | `StoreTypeOK`, `VersionsMeanSchemas`, `SameState`, `SameHistory`, `HistoryTells`, `OwnRecordBack`, `RevokedStays`, `ContractKept` | 2 to 4 calls by family, 3 instants, 1 fault; every version to start from |
| `stores_migration` | violates `StartsAgain` | the six migrations of SQLite |
| `adapters` | `ReadyHonest`, `CommandsEnd`, `ChildrenEnd`, `Restarted` | 1 adapter of either kind, 1 request, ring of 2, 2 polls, 1 exit, 1 report |

Why the bounds are enough. Four or five calls create a room, a device in it and
a group of it and take one of them away again, with each step of the worker in
between; two devices let a removal affect one member and leave one. A ring of
one slot lags at every second event and a ring of 12 never does (four calls
publish at most nine events). Two incidents give a failed write and a crash, or
a crash during a flush. Three triggers fill a parallel mode of two and reject
one, or run, queue one and drop one; `max` 0 is accepted by the parser.
`MaxCalls` and `MaxIncidents` are in the guards of `Begin`, `WriteFailed`,
`Shutdown` and `Crash`, and so limit how many calls and faults occur, never
how the system reacts; so do the bounds of the other modules.

In `persons` three requests link a device, report from it and change a zone, or
let two reports race with a deletion; reports, links and unlinks, updates and
removals of zones, and deletions of persons overlap with each other
(`Overlapping`), creations and updates of persons run alone. That is what
the code can bear: `update_person` and the two picture requests put back a whole
person they read before, and the properties fail if they overlap with a
derivation; `create_person` puts an unknown person, without trackers, in the
place of one that exists. The theorems of section 6 need the same (`Apart`), and
nothing else: a new zone, which runs alone here to save states, may overlap. With a second device
that either person may carry too the
properties hold as well (3.4 million states); that instance is too slow to be
kept as a run.

In `stores` four calls save a device, move it, take its room away and save it
again; three saves of one device with the hourly task in between are the
shortest histories of which a part is pruned; four calls create, look up, revoke
and touch a key. Of the three instants the second is a whole second, whose text
has no fraction, the third is in the same microsecond, and the first is pruned
when the third has come. Base 2 puts a retention's cutoff inside a microsecond.

In `schedule` three occurrences and two crashes let a run be recorded, the
process die, and the next one's first occurrence meet it; the schedule that ends
after two, and the one that goes on, take both ways out of the loop. In `reload`
two reloads overlap, or one is followed by another; three reloads were checked
for the invariants too (12.4 million states), and the theorems of section 6
cover any number. In `adapters` the ring of two loses events as soon as three are
published.

Deadlock is not checked in the runs whose calls, triggers or occurrences are
used up in the end: then the system may stop.

What the violations show (PROJECT.json, "findings"):

- `persist_flush`: groups are reconciled before devices; a new group of a new
  device ends the final flush with an error, and both are lost.
- `persons_lost_link`: of two first reports of a person's devices, one link is
  lost and its report ignored, with an answer of 204.
- `stores_migration`: a process that ends between an `ALTER TABLE` and the write
  of the version leaves a database no later start can open.

Properties that are stated in the modules and kept by no run, with what TLC or
TLAPS says of them:

- `ReportsKeepRoom` (`DeviceRegistry`) fails with two callers: a device report
  undoes a room assignment made between its read of the room and its upsert.
  `RoomsIntact`, `MembersIntact` and `NoSilentDivergence` hold for calls that do
  not overlap and fail with two callers, the last because events can be
  published in the order opposite to their effect.
- `OneBodyAtATime` (`AutomationExecution`) fails: the slot of a run that exceeds
  the backstop timeout is freed while its script still runs.
- `SlotFreed` (`SceneExecution`) fails: a request for a scene that is dropped
  while the script runs keeps the scene's slot for good.
- `EnabledRuns` (`AutomationReload`) fails: switch an automation with a schedule
  off, reload, switch it on. The runner of the reload began no loop for it
  (`automations/runner.rs:229-235`), and the flag alone starts none, although
  the handler says that "The change takes effect immediately for the running
  automation runner without reloading the catalog"
  (`api/handlers/automations.rs:87-89`).
- `CompletedOnce`, `CooldownKept` and `NoneForgotten` without `Serial` fail in
  parallel mode with room for two, and parallel with room for eight is the
  default (`lua-host/runtime.rs:42-44`). Two occurrences overlap, the later one
  saves first, the earlier one overwrites its row, and the loop after a restart
  resumes from the earlier: the later occurrence is run again, although
  "resumable schedules persist the last completed scheduled fire so restart
  resumes from the next occurrence" (`config/docs/lua_runtime_guide.md:738`).
  Or the later one saves, the process dies, and the earlier is never made good.
- `ModeBound` is proved with `ActiveCounts`; `PersonsTypeOK`, `AdaptersTypeOK`,
  `ReloadTypeOK` and the `TypeOK` of `SceneExecution` hold in the runs of their
  modules, and all are proved; `PersistTypeOK` contains the `TypeOK` of
  `DeviceRegistry`, which is proved of the registry alone.
- On PostgreSQL, whose columns are added `IF NOT EXISTS`, `StartsAgain` of
  `SchemaMigration` is proved (`TolerantStarts`).

Other behaviour the models have and a reader should know:

- A loop whose load of the row fails at the start begins from now: what was
  missed is skipped. The last occurrence of a schedule that ends is never fired:
  the loop looks for the one after it first, and breaks
  (`triggers/scheduled.rs:78-82`). `NoneForgotten` counts both as let go.
- `run_until` returns when the last in-process adapter has ended, and the
  monitor is aborted then (`api/workers.rs:66`): `/ready` does not change any
  more. `ReadyHonest` speaks of the states in which the monitor runs. With no
  in-process adapter at all it waits for the shutdown: `select!` only disables
  the branch of `join_next` (`core/runtime.rs:147-177`).
- The monitor takes `AdapterStarted` for "An adapter successfully completed its
  first poll" (`api/workers.rs:34`), but a plugin's task publishes it before its
  first poll (`plugin-host/adapter.rs:45-47`), and the model with it. An adapter
  is well for `/ready` before anything has been heard from it, and a first poll
  that hangs leaves it so; `ReadyHonest` speaks of what was published.
- The supervisor ends with a runner that has no loops left; later reloads are
  answered ok and never run. `LatestRuns` excepts that.

## 5. Fairness

- `WF(Worker)`, `WF(InFlight(c))`: a tokio task that is ready is polled; the
  registry's locks are held for no await. Fairness is of the worker as a whole:
  nothing says that `select!` ever prefers the shutdown branch, only that, with
  the events used up or the calls refused after the drain, it is the one left.
  No fairness for `Shutdown`, `Crash`, `Restart` or the arrival of calls.
- `WF(TaskStep(r))`: the task of a run is polled, its timers fire and the store
  answers. Blocking host calls of scripts go through `block_in_place`
  (lua-host/context.rs), so a script does not keep other tasks from a thread.
  No fairness for `BodyBegins` and `BodyEnds`: a script may never return. That is
  what the backstop timeout is for, and `EveryRunEnds` holds because of it.

- `WF(Proceed(r))` of a scene's run: its tasks are polled, and a script ends at
  the latest at its instruction limit (`DEFAULT_MAX_INSTRUCTIONS`). A request is
  not obliged to stay, and `AcceptedRuns` is promised only while no slot has
  leaked.
- `Adapters`: the monitor's task, each loop of a process, and the steps of the
  shutdown are polled (weak fairness). A thread that waits for a plugin's mutex
  gets it if it is free again and again (strong fairness of `CommandLocks` and
  `CommandEnds`): the polls of a plugin sleep between calls, and std mutexes do
  not starve a waiter for ever. None for a guest's call that loops, for the exit
  of a process, or for what callers do.
- `AutomationReload`: a reload that has begun goes on, the runner's task and the
  supervisor are polled. None for users, edits, or the ends of loops.
- `PersonRegistry`, the stores and `AutomationSchedule` have no liveness property
  and no fairness: their properties speak of the states in which nothing is
  under way, or of single steps.

## 6. Proofs

`Persistence_proofs`, first of the registry alone, from `CapacityAssumption` and `RegistryAssumption` (finite
sets of devices and groups; `NoRoom` and `Absent` are no identifiers):

- `TypeCorrect`: `Spec => []TypeOK`, for any callers and any interleaving. One
  lemma per section that writes; the rest share `BeginsType`.
- `SerialIntact`: `Spec => [](RoomsIntact /\ MembersIntact)` if there is one caller
  at a time. Neither is inductive: a call that has looked up a room or members
  writes them in a later step. `RoomsInv` and `MembersInv` add that what it has
  looked up still holds, which is exactly what a second caller would break.
  `RoomsStep` and `MembersStep` reduce each section to two facts about the maps.

Then of the whole process, from these and `PersistenceAssumption` (rooms, devices and
groups have no identifier in common, so that a key in `owed` is one of one table):

- `PersistTypeCorrect`: any callers, any interleaving, through restarts.
- `ReconcileExactAlways`: any callers, overlapping or not, since a reconciliation
  works from its snapshot. `ReconcileInv` says of every moment between two writes
  that each row without a write left is as the snapshot has it, and that while a
  room is still to be deleted every device is still to be saved: the schema's SET
  NULL then touches no row that is not written again. A group lacks exactly the
  members whose device the tables and the snapshot do not have (`GroupForSnap`).
  `OneEach`, that no key has two writes in hand, is needed for a write to settle
  its row.
- `NoSilentDivergenceAlways`, for calls that do not overlap (`Callers = {c}`), any
  ring and any number of failures. The argument follows a change on its way.
  `Pipe(c)` is what the worker is still to read, on the bus or unpublished; a key is
  `Pending` if an event about it is in the pipe, a lag is to be told, or the caller
  is between the two sections of a removal. `PipeInv` says that each event in the
  pipe is right about the registry or is followed by one about the same key, and
  that what a deletion does to other rows is followed by their events
  (`Announces` reduces the sections of a call to that). `EventInv` says of every key
  that it is on record as lost, in hand, pending, or alike in tables and registry;
  `SnapInv` says the same of a snapshot while a reconciliation reads, and
  `ReconciledAgree` carries it over to the tables at its end. `MemberRows`, that a
  member is a row, makes a restart read back what the tables have. None of these
  holds without the others; with two callers `PipeInv` fails, as the run did.
- `IntactThroughRestarts`: `SerialIntact` for the whole process, from the same
  invariant.

`AutomationSchedule_proofs`, first of `AutomationExecution`, from `ExecutionAssumption` (finitely many triggers,
`None` is none of them, `max` natural):

- `TypeCorrect`, `SlotsSafe`: the conjunction `Inv` of type, counter, bound, queue
  and token is inductive; none of them is alone (the saturating subtraction of
  `Finalize` is right only because the counter counts the live runs, and those
  are finite).
- `SlotsRefined`: initial states and steps map to those of `ExecutionSlots`.

Then of the schedule, from these and `ScheduleAssumption` (what the bounds and
the policies are; `None` is no row):

- `CompletedOnceAlways`, `CooldownKeptAlways`, `NoneForgottenAlways`: what each run
  has behind it is told by its phase (`BodyInv`) and, in the modes whose runs
  follow one another, there is at most one between its check and its save, which
  the counter of the runner gives. The stored row is that of the
  last run that was saved (`RowInv`), and the loop is never behind it.

`SceneExecution_proofs`, from `SceneAssumption` (the same for requests):

- `TypeCorrect`, `ScriptsSafe`: `Inv` adds to type and counter that the mode bounds
  the counter, that the queue holds the waiting runs once each, and that a
  script which is not over belongs to a run that holds a slot
  (`ScriptsHold`). The last is what carries the bound from the counter to the
  scripts, dropped requests included.
- `SlotsRefined`: `Spec => SlotsKept`. `HandsOverChanges` reduces the two ways a run
  can end to the two cases of `Finish`.

`AutomationReload_proofs`, from `ReloadAssumption` (schedules that end are timed,
timed automations are automations, the bounds are natural):

- `TypeCorrect`: `TypeInv` says besides the types that every catalog number held
  by anybody has been loaded, and that a runner that is there runs one. `Grown`
  and `TakenStays` carry it over the steps that load or switch.
- `PlacesAgree` (`SwapsAgree`): the three places differ only while a reload is
  between its swaps. `AgreeInv` says which of them a reload has already changed
  in each of its steps, and that one reload at a time is under way unless the
  history variable says that they overlapped.
- `FlagsSurvive` (`FlagsKept`): `KeptInv` adds that the flags a reload has taken
  are those that were asked for, until something disturbs it, and that the
  catalog it has loaded has them.
- `WatchedIsLoaded` (`WatchedLoaded`): `FreshInv` adds that a reload that has read
  the directory has read it as it is, unless a notice is waiting or was passed
  over.

`PersonRegistry_proofs`, from `PersonAssumption` (finitely many devices; there is a
home zone; `None` is no request, device or position) and `AbsentAssumption`
(`Absent` is no record):

- `PersonsTypeCorrect`: any requests, any overlap, any faults. `BaseInv` adds what a
  request holds at each of its steps (`CallOK`) and that requests overlap only if
  their kinds may (`Alone`).
- `ToldAlways`, `RowCurrentAlways`, `CrowdTrueAlways`, if nobody creates or updates a
  person while another request is under way (`Apart`). The three speak of quiet
  states and say nothing of the steps between; `TellInv` says of every state that
  a person's state has been told, stored and counted or that a request is about
  to. `HeldInv`, that what a request has read is still so when it writes it, is
  what ties them together: the row of `RowRead` is the one `RowWrite` puts back only
  because `derive_lock` keeps other derivations out, and the person of
  `UpdatePerson` the one `PutPerson` puts back only because of `Apart`.
- `SettledAlways`, from the same hypothesis. `SettledInv` says of every person a fault
  has not left behind that some request will derive it again (`Covered`), or that
  it is where its latest fix is, or will be with the write under way. A fix, a
  link or a zone may change while a person is being derived; whoever changed it
  is then a request that will derive the person again. `DerivedIsAt` replaces
  `Derived`, a set of rows, by the states it allows (`IsAt`), and `IsAtSame` says
  which changes leave them alone. TLC checked this invariant in the instance of
  `persons` before it was proved.

`SchemaMigration_proofs`, of any script, from `WellFormed` (the statements are in the
order of their versions, the stamp of a version after what it makes; `StoreMirror`
has TLC evaluate it for both databases' scripts):

- `VersionHonest`: `Spec => []VersionMeansSchema`, cut off between any two statements
  and begun again any number of times. The inductive `MigrationInv` adds that the
  statements behind the next one have left what they make (`Done`).
- `TolerantStarts`: `Spec => []StartsAgain` if columns are added `IF NOT EXISTS`.

`StoreMirror_proofs`, from `MirrorAssumption` (finitely many devices, the pruner, the
worker and the requests are not one another, the clock is natural),
`MarkersApart` (`NoRow`, `Absent` and their like are no data) and
`ScriptsWellFormed`:

- `VersionsHonest` (`VersionsMeanSchemas`): `SchemasInv` is `MigrationInv` of
  `SchemaMigration_proofs`, instantiated with both scripts; no call touches what it
  is about.
- `TextOrder`, from `BaseAssumption`: the texts chrono renders have no fraction, or
  three, six or nine digits of it, and SQLite compares them by character; for
  every pair of instants the order is theirs. The proofs about pruning rest on it.
- `StoreTypeCorrect`: `TypeInv` has the types of the tables with the foreign keys (of
  a device's room, of members and of trackers) and unique columns of the schema, of every call
  what it holds at each of its
  statements (`Job`), and that every hash in a table was drawn (`spent`). The
  statements of the two databases are first shown to have effects in common
  (`DeviceSaved`, `KeyCreated`...); the type is then proved of an effect, once.
- `RevokedStaysRevoked`, `OwnRecordAnswered`: no id is above the last one given, so
  that no other key gets the one that is to be read back. `KeysInv` says that a
  request between the two statements of `create_api_key` holds the id of its own
  key, if that key is still there.
- `SameStateAlways`: `MirrorInv` says of every state, not only of those between
  calls, that PostgreSQL's rows are SQLite's with all their instants cut to
  microseconds (`Mirrored`, `StateInMicros`), and of the trackers that what is there and what a
  call has still to insert (`Owed`) is the same in both, until a call is cut
  short between two of its statements.
- `HistoryTellsAlways`: `HistoryInv` is `Told` for either store. Between two saves the
  newest snapshot of a device and the newest row of each of its attributes tell
  its row (`Tells`); while a save is under way this holds of all but what it has
  still to record (`SaveTells`). `InBounds` keeps the rows of the history behind
  the device's stamp, so that what is recorded next is the newest. A prune may
  take only what is older than its cut-off, which it computed earlier and uses in
  two statements: `PrunesInTime` says that it is not beyond today's, whatever the
  clock has done since. TLC checked `MirrorInv` and `HistoryInv` in the
  instance of `stores` before they were proved.

`Adapters_proofs`, from `NamesAssumption` (adapters in the process and in processes
of their own have different names, and no request is called as a state of a
mutex), `ExitsAssumption` (a natural bound) and `CapacityAssumption`:

- `AdaptersTypeCorrect`: `AdaptersTypeOK`, which has the receiver, the health flags
  and who holds each plugin, is inductive as it stands.
- `ReadyHonestAlways`: `HonestInv` says of every state, also while the monitor is
  behind, that a failure which was published is still to be read (`Unread`), is
  known (`Doubted`, or the runtime is in error), or was overwritten in the ring,
  which the monitor will be told (`Lost`) and which makes the server not ready.
  `StageInv` and `EarlyInv` are needed for the time before the monitor has
  subscribed: no adapter has failed yet, and none is held to be well.

Only model-checked:

- `SameHistory` of `StoreMirror`: the answers are the rows sorted by `SetToSortSeq`, a
  choice of a sorted sequence. That there is one, and only one, takes
  induction over finite sets.
- `ContractKept` of `StoreMirror`: a deletion takes a device out of each list of
  members by `SelectSeq`, and a group's members are put in order when it is
  loaded; both are recursive, so what they return takes induction.
- `NothingOwed` of `Persistence`: it holds because no event is lost in a ring that
  is large enough for the calls, a bound of the instance.
- `AcceptedRuns`, `EveryRunEnds`, `CatchesUp`, `ShutdownEnds`, `LatestRuns`,
  `CommandsEnd`, `ChildrenEnd`, `Restarted` and the fairness half of
  `SlotsImplemented`: liveness is out of TLAPS's reach.

## 7. Not modelled

- Capabilities, validation, configuration and conditions: pure checks of values,
  which unit tests reach. The HTTP surface but for the lookup and touch of keys;
  the rate limit.
- Wording of errors, HTTP status codes, JSON, logging.
- Reading `list()` while a caller writes: each read is one lock section, as in
  the code, and has no other effect.
- Poisoned locks: the guards recover the data, and no section panics midway.
- A crash of the store in the middle of a write: a statement or transaction is
  atomic.
- What a script does: host calls are the adapters' business.
- Names, pictures and the history of persons; `consider_home` and the stationary
  and BLE cases of the derivation (unreachable, see above); a start without
  coordinates in `[locale]`, which has no home zone.
- Deriving the affected persons in the order of the index: the model takes any.
- Across reloads: the executions of the catalog that was replaced. A reload
  begins the loops anew while old runs are alive and not yet recorded, so that
  an occurrence may fire again; the concurrency map is fresh as well.
- A directory is read in one step, and the loops of an aborted runner end in
  one. `RunChecks` loads the row and decides in one step: with one run at a time
  nobody writes in between.
- The loops of intervals and their timing; the calendar, time zones and the sun:
  a schedule is a set of occurrences.
- Reloads of scenes and scripts (the same code without a runner); the health
  flags of persistence, automations and the database.
- The scan of plugin manifests, the WASM engine, the Lua interpreter.
- The pool of PostgreSQL connections: statements of different callers interleave
  at any point anyway.
