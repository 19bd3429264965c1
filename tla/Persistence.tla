---------------------------- MODULE Persistence ----------------------------
(***************************************************************************)
(* The persistence worker (crates/api/src/workers.rs) that keeps the       *)
(* database in step with the registry, its full reconciliation             *)
(* (crates/api/src/helpers.rs), the constraints of the SQL schema          *)
(* (crates/store-sql/src/sqlite.rs), and shutdown, crash and restart       *)
(* (crates/api/src/startup.rs).                                            *)
(*                                                                         *)
(* The worker is a subscriber of the bus.  It reads the registry when it   *)
(* handles an event, not when the event was published, and issues the      *)
(* writes one at a time, each of which the store may refuse.               *)
(***************************************************************************)
EXTENDS DeviceRegistry

CONSTANT MaxIncidents   (* bound: store errors, shutdowns and crashes       *)

\* The identifiers of the three tables are told apart where they are kept in one
\* set (owed, missed).
ASSUME PersistenceAssumption ==
  /\ MaxIncidents \in Nat
  /\ Rooms \cap Devices = {} /\ Rooms \cap Groups = {} /\ Devices \cap Groups = {}

VARIABLES
  db,         (* the committed tables: rooms, devices and groups            *)
  mode,       (* where the process is in its life                           *)
  job,        (* what the worker does besides the writes it has in hand     *)
  todo,       (* the writes in hand                                         *)
  snap,       (* the registry as the running reconciliation has read it     *)
  owed,       (* history: keys whose last write the store did not execute   *)
  missed,     (* history: keys of events published before the subscription  *)
  incidents

workerVars == <<db, mode, job, todo, snap, owed, missed, incidents>>
vars == <<regVars, workerVars>>

-----------------------------------------------------------------------------
\* The store

Tables == [rooms : SUBSET Rooms, devices : [Devices -> Device \cup {Absent}],
           groups : [Groups -> Members \cup {Absent}]]

NoRows == [rooms |-> {}, devices |-> [d \in Devices |-> Absent],
           groups |-> [g \in Groups |-> Absent]]

SaveRoom(r)        == [op |-> "saveRoom", id |-> r]
DeleteRoom(r)      == [op |-> "deleteRoom", id |-> r]
SaveDevice(d, rec) == [op |-> "saveDevice", id |-> d, rec |-> rec]
DeleteDevice(d)    == [op |-> "deleteDevice", id |-> d]
SaveGroup(g, m)    == [op |-> "saveGroup", id |-> g, members |-> m]
DeleteGroup(g)     == [op |-> "deleteGroup", id |-> g]

Write ==
  [op : {"saveRoom", "deleteRoom"}, id : Rooms]
  \cup [op : {"saveDevice"}, id : Devices, rec : Device]
  \cup [op : {"deleteDevice"}, id : Devices]
  \cup [op : {"saveGroup"}, id : Groups, members : Members]
  \cup [op : {"deleteGroup"}, id : Groups]

\* Faulty variant: devices.room_id lacks its ON DELETE SET NULL.
Accepts_Restrict(w) ==
  w.op = "deleteRoom" =>
    \A d \in Devices : db.devices[d] # Absent => db.devices[d].room # w.id

\* The foreign keys of devices and group_members, and the primary key of
\* group_members: a device occurs once in a group.
Accepts(w) ==
  /\ w.op = "saveDevice" => w.rec.room \in db.rooms \cup {NoRoom}
  /\ w.op = "saveGroup" =>
       \A d \in Ids(w.members) : w.members[d] = 1 /\ db.devices[d] # Absent

\* ON DELETE SET NULL of devices.room_id.
RoomDeleted(r) ==
  [db EXCEPT !.rooms = @ \ {r},
             !.devices = [d \in Devices |->
                IF @[d] # Absent /\ @[d].room = r
                  THEN [@[d] EXCEPT !.room = NoRoom] ELSE @[d]]]

\* ON DELETE CASCADE of group_members.device_id.
DeviceDeleted(d) ==
  [db EXCEPT !.devices[d] = Absent,
             !.groups = [g \in Groups |->
                IF @[g] # Absent THEN Without(@[g], d) ELSE Absent]]

\* The tables once the store has executed a write.
Applied(w) ==
  CASE w.op = "saveRoom"     -> [db EXCEPT !.rooms = @ \cup {w.id}]
    [] w.op = "deleteRoom"   -> RoomDeleted(w.id)
    [] w.op = "saveDevice"   -> [db EXCEPT !.devices[w.id] = w.rec]
    [] w.op = "deleteDevice" -> DeviceDeleted(w.id)
    [] w.op = "saveGroup"    -> [db EXCEPT !.groups[w.id] = w.members]
    [] w.op = "deleteGroup"  -> [db EXCEPT !.groups[w.id] = Absent]

-----------------------------------------------------------------------------
\* The worker's plans

SaveIfPresent(d) == IF d \in Registered THEN {SaveDevice(d, devices[d])} ELSE {}

\* The write an event asks for, with the registry as it is now.
WritesFor(e) ==
  CASE e.type = "DeviceAdded"   -> {SaveDevice(e.dev, e.rec)}
    [] e.type = "DeviceRemoved" -> {DeleteDevice(e.dev)}
    [] e.type \in {"DeviceStateChanged", "DeviceSeen", "DeviceRoomChanged"} ->
         SaveIfPresent(e.dev)
    [] e.type = "RoomSaved"     -> {SaveRoom(e.room)}
    [] e.type = "RoomRemoved"   -> {DeleteRoom(e.room)}
    [] e.type = "GroupSaved"    -> {SaveGroup(e.group, e.members)}
    [] e.type = "GroupRemoved"  -> {DeleteGroup(e.group)}
    [] e.type = "GroupMembersChanged" ->
         IF groups[e.group] # Absent THEN {SaveGroup(e.group, groups[e.group])} ELSE {}

\* Faulty variant: stale rows are not deleted.
ReconcilePlan_KeepsStale(rs, gs, ds) ==
  {SaveRoom(r) : r \in rs}
  \cup {SaveGroup(g, gs[g]) : g \in {x \in Groups : gs[x] # Absent}}
  \cup {SaveDevice(d, ds[d]) : d \in {x \in Devices : ds[x] # Absent}}

\* reconcile_device_store(): stale rows out, current rows in.
ReconcilePlan(rs, gs, ds) ==
  LET known == {g \in Groups : gs[g] # Absent}
      found == {d \in Devices : ds[d] # Absent}
  IN  {DeleteRoom(r) : r \in db.rooms \ rs} \cup {SaveRoom(r) : r \in rs}
      \cup {DeleteGroup(g) : g \in {x \in Groups \ known : db.groups[x] # Absent}}
      \cup {SaveGroup(g, gs[g]) : g \in known}
      \cup {DeleteDevice(d) : d \in {x \in Devices \ found : db.devices[x] # Absent}}
      \cup {SaveDevice(d, ds[d]) : d \in found}

\* Its writes go kind by kind, in this order; an event's are all of one kind.
Place == [deleteRoom |-> 1, saveRoom |-> 2, deleteGroup |-> 3, saveGroup |-> 4,
          deleteDevice |-> 5, saveDevice |-> 6]

\* The writes that may be the next.
Due == {w \in todo : \A x \in todo : Place[w.op] <= Place[x.op]}

-----------------------------------------------------------------------------
\* The worker

Keys(e) == {e[f] : f \in DOMAIN e \cap {"dev", "room", "group"}}

\* run_persistence_worker subscribes when its task is first polled; the tasks
\* spawned after it may have published before.
WorkerSubscribe ==
  /\ mode = "starting"
  /\ mode' = "up"
  /\ bus' = Subscribed
  /\ missed' = IF bus.lagged THEN Rooms \cup Devices \cup Groups
               ELSE UNION {Keys(e) : e \in Range(bus.buf)}
  /\ UNCHANGED <<rooms, devices, groups, call, out, begun,
                 db, job, todo, snap, owed, incidents>>

WorkerFree == job = "none" /\ todo = {}

WorkerRecv ==
  /\ mode \in {"up", "stopping"} /\ WorkerFree
  /\ HasEvent(bus)
  /\ LET e == Head(bus.buf)
     IN  /\ todo' = WritesFor(e)
         /\ job' = IF e.type = "RoomRemoved" THEN "sweep" ELSE "none"
  /\ bus' = AfterEvent(bus)
  /\ UNCHANGED <<rooms, devices, groups, call, out, begun,
                 db, mode, snap, owed, missed, incidents>>

\* After a room's deletion every room-less device is saved again.
Sweep ==
  /\ job = "sweep" /\ todo = {}
  /\ job' = "none"
  /\ todo' = {SaveDevice(d, devices[d]) : d \in {x \in Registered : RoomOf(x) = NoRoom}}
  /\ UNCHANGED <<regVars, db, mode, snap, owed, missed, incidents>>

\* A reconciliation reads rooms, groups and devices one after another.
SnapRooms ==
  /\ job' = "snapGroups"
  /\ snap' = [NoRows EXCEPT !.rooms = rooms]
  /\ UNCHANGED <<db, todo, owed, missed, incidents>>

\* Faulty variant: the lag is noted and the worker reads on.
WorkerLag_ReadsOn ==
  /\ mode \in {"up", "stopping"} /\ WorkerFree
  /\ HasLagged(bus)
  /\ bus' = AfterLagged(bus)
  /\ UNCHANGED <<rooms, devices, groups, call, out, begun, workerVars>>

WorkerLag ==
  /\ mode \in {"up", "stopping"} /\ WorkerFree
  /\ HasLagged(bus)
  /\ bus' = AfterLagged(bus)
  /\ SnapRooms
  /\ UNCHANGED <<rooms, devices, groups, call, out, begun, mode>>

\* The shutdown branch of select!: flush, whatever is left on the bus.
WorkerShutdown ==
  /\ mode = "stopping" /\ WorkerFree
  /\ mode' = "flushing"
  /\ SnapRooms
  /\ UNCHANGED regVars

SnapGroups ==
  /\ job = "snapGroups"
  /\ job' = "snapDevices"
  /\ snap' = [snap EXCEPT !.groups = groups]
  /\ UNCHANGED <<regVars, db, mode, todo, owed, missed, incidents>>

SnapDevices ==
  /\ job = "snapDevices"
  /\ job' = "reconcile"
  /\ snap' = [snap EXCEPT !.devices = devices]
  /\ todo' = ReconcilePlan(snap.rooms, snap.groups, devices)
  /\ UNCHANGED <<regVars, db, mode, owed, missed, incidents>>

\* Faulty variant: an executed write stays on the list.
Remaining_Same(w) == todo

\* The writes left when w is off the list.
Remaining(w) == todo \ {w}

WriteOk ==
  /\ \E w \in Due :
       /\ Accepts(w)
       /\ db' = Applied(w)
       /\ todo' = Remaining(w)
       /\ owed' = owed \ {w.id}
  /\ UNCHANGED <<regVars, mode, job, snap, missed, incidents>>

\* A write the store refuses, or fails: an event's handler logs it and goes on,
\* a reconciliation ends there.
WriteFailed ==
  /\ \E w \in Due :
       /\ \/ ~Accepts(w) /\ UNCHANGED incidents
          \/ Accepts(w) /\ incidents < MaxIncidents /\ incidents' = incidents + 1
       /\ IF job = "reconcile"
            THEN /\ todo' = {} /\ job' = "none" /\ snap' = NoRows
                 /\ owed' = owed \cup {x.id : x \in todo}
            ELSE /\ todo' = Remaining(w) /\ UNCHANGED <<job, snap>>
                 /\ owed' = owed \cup {w.id}
  /\ UNCHANGED <<regVars, db, mode, missed>>

ReconcileDone ==
  /\ job = "reconcile" /\ todo = {}
  /\ job' = "none"
  /\ snap' = NoRows
  /\ owed' = {}
  /\ UNCHANGED <<regVars, db, mode, todo, missed, incidents>>

\* Faulty variant: the worker returns only from a flush that wrote everything.
WorkerExit_WhenClean ==
  /\ mode = "flushing" /\ WorkerFree /\ owed = {}
  /\ mode' = "down"
  /\ UNCHANGED <<regVars, db, job, todo, snap, owed, missed, incidents>>

\* The worker has returned from its flush: the process exits.
WorkerExit ==
  /\ mode = "flushing" /\ WorkerFree
  /\ mode' = "down"
  /\ UNCHANGED <<regVars, db, job, todo, snap, owed, missed, incidents>>

Worker ==
  \/ WorkerSubscribe \/ WorkerRecv \/ Sweep
  \/ WorkerLag \/ WorkerShutdown \/ SnapGroups \/ SnapDevices
  \/ WriteOk \/ WriteFailed \/ ReconcileDone \/ WorkerExit

-----------------------------------------------------------------------------
\* The process

\* The drain is over and the worker is told; a drain that timed out leaves
\* requests in flight.
Shutdown ==
  /\ mode = "up" /\ incidents < MaxIncidents
  /\ incidents' = incidents + 1
  /\ mode' = "stopping"
  /\ UNCHANGED <<regVars, db, job, todo, snap, owed, missed>>

\* The process dies, and what the worker had in hand with it.
Crash ==
  /\ mode # "down" /\ incidents < MaxIncidents
  /\ incidents' = incidents + 1
  /\ mode' = "down"
  /\ job' = "none" /\ todo' = {} /\ snap' = NoRows
  /\ UNCHANGED <<regVars, db, owed, missed>>

\* restore_rooms, restore (which rejects an unknown room), restore_groups
\* (which drops unknown members).
Restart ==
  /\ mode = "down"
  /\ \A d \in Devices : db.devices[d] # Absent => db.devices[d].room \in db.rooms \cup {NoRoom}
  /\ mode' = "starting"
  /\ rooms' = db.rooms
  /\ devices' = db.devices
  /\ groups' = [g \in Groups |->
       IF db.groups[g] = Absent THEN Absent
       ELSE [d \in Devices |-> IF db.devices[d] # Absent THEN db.groups[g][d] ELSE 0]]
  /\ bus' = Subscribed
  /\ call' = [c \in Callers |-> Idle] /\ out' = [c \in Callers |-> <<>>]
  /\ job' = "none" /\ todo' = {} /\ snap' = NoRows
  /\ owed' = {} /\ missed' = {}
  /\ UNCHANGED <<begun, db, incidents>>

\* Requests and adapters: none begins once the shutdown has been signalled.
InFlight(c) ==
  /\ mode # "down" /\ CallStep(c)
  /\ UNCHANGED workerVars

Arrives(c) ==
  /\ mode \in {"starting", "up"} /\ CallBegins(c)
  /\ UNCHANGED workerVars

PersistInit ==
  /\ Init
  /\ db = NoRows /\ mode = "starting"
  /\ job = "none" /\ todo = {} /\ snap = NoRows
  /\ owed = {} /\ missed = {} /\ incidents = 0

PersistNext ==
  \/ Worker
  \/ \E c \in Callers : InFlight(c) \/ Arrives(c)
  \/ Shutdown \/ Crash \/ Restart

\* The runtime polls every ready task: the worker's, and each request's.
PersistSpec ==
  /\ PersistInit /\ [][PersistNext]_vars
  /\ WF_vars(Worker)
  /\ \A c \in Callers : WF_vars(InFlight(c))

-----------------------------------------------------------------------------
\* Properties

\* Every table, plan and snapshot has its type.
PersistTypeOK ==
  /\ TypeOK
  /\ db \in Tables /\ snap \in Tables
  /\ mode \in {"starting", "up", "stopping", "flushing", "down"}
  /\ job \in {"none", "sweep", "snapGroups", "snapDevices", "reconcile"}
  /\ todo \subseteq Write
  /\ owed \cup missed \subseteq Rooms \cup Devices \cup Groups
  /\ incidents \in 0..MaxIncidents

CaughtUp ==
  /\ mode = "up" /\ WorkerFree
  /\ bus.buf = <<>> /\ ~bus.lagged
  /\ \A c \in Callers : call[c] = Idle /\ out[c] = <<>>

\* Once the worker has caught up with callers that do not overlap, the database
\* agrees with the registry on every key but those whose own last write failed
\* or whose event was published before the worker subscribed: handling events
\* late, against a newer registry, and losing events to lag loses nothing.
NoSilentDivergence ==
  CaughtUp =>
    /\ \A r \in Rooms \ (owed \cup missed) : r \in db.rooms <=> r \in rooms
    /\ \A d \in Devices \ (owed \cup missed) : db.devices[d] = devices[d]
    /\ \A g \in Groups \ (owed \cup missed) : db.groups[g] = groups[g]

\* A write the foreign keys refuse because the registry it was read from is
\* ahead of the tables is made good by a later event: with a store that does
\* not fail, no lag and no event missed, a worker that has caught up owes nothing.
NothingOwed == (CaughtUp /\ missed = {} /\ incidents = 0) => owed = {}

\* The flush at shutdown misses nothing: it writes all it has read.
FlushComplete == (mode = "flushing" /\ WorkerFree) => owed = {}

\* A reconciliation that reports success leaves exactly what it read, members
\* of groups that were gone when the devices were read excepted.
ReconcileExact ==
  (job = "reconcile" /\ todo = {}) =>
     /\ db.rooms = snap.rooms /\ db.devices = snap.devices
     /\ \A g \in Groups :
          db.groups[g] = IF snap.groups[g] = Absent THEN Absent
                         ELSE [d \in Devices |-> IF snap.devices[d] # Absent
                                                   THEN snap.groups[g][d] ELSE 0]

\* The worker never falls behind for good: it catches up again and again for as
\* long as the process is up.
CatchesUp == []<>(CaughtUp \/ mode # "up")

\* A shutdown ends: the worker takes the signal and flushes, whatever it is
\* doing and however the flush goes.
ShutdownEnds == mode = "stopping" ~> mode = "down"

=============================================================================
