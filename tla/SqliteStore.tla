---------------------------- MODULE SqliteStore ----------------------------
(***************************************************************************)
(* The SQLite store (crates/store-sql/src/sqlite.rs): one action per       *)
(* statement that changes a table, the statements of a call in their       *)
(* order, and the queries as operators.                                    *)
(*                                                                         *)
(* A call of several statements is a job of its caller.  The pool has one  *)
(* connection, so statements alternate and the jobs of different callers   *)
(* interleave between them; only save_group is a transaction.  A statement *)
(* that a constraint refuses changes nothing and is no step here.          *)
(***************************************************************************)
EXTENDS StoreData

VARIABLES
  tables,   (* the committed tables                                         *)
  jobs,     (* the call each caller has begun and not finished              *)
  answers,  (* history: the records create_api_key has returned             *)
  cut       (* history: some call ended between two of its statements       *)

storeVars == <<tables, jobs, answers, cut>>

Init ==
  /\ tables = EmptyTables
  /\ jobs = [c \in Callers |-> Idle]
  /\ answers = {}
  /\ cut = FALSE

-----------------------------------------------------------------------------
\* Steps of a call

Free(c) == jobs[c] = Idle
At(c, step) == jobs[c].step = step
GoTo(c, job) == jobs' = [jobs EXCEPT ![c] = job]

\* A call of one statement.
Commit(c, t) ==
  /\ Free(c)
  /\ tables' = t
  /\ UNCHANGED <<jobs, answers, cut>>

\* The rows of a history without those a primary key replaces.
Replacing(rows, same(_), row) == {r \in rows : ~same(r)} \cup {row}

-----------------------------------------------------------------------------
\* Devices, rooms and groups

\* Faulty variant: the device is read back after it was written.
SaveDevice_ReadsBack(c, d, row) ==
  /\ Free(c)
  /\ row.room \in tables.rooms \cup {NoRoom}
  /\ tables' = [tables EXCEPT !.devices[d] = row]
  /\ IF config.enabled
       THEN GoTo(c, [step |-> "snapshot", device |-> d, row |-> row, prev |-> row])
       ELSE UNCHANGED jobs
  /\ UNCHANGED <<answers, cut>>

\* save_device: the previous row is read and the new one written.  No other
\* caller writes devices, so the two statements are one step.
SaveDevice(c, d, row) ==
  /\ Free(c)
  /\ row.room \in tables.rooms \cup {NoRoom}
  /\ tables' = [tables EXCEPT !.devices[d] = row]
  /\ IF config.enabled
       THEN GoTo(c, [step |-> "snapshot", device |-> d, row |-> row,
                     prev |-> tables.devices[d]])
       ELSE UNCHANGED jobs
  /\ UNCHANGED <<answers, cut>>

ChangedAttributes(job) ==
  {a \in Present(job.row) :
     /\ RecordsAttribute(config.selection, job.device, a)
     /\ job.prev # NoRow => job.prev.attrs[a] # job.row.attrs[a]}

\* persist_history_if_needed: the snapshot of a device that differs.
RecordSnapshot(c) ==
  /\ At(c, "snapshot")
  /\ LET job == jobs[c]
         row == [device |-> job.device, at |-> job.row.at, snapshot |-> job.row]
     IN  /\ IF job.prev # job.row /\ RecordsDevice(config.selection, job.device)
              THEN tables' = [tables EXCEPT !.deviceHistory =
                     Replacing(@, LAMBDA r : r.device = row.device /\ r.at = row.at, row)]
              ELSE UNCHANGED tables
         /\ GoTo(c, [step |-> "attributes", device |-> job.device, row |-> job.row,
                     left |-> ChangedAttributes(job)])
  /\ UNCHANGED <<answers, cut>>

\* One changed attribute, in the order of the map that holds them.
RecordAttribute(c, a) ==
  /\ At(c, "attributes")
  /\ a \in jobs[c].left
  /\ LET row == [device |-> jobs[c].device, attribute |-> a, at |-> jobs[c].row.at,
                 value |-> jobs[c].row.attrs[a]]
     IN  tables' = [tables EXCEPT !.attributeHistory =
           Replacing(@, LAMBDA r : r.device = row.device /\ r.attribute = a
                                     /\ r.at = row.at, row)]
  /\ jobs' = [jobs EXCEPT ![c].left = @ \ {a}]
  /\ UNCHANGED <<answers, cut>>

\* The save ends with a prune of its own.
SavePrunes(c) ==
  /\ At(c, "attributes")
  /\ jobs[c].left = {}
  /\ GoTo(c, IF config.retention = Forever THEN Idle
             ELSE [step |-> "pruneDevices", cutoff |-> Cutoff])
  /\ UNCHANGED <<tables, answers, cut>>

Kept(rows, cutoff) == {r \in rows : ~TextBefore(r.at, cutoff)}

\* prune_history_impl, called by the hourly task or by a save.
PruneHistory(c) ==
  /\ Free(c)
  /\ config.retention # Forever
  /\ GoTo(c, [step |-> "pruneDevices", cutoff |-> Cutoff])
  /\ UNCHANGED <<tables, answers, cut>>

PruneDevices(c) ==
  /\ At(c, "pruneDevices")
  /\ tables' = [tables EXCEPT !.deviceHistory = Kept(@, jobs[c].cutoff)]
  /\ GoTo(c, [step |-> "pruneAttributes", cutoff |-> jobs[c].cutoff])
  /\ UNCHANGED <<answers, cut>>

PruneAttributes(c) ==
  /\ At(c, "pruneAttributes")
  /\ tables' = [tables EXCEPT !.attributeHistory = Kept(@, jobs[c].cutoff)]
  /\ GoTo(c, Idle)
  /\ UNCHANGED <<answers, cut>>

SaveRoom(c, r) == Commit(c, [tables EXCEPT !.rooms = @ \cup {r}])

\* Faulty variant: no foreign key from devices to rooms.
DeleteRoom_LeavesDevices(c, r) == Commit(c, [tables EXCEPT !.rooms = @ \ {r}])

\* ON DELETE SET NULL of devices.room_id.
DeleteRoom(c, r) ==
  Commit(c, [tables EXCEPT !.rooms = @ \ {r},
                           !.devices = [d \in Devices |->
                              IF @[d] # NoRow /\ @[d].room = r
                                THEN [@[d] EXCEPT !.room = NoRoom] ELSE @[d]]])

\* Faulty variant: the members the group had are not cleared.
SaveGroup_Merges(c, g, members) ==
  /\ \A d \in Range(members) : tables.devices[d] # NoRow
  /\ Commit(c, [tables EXCEPT !.groups = @ \cup {g},
       !.members = {m \in @ : m.group = g => m.device \notin Range(members)}
                   \cup {[group |-> g, device |-> members[i], order |-> i]
                           : i \in DOMAIN members}])

\* save_group: a transaction, undone when a member is no device.
SaveGroup(c, g, members) ==
  /\ \A d \in Range(members) : tables.devices[d] # NoRow
  /\ Commit(c, [tables EXCEPT !.groups = @ \cup {g},
       !.members = {m \in @ : m.group # g}
                   \cup {[group |-> g, device |-> members[i], order |-> i]
                           : i \in DOMAIN members}])

\* Faulty variant: no foreign key from group_members to devices.
DeleteDevice_LeavesMembers(c, d) == Commit(c, [tables EXCEPT !.devices[d] = NoRow])

\* ON DELETE CASCADE of group_members.device_id.  The history stays.
DeleteDevice(c, d) ==
  Commit(c, [tables EXCEPT !.devices[d] = NoRow,
                           !.members = {m \in @ : m.device # d}])

\* ON DELETE CASCADE of group_members.group_id.
DeleteGroup(c, g) ==
  Commit(c, [tables EXCEPT !.groups = @ \ {g}, !.members = {m \in @ : m.group # g}])

-----------------------------------------------------------------------------
\* Journals and the runtime state of automations

SaveCommandAudit(c, e) ==
  /\ config.enabled /\ RecordsCommand(config.selection, e)
  /\ Commit(c, [tables EXCEPT !.audit = Append(@, e)])

SaveSceneExecution(c, e) ==
  /\ config.enabled /\ RecordsScene(config.selection, e)
  /\ Commit(c, [tables EXCEPT !.sceneHistory = Append(@, e)])

SaveAutomationExecution(c, e) ==
  /\ config.enabled /\ RecordsAutomation(config.selection, e)
  /\ Commit(c, [tables EXCEPT !.automationHistory = Append(@, e)])

SaveRuntimeState(c, a, state) ==
  Commit(c, [tables EXCEPT !.runtimeState[a] = state])

-----------------------------------------------------------------------------
\* API keys

\* A row that was never used, as it is read.
KeyRecord(id, hash, role, person) ==
  [id |-> id, hash |-> hash, role |-> role, person |-> person, used |-> Absent]

\* Faulty variant: no AUTOINCREMENT, so the largest id is used again.
CreateKey_ReusesId(c, hash, role, person) ==
  /\ Free(c)
  /\ \A k \in tables.apiKeys : k.hash # hash
  /\ LET id == 1 + Max({0} \cup {k.id : k \in tables.apiKeys})
     IN  /\ tables' = [tables EXCEPT !.lastKey = id,
              !.apiKeys = @ \cup {KeyRecord(id, hash, role, person)}]
         /\ GoTo(c, [step |-> "readBack", id |-> id, hash |-> hash])
  /\ UNCHANGED <<answers, cut>>

\* create_api_key: the insertion, whose row id the connection reports.
CreateKey(c, hash, role, person) ==
  /\ Free(c)
  /\ \A k \in tables.apiKeys : k.hash # hash
  /\ LET id == tables.lastKey + 1
     IN  /\ tables' = [tables EXCEPT !.lastKey = id,
              !.apiKeys = @ \cup {KeyRecord(id, hash, role, person)}]
         /\ GoTo(c, [step |-> "readBack", id |-> id, hash |-> hash])
  /\ UNCHANGED <<answers, cut>>

\* And the record is read by that id; revoked by then, the call fails.
ReadBackKey(c) ==
  /\ At(c, "readBack")
  /\ answers' = answers \cup {[hash |-> jobs[c].hash, record |-> k]
                                : k \in {k \in tables.apiKeys : k.id = jobs[c].id}}
  /\ GoTo(c, Idle)
  /\ UNCHANGED <<tables, cut>>

RevokeKey(c, id) ==
  Commit(c, [tables EXCEPT !.apiKeys = {k \in @ : k.id # id}])

\* Faulty variant: the row is written whole, as it was looked up.
TouchKey_Upserts(c, key) ==
  Commit(c, [tables EXCEPT !.apiKeys =
    {k \in @ : k.id # key.id} \cup {[key EXCEPT !.used = now]}])

\* touch_api_key, with the record a lookup returned some time before.
TouchKey(c, key) ==
  Commit(c, [tables EXCEPT !.apiKeys =
    {IF k.id = key.id THEN [k EXCEPT !.used = now] ELSE k : k \in @}])

-----------------------------------------------------------------------------
\* Persons and zones

UpsertPerson(c, p, row) == Commit(c, [tables EXCEPT !.persons[p] = row])

\* ON DELETE CASCADE of person_trackers.person_id.  API keys and history stay.
DeletePerson(c, p) ==
  Commit(c, [tables EXCEPT !.persons[p] = NoRow,
                           !.trackers = {t \in @ : t.person # p}])

\* update_person_trackers: the rows are deleted, then inserted one by one.
UpdateTrackers(c, p, list) ==
  /\ Free(c)
  /\ tables' = [tables EXCEPT !.trackers = {t \in @ : t.person # p}]
  /\ GoTo(c, IF list = <<>> THEN Idle
             ELSE [step |-> "trackers", person |-> p, list |-> list, next |-> 1])
  /\ UNCHANGED <<answers, cut>>

\* The person's row may be gone and the device may be there: the insertion is
\* refused and the call ends with an error.
InsertTracker(c) ==
  /\ At(c, "trackers")
  /\ LET job  == jobs[c]
         d    == job.list[job.next]
         fits == /\ tables.persons[job.person] # NoRow
                 /\ \A t \in tables.trackers : ~(t.person = job.person /\ t.device = d)
     IN  /\ tables' = IF fits
                        THEN [tables EXCEPT !.trackers = @ \cup
                               {[person |-> job.person, device |-> d, order |-> job.next]}]
                        ELSE tables
         /\ GoTo(c, IF fits /\ job.next < Len(job.list)
                      THEN [job EXCEPT !.next = @ + 1] ELSE Idle)
         /\ cut' = (cut \/ ~fits)
  /\ UNCHANGED answers

UpsertZone(c, z, row) == Commit(c, [tables EXCEPT !.zones[z] = row])
DeleteZone(c, z)      == Commit(c, [tables EXCEPT !.zones[z] = NoRow])

RecordPersonHistory(c, e) ==
  Commit(c, [tables EXCEPT !.lastEntry = @ + 1,
                           !.personHistory = @ \cup {[id |-> tables.lastEntry + 1] @@ e}])

PrunePersonHistory(c) ==
  /\ config.retention # Forever
  /\ Commit(c, [tables EXCEPT !.personHistory = Kept(@, Cutoff)])

-----------------------------------------------------------------------------
\* A statement fails, or the process ends

Fail(c) ==
  /\ ~Free(c)
  /\ GoTo(c, Idle)
  /\ cut' = TRUE
  /\ UNCHANGED <<tables, answers>>

Crash ==
  /\ jobs' = [c \in Callers |-> Idle]
  /\ cut' = (cut \/ \E c \in Callers : ~Free(c))
  /\ UNCHANGED <<tables, answers>>

-----------------------------------------------------------------------------
\* Queries

InWindow(t, start, end) ==
  /\ start # Unbounded => ~TextBefore(t, start)
  /\ end # Unbounded => ~TextBefore(end, t)

Later(r, s) == TextBefore(s.at, r.at)

DeviceOf(d) == [id |-> d, row |-> tables.devices[d]]

LoadAllDevices == {DeviceOf(d) : d \in {d \in Devices : tables.devices[d] # NoRow}}

LoadAllRooms == tables.rooms

\* The members of a group, ORDER BY member_order.
MembersInOrder(g) ==
  LET rows == SetToSortSeq({m \in tables.members : m.group = g},
                           LAMBDA m, n : m.order < n.order)
  IN  [i \in DOMAIN rows |-> rows[i].device]

\* groups_from_rows: the rows of the join with one group for each run of them.
LoadAllGroups == [g \in tables.groups |-> MembersInOrder(g)]

LoadDeviceHistory(d, start, end, n) ==
  Newest({r \in tables.deviceHistory : r.device = d /\ InWindow(r.at, start, end)}, Later, n)

LoadAttributeHistory(d, a, start, end, n) ==
  Newest({r \in tables.attributeHistory :
            r.device = d /\ r.attribute = a /\ InWindow(r.at, start, end)}, Later, n)

\* A journal's rows carry the order of their insertion.
Rows(journal) == {[id |-> i] @@ journal[i] : i \in DOMAIN journal}
LaterRow(r, s) == Later(r, s) \/ (r.at = s.at /\ r.id > s.id)

LoadCommandAudit(start, end, n) ==
  Newest({r \in Rows(tables.audit) : InWindow(r.at, start, end)}, LaterRow, n)

LoadSceneHistory(start, end, n) ==
  Newest({r \in Rows(tables.sceneHistory) : InWindow(r.at, start, end)}, LaterRow, n)

LoadAutomationHistory(start, end, n) ==
  Newest({r \in Rows(tables.automationHistory) : InWindow(r.at, start, end)}, LaterRow, n)

LoadRuntimeState(a) == tables.runtimeState[a]

LookupKey(hash)     == {k \in tables.apiKeys : k.hash = hash}
ListKeys            == tables.apiKeys
ListKeysOfPerson(p) == {k \in tables.apiKeys : k.person = p}

TrackersInOrder(p) ==
  LET rows == SetToSortSeq({t \in tables.trackers : t.person = p},
                           LAMBDA t, u : t.order < u.order)
  IN  [i \in DOMAIN rows |-> rows[i].device]

\* A person with its trackers, which a query of its own loads.
PersonOf(p) == [id |-> p, row |-> tables.persons[p], trackers |-> TrackersInOrder(p)]
ZoneOf(z)   == [id |-> z, row |-> tables.zones[z]]

LoadAllPersons == {PersonOf(p) : p \in {p \in Persons : tables.persons[p] # NoRow}}
LoadAllZones   == {ZoneOf(z) : z \in {z \in Places : tables.zones[z] # NoRow}}

LoadPersonHistory(p, start, end, n) ==
  Newest({r \in tables.personHistory : r.person = p /\ InWindow(r.at, start, end)}, Later, n)

=============================================================================
