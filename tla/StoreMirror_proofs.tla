------------------------- MODULE StoreMirror_proofs -------------------------
(***************************************************************************)
(* Proofs about StoreMirror, for every set of devices, rooms, groups,      *)
(* persons, keys and values, any clock, and any number of calls, failed    *)
(* statements and crashes.                                                 *)
(*                                                                         *)
(* The actions of the two stores are first shown to have effects in common *)
(* on the tables; the invariants are then proved of an effect, once for    *)
(* both stores.                                                            *)
(***************************************************************************)
EXTENDS StoreMirror, FiniteSetTheorems, SequenceTheorems, TLAPS

\* SchemaMigration_proofs, for the script of each store.
SMP == INSTANCE SchemaMigration_proofs WITH Script <- SqliteMigrations!Script, Tolerant <- FALSE
PMP == INSTANCE SchemaMigration_proofs WITH Script <- PostgresMigrations!Script, Tolerant <- TRUE,
         objects <- pgObjects, version <- pgVersion, phase <- pgPhase, next <- pgNext

LEMMA ScriptsGood == SMP!WellFormed /\ PMP!WellFormed
  BY ScriptsWellFormed DEF SM!WellFormed, SMP!WellFormed, PM!WellFormed, PMP!WellFormed,
     SM!Statement, SMP!Statement, PM!Statement, PMP!Statement

LEMMA SchemasStart == Init => SMP!Init /\ PMP!Init
  BY DEF Init, SM!Init, SMP!Init, SM!ObjectsAt, SMP!ObjectsAt,
         PM!Init, PMP!Init, PM!ObjectsAt, PMP!ObjectsAt

LEMMA SqliteSchemaMoves ==
  /\ SM!Step => SMP!Next
  /\ SM!Stop => SMP!Next
  BY DEF SM!Step, SM!Start, SM!RunCreate, SM!RunAdd, SM!RunStamp, SM!Serve, SM!Running, SM!Stop,
         SMP!Next, SMP!Step, SMP!Start, SMP!RunCreate, SMP!RunAdd, SMP!RunStamp, SMP!Serve,
         SMP!Running, SMP!Stop

LEMMA PostgresSchemaMoves ==
  /\ PM!Step => PMP!Next
  /\ PM!Stop => PMP!Next
  BY DEF PM!Step, PM!Start, PM!RunCreate, PM!RunAdd, PM!RunStamp, PM!Serve, PM!Running, PM!Stop,
         PMP!Next, PMP!Step, PMP!Start, PMP!RunCreate, PMP!RunAdd, PMP!RunStamp, PMP!Serve,
         PMP!Running, PMP!Stop

\* Only a start or its end touches a schema.
LEMMA SchemasStep ==
  [Next]_vars => [SMP!Next]_(SMP!schemaVars) /\ [PMP!Next]_(PMP!schemaVars)
<1>. SUFFICES ASSUME [Next]_vars
              PROVE  [SMP!Next]_(SMP!schemaVars) /\ [PMP!Next]_(PMP!schemaVars)
  OBVIOUS
<1>. USE DEF SMP!schemaVars, PMP!schemaVars
<1>1. CASE Migrate \/ StopMigrating
  BY <1>1, SqliteSchemaMoves, PostgresSchemaMoves DEF Migrate, StopMigrating
<1>2. CASE UNCHANGED schemas
  BY <1>2 DEF schemas
<1>3. UNCHANGED schemas \/ Migrate \/ StopMigrating
  BY DEF Next, vars, CallDevices, CallHistory, CallJournals, CallKeys, CallPersons, Issue,
         SqliteStep, PostgresStep, Tick, Fault
<1>. QED
  BY <1>1, <1>2, <1>3

SchemasInv == SMP!MigrationInv /\ PMP!MigrationInv

\* What a migration up to the recorded version makes is there, and what the
\* statements behind the next one made is there, in both databases.
LEMMA SchemasAlways == Spec => []SchemasInv
<1>1. Init => SchemasInv
  BY SchemasStart, ScriptsGood, SMP!MigrationInit, PMP!MigrationInit DEF SchemasInv
<1>2. SchemasInv /\ [Next]_vars => SchemasInv'
  BY SchemasStep, ScriptsGood, SMP!MigrationStep, PMP!MigrationStep DEF SchemasInv
<1>. QED
  BY <1>1, <1>2, PTL DEF Spec

\* Whatever version a database was left at, wherever a start is cut off and
\* however often it is begun again: in both databases what the recorded version
\* stands for is there (initialize() of sqlite.rs and postgres.rs).
THEOREM VersionsHonest == Spec => []VersionsMeanSchemas
<1>1. SchemasInv => VersionsMeanSchemas
  BY DEF SchemasInv, SMP!MigrationInv, PMP!MigrationInv, SMP!VersionMeansSchema,
         PMP!VersionMeansSchema, SMP!ObjectsAt, PMP!ObjectsAt, VersionsMeanSchemas,
         SM!VersionMeansSchema, PM!VersionMeansSchema, SM!ObjectsAt, PM!ObjectsAt
<1>. QED
  BY <1>1, SchemasAlways, PTL

-----------------------------------------------------------------------------
\* What a statement does to the tables, whichever store executes it

TableNames ==
  {"rooms", "devices", "groups", "members", "deviceHistory", "attributeHistory",
   "audit", "sceneHistory", "automationHistory", "runtimeState", "apiKeys", "lastKey",
   "persons", "trackers", "zones", "personHistory", "lastEntry"}

Journals == {"audit", "sceneHistory", "automationHistory", "personHistory", "lastEntry"}

Named(t) == DOMAIN t = TableNames

\* u is t but for some of its tables.
Only(t, u, changed) == Named(u) /\ \A n \in TableNames \ changed : u[n] = t[n]

DeviceSaved(t, u, d, row) ==
  Only(t, u, {"devices"}) /\ u.devices = [t.devices EXCEPT ![d] = row]

DeviceDeleted(t, u, d) ==
  /\ Only(t, u, {"devices", "members"})
  /\ u.devices = [t.devices EXCEPT ![d] = NoRow]
  /\ u.members = {m \in t.members : m.device # d}

RoomSaved(t, u, r) == Only(t, u, {"rooms"}) /\ u.rooms = t.rooms \cup {r}

Left(row, r) == IF row # NoRow /\ row.room = r THEN [row EXCEPT !.room = NoRoom] ELSE row

RoomDeleted(t, u, r) ==
  /\ Only(t, u, {"rooms", "devices"})
  /\ u.rooms = t.rooms \ {r}
  /\ u.devices = [d \in Devices |-> Left(t.devices[d], r)]

MembersOf(g, list) == {[group |-> g, device |-> list[i], order |-> i] : i \in DOMAIN list}

GroupSaved(t, u, g, list) ==
  /\ \A i \in DOMAIN list : t.devices[list[i]] # NoRow
  /\ Only(t, u, {"groups", "members"})
  /\ u.groups = t.groups \cup {g}
  /\ u.members = {m \in t.members : m.group # g} \cup MembersOf(g, list)

GroupDeleted(t, u, g) ==
  /\ Only(t, u, {"groups", "members"})
  /\ u.groups = t.groups \ {g}
  /\ u.members = {m \in t.members : m.group # g}

StateSaved(t, u, a, state) ==
  Only(t, u, {"runtimeState"}) /\ u.runtimeState = [t.runtimeState EXCEPT ![a] = state]

NewKey(t, hash, role, p) ==
  [id |-> t.lastKey + 1, hash |-> hash, role |-> role, person |-> p, used |-> Absent]

KeyCreated(t, u, hash, role, p) ==
  /\ \A k \in t.apiKeys : k.hash # hash
  /\ Only(t, u, {"apiKeys", "lastKey"})
  /\ u.lastKey = t.lastKey + 1
  /\ u.apiKeys = t.apiKeys \cup {NewKey(t, hash, role, p)}

KeyRevoked(t, u, id) ==
  Only(t, u, {"apiKeys"}) /\ u.apiKeys = {k \in t.apiKeys : k.id # id}

Touched(k, id, time) == IF k.id = id THEN [k EXCEPT !.used = time] ELSE k

KeyTouched(t, u, id, time) ==
  Only(t, u, {"apiKeys"}) /\ u.apiKeys = {Touched(k, id, time) : k \in t.apiKeys}

PersonSaved(t, u, p, row) ==
  Only(t, u, {"persons"}) /\ u.persons = [t.persons EXCEPT ![p] = row]

TrackersCleared(t, u, p) ==
  Only(t, u, {"trackers"}) /\ u.trackers = {x \in t.trackers : x.person # p}

PersonDeleted(t, u, p) ==
  /\ Only(t, u, {"persons", "trackers"})
  /\ u.persons = [t.persons EXCEPT ![p] = NoRow]
  /\ u.trackers = {x \in t.trackers : x.person # p}

\* The row a tracker's insertion makes, and whether the constraints let it.
TrackerRow(job, i) == [person |-> job.person, device |-> job.list[i], order |-> i]

Fits(t, job) ==
  /\ t.persons[job.person] # NoRow
  /\ \A x \in t.trackers : ~(x.person = job.person /\ x.device = job.list[job.next])

TrackerAdded(t, u, job) ==
  Only(t, u, {"trackers"}) /\ u.trackers = t.trackers \cup {TrackerRow(job, job.next)}

ZoneSaved(t, u, z, row) ==
  Only(t, u, {"zones"}) /\ u.zones = [t.zones EXCEPT ![z] = row]

SnapshotKept(t, u, row) ==
  /\ Only(t, u, {"deviceHistory"})
  /\ u.deviceHistory =
       {r \in t.deviceHistory : ~(r.device = row.device /\ r.at = row.at)} \cup {row}

ValueKept(t, u, row) ==
  /\ Only(t, u, {"attributeHistory"})
  /\ u.attributeHistory =
       {r \in t.attributeHistory :
          ~(r.device = row.device /\ r.attribute = row.attribute /\ r.at = row.at)} \cup {row}

Then(js, ks, c, job) == ks = [js EXCEPT ![c] = job]

\* The calls under way, by the statement that comes next.
Saves(d, row, prev)   == [step |-> "snapshot", device |-> d, row |-> row, prev |-> prev]
Records(d, row, left) == [step |-> "attributes", device |-> d, row |-> row, left |-> left]
Prunes(step, cutoff)  == [step |-> step, cutoff |-> cutoff]
ReadsBack(id, hash)   == [step |-> "readBack", id |-> id, hash |-> hash]
Tracks(p, list, next_) == [step |-> "trackers", person |-> p, list |-> list, next |-> next_]

\* A runtime state as PostgreSQL keeps it.
StateInMicros(state) == [[state EXCEPT !.at = Micros(@)] EXCEPT !.scheduled = MicrosIfAny(@)]

SnapshotRow(job, at) == [device |-> job.device, at |-> at, snapshot |-> job.row]
ValueRow(job, a, at) ==
  [device |-> job.device, attribute |-> a, at |-> at, value |-> job.row.attrs[a]]

Changed(selection, job) ==
  {a \in Present(job.row) :
     /\ RecordsAttribute(selection, job.device, a)
     /\ job.prev # NoRow => job.prev.attrs[a] # job.row.attrs[a]}

USE DEF TableNames, Journals

-----------------------------------------------------------------------------
\* The calls and statements of SQLite

\* What is left of a call of one statement, and of one of several.
SqliteDone(c) == jobs[c] = Idle /\ UNCHANGED <<jobs, cut, answers>>
SqliteGoes(c, job) == Then(jobs, jobs', c, job) /\ UNCHANGED <<cut, answers>>

LEMMA SqliteDeviceCalls ==
  ASSUME Named(tables), NEW c
  PROVE  /\ \A d, row : S!SaveDevice(c, d, row) =>
              /\ jobs[c] = Idle /\ row.room \in tables.rooms \cup {NoRoom}
              /\ DeviceSaved(tables, tables', d, row)
              /\ IF config.enabled THEN SqliteGoes(c, Saves(d, row, tables.devices[d]))
                                   ELSE SqliteDone(c)
         /\ \A d : S!DeleteDevice(c, d) => SqliteDone(c) /\ DeviceDeleted(tables, tables', d)
         /\ \A r : S!SaveRoom(c, r) => SqliteDone(c) /\ RoomSaved(tables, tables', r)
         /\ \A r : S!DeleteRoom(c, r) => SqliteDone(c) /\ RoomDeleted(tables, tables', r)
         /\ \A g, list : S!SaveGroup(c, g, list) => SqliteDone(c) /\ GroupSaved(tables, tables', g, list)
         /\ \A g : S!DeleteGroup(c, g) => SqliteDone(c) /\ GroupDeleted(tables, tables', g)
<1>. USE DEF Idle, S!Idle, S!Free, S!Commit, S!GoTo, Named, Only, SqliteDone, SqliteGoes, Then
<1>1. \A d, row : S!SaveDevice(c, d, row) =>
              /\ jobs[c] = Idle /\ row.room \in tables.rooms \cup {NoRoom}
              /\ DeviceSaved(tables, tables', d, row)
              /\ IF config.enabled THEN SqliteGoes(c, Saves(d, row, tables.devices[d]))
                                   ELSE SqliteDone(c)
  BY DEF S!SaveDevice, DeviceSaved, Saves
<1>. QED
  BY <1>1 DEF S!DeleteDevice, DeviceDeleted, S!SaveRoom, RoomSaved, S!DeleteRoom, RoomDeleted,
              Left, S!SaveGroup, GroupSaved, MembersOf, S!Range, S!DeleteGroup, GroupDeleted

LEMMA SqliteKeyCalls ==
  ASSUME Named(tables), NEW c
  PROVE  /\ \A h, r, p : S!CreateKey(c, h, r, p) =>
              /\ jobs[c] = Idle /\ KeyCreated(tables, tables', h, r, p)
              /\ SqliteGoes(c, ReadsBack(tables.lastKey + 1, h))
         /\ \A id : S!RevokeKey(c, id) => SqliteDone(c) /\ KeyRevoked(tables, tables', id)
         /\ \A k : S!TouchKey(c, k) => SqliteDone(c) /\ KeyTouched(tables, tables', k.id, now)
  BY DEF Idle, S!Idle, S!Free, S!Commit, S!GoTo, Named, Only, SqliteDone, SqliteGoes, Then, S!CreateKey,
         KeyCreated, ReadsBack, NewKey, S!KeyRecord, S!RevokeKey, KeyRevoked, S!TouchKey, KeyTouched,
         Touched

LEMMA SqliteJournalCalls ==
  ASSUME Named(tables), NEW c
  PROVE  /\ \A e : S!SaveCommandAudit(c, e) => SqliteDone(c) /\ Only(tables, tables', Journals)
         /\ \A e : S!SaveSceneExecution(c, e) => SqliteDone(c) /\ Only(tables, tables', Journals)
         /\ \A e : S!SaveAutomationExecution(c, e) => SqliteDone(c) /\ Only(tables, tables', Journals)
         /\ \A e : S!RecordPersonHistory(c, e) => SqliteDone(c) /\ Only(tables, tables', Journals)
         /\ S!PrunePersonHistory(c) => SqliteDone(c) /\ Only(tables, tables', Journals)
         /\ \A a, state : S!SaveRuntimeState(c, a, state) =>
              SqliteDone(c) /\ StateSaved(tables, tables', a, state)
  BY DEF Idle, S!Idle, S!Free, S!Commit, Named, Only, SqliteDone, S!SaveCommandAudit,
         S!SaveSceneExecution, S!SaveAutomationExecution, S!RecordPersonHistory,
         S!PrunePersonHistory, S!SaveRuntimeState, StateSaved

LEMMA SqlitePersonCalls ==
  ASSUME Named(tables), NEW c
  PROVE  /\ \A p, row : S!UpsertPerson(c, p, row) => SqliteDone(c) /\ PersonSaved(tables, tables', p, row)
         /\ \A p : S!DeletePerson(c, p) => SqliteDone(c) /\ PersonDeleted(tables, tables', p)
         /\ \A p, list : S!UpdateTrackers(c, p, list) =>
              /\ jobs[c] = Idle /\ TrackersCleared(tables, tables', p)
              /\ SqliteGoes(c, IF list = <<>> THEN Idle ELSE Tracks(p, list, 1))
         /\ \A z, row : S!UpsertZone(c, z, row) => SqliteDone(c) /\ ZoneSaved(tables, tables', z, row)
         /\ \A z : S!DeleteZone(c, z) => SqliteDone(c) /\ ZoneSaved(tables, tables', z, NoRow)
  BY DEF Idle, S!Idle, S!Free, S!Commit, S!GoTo, Named, Only, SqliteDone, SqliteGoes, Then,
         S!UpsertPerson, PersonSaved, S!DeletePerson, PersonDeleted, S!UpdateTrackers,
         TrackersCleared, Tracks, S!UpsertZone, S!DeleteZone, ZoneSaved

LEMMA SqliteHistoryStatements ==
  ASSUME Named(tables), NEW c
  PROVE  /\ S!RecordSnapshot(c) =>
              /\ jobs[c].step = "snapshot"
              /\ IF jobs[c].prev # jobs[c].row /\ RecordsDevice(config.selection, jobs[c].device)
                   THEN SnapshotKept(tables, tables', SnapshotRow(jobs[c], jobs[c].row.at))
                   ELSE tables' = tables
              /\ SqliteGoes(c, Records(jobs[c].device, jobs[c].row, Changed(config.selection, jobs[c])))
         /\ \A a : S!RecordAttribute(c, a) =>
              /\ jobs[c].step = "attributes" /\ a \in jobs[c].left
              /\ ValueKept(tables, tables', ValueRow(jobs[c], a, jobs[c].row.at))
              /\ SqliteGoes(c, [jobs[c] EXCEPT !.left = @ \ {a}])
         /\ S!SavePrunes(c) =>
              /\ jobs[c].step = "attributes" /\ jobs[c].left = {} /\ tables' = tables
              /\ SqliteGoes(c, IF config.retention = Forever THEN Idle
                                 ELSE Prunes("pruneDevices", Cutoff))
         /\ S!PruneDevices(c) =>
              /\ jobs[c].step = "pruneDevices"
              /\ Only(tables, tables', {"deviceHistory"})
              /\ tables'.deviceHistory = S!Kept(tables.deviceHistory, jobs[c].cutoff)
              /\ SqliteGoes(c, Prunes("pruneAttributes", jobs[c].cutoff))
         /\ S!PruneAttributes(c) =>
              /\ jobs[c].step = "pruneAttributes"
              /\ Only(tables, tables', {"attributeHistory"})
              /\ tables'.attributeHistory = S!Kept(tables.attributeHistory, jobs[c].cutoff)
              /\ SqliteGoes(c, Idle)
         /\ S!PruneHistory(c) =>
              /\ jobs[c] = Idle /\ config.retention # Forever /\ tables' = tables
              /\ SqliteGoes(c, Prunes("pruneDevices", Cutoff))
<1>. USE DEF Idle, S!Idle, S!Free, S!At, S!GoTo, Named, Only, SqliteGoes, Then, Cutoff, S!Cutoff
<1>1. S!RecordSnapshot(c) =>
              /\ jobs[c].step = "snapshot"
              /\ IF jobs[c].prev # jobs[c].row /\ RecordsDevice(config.selection, jobs[c].device)
                   THEN SnapshotKept(tables, tables', SnapshotRow(jobs[c], jobs[c].row.at))
                   ELSE tables' = tables
              /\ SqliteGoes(c, Records(jobs[c].device, jobs[c].row, Changed(config.selection, jobs[c])))
  BY DEF S!RecordSnapshot, SnapshotKept, SnapshotRow, S!Replacing, Records, Changed,
         S!ChangedAttributes, Present, S!Present, RecordsDevice, S!RecordsDevice,
         RecordsAttribute, S!RecordsAttribute, AllowsDevice, S!AllowsDevice, AllowsCapability,
         S!AllowsCapability, Lists, S!Lists
<1>2. \A a : S!RecordAttribute(c, a) =>
              /\ jobs[c].step = "attributes" /\ a \in jobs[c].left
              /\ ValueKept(tables, tables', ValueRow(jobs[c], a, jobs[c].row.at))
              /\ SqliteGoes(c, [jobs[c] EXCEPT !.left = @ \ {a}])
  BY DEF S!RecordAttribute, ValueKept, ValueRow, S!Replacing
<1>. QED
  BY <1>1, <1>2 DEF S!SavePrunes, S!PruneDevices, S!PruneAttributes, S!PruneHistory, Prunes

LEMMA SqliteOthers ==
  ASSUME Named(tables), cut \in BOOLEAN, NEW c
  PROVE  /\ S!InsertTracker(c) =>
              /\ jobs[c].step = "trackers"
              /\ IF Fits(tables, jobs[c])
                   THEN /\ TrackerAdded(tables, tables', jobs[c])
                        /\ SqliteGoes(c, IF jobs[c].next < Len(jobs[c].list)
                                        THEN [jobs[c] EXCEPT !.next = @ + 1] ELSE Idle)
                   ELSE /\ tables' = tables /\ Then(jobs, jobs', c, Idle)
                        /\ cut' = TRUE /\ answers' = answers
         /\ S!Fail(c) =>
              /\ jobs[c] # Idle /\ tables' = tables /\ Then(jobs, jobs', c, Idle)
              /\ cut' = TRUE /\ answers' = answers
         /\ S!Crash =>
              /\ tables' = tables /\ jobs' = [b \in Callers |-> Idle] /\ answers' = answers
              /\ cut' = (cut \/ \E b \in Callers : jobs[b] # Idle)
         /\ S!ReadBackKey(c) =>
              /\ jobs[c].step = "readBack" /\ tables' = tables
              /\ Then(jobs, jobs', c, Idle) /\ cut' = cut
              /\ answers' = answers \cup {[hash |-> jobs[c].hash, record |-> k]
                                             : k \in {k \in tables.apiKeys : k.id = jobs[c].id}}
<1>. USE DEF Idle, S!Idle, S!Free, S!At, S!GoTo, Named, Only, SqliteGoes, Then, Callers, S!Callers
<1>1. S!InsertTracker(c) =>
              /\ jobs[c].step = "trackers"
              /\ IF Fits(tables, jobs[c])
                   THEN /\ TrackerAdded(tables, tables', jobs[c])
                        /\ SqliteGoes(c, IF jobs[c].next < Len(jobs[c].list)
                                        THEN [jobs[c] EXCEPT !.next = @ + 1] ELSE Idle)
                   ELSE /\ tables' = tables /\ Then(jobs, jobs', c, Idle)
                        /\ cut' = TRUE /\ answers' = answers
  BY DEF S!InsertTracker, TrackerAdded, TrackerRow, Fits
<1>. QED
  BY <1>1 DEF S!Fail, S!Crash, S!ReadBackKey

-----------------------------------------------------------------------------
\* The calls and statements of PostgreSQL

PostgresDone(c) == pgJobs[c] = Idle /\ UNCHANGED <<pgJobs, pgCut, pgAnswers>>
PostgresGoes(c, job) == Then(pgJobs, pgJobs', c, job) /\ UNCHANGED <<pgCut, pgAnswers>>

LEMMA PostgresDeviceCalls ==
  ASSUME Named(pgTables), NEW c
  PROVE  /\ \A d, row : P!SaveDevice(c, d, row) =>
              /\ pgJobs[c] = Idle /\ row.room \in pgTables.rooms \cup {NoRoom}
              /\ DeviceSaved(pgTables, pgTables', d, [row EXCEPT !.at = Micros(@)])
              /\ IF config.enabled THEN PostgresGoes(c, Saves(d, row, pgTables.devices[d]))
                                   ELSE PostgresDone(c)
         /\ \A d : P!DeleteDevice(c, d) => PostgresDone(c) /\ DeviceDeleted(pgTables, pgTables', d)
         /\ \A r : P!SaveRoom(c, r) => PostgresDone(c) /\ RoomSaved(pgTables, pgTables', r)
         /\ \A r : P!DeleteRoom(c, r) => PostgresDone(c) /\ RoomDeleted(pgTables, pgTables', r)
         /\ \A g, list : P!SaveGroup(c, g, list) => PostgresDone(c) /\ GroupSaved(pgTables, pgTables', g, list)
         /\ \A g : P!DeleteGroup(c, g) => PostgresDone(c) /\ GroupDeleted(pgTables, pgTables', g)
<1>. USE DEF Idle, P!Idle, P!Free, P!Commit, P!GoTo, Named, Only, PostgresDone, PostgresGoes, Then
<1>1. \A d, row : P!SaveDevice(c, d, row) =>
              /\ pgJobs[c] = Idle /\ row.room \in pgTables.rooms \cup {NoRoom}
              /\ DeviceSaved(pgTables, pgTables', d, [row EXCEPT !.at = Micros(@)])
              /\ IF config.enabled THEN PostgresGoes(c, Saves(d, row, pgTables.devices[d]))
                                   ELSE PostgresDone(c)
  BY DEF P!SaveDevice, DeviceSaved, Saves, Micros, P!Micros
<1>. QED
  BY <1>1 DEF P!DeleteDevice, DeviceDeleted, P!SaveRoom, RoomSaved, P!DeleteRoom, RoomDeleted,
              Left, P!SaveGroup, GroupSaved, MembersOf, P!Range, P!DeleteGroup, GroupDeleted

LEMMA PostgresKeyCalls ==
  ASSUME Named(pgTables), NEW c
  PROVE  /\ \A h, r, p : P!CreateKey(c, h, r, p) =>
              /\ pgJobs[c] = Idle /\ KeyCreated(pgTables, pgTables', h, r, p)
              /\ UNCHANGED <<pgJobs, pgCut>>
              /\ pgAnswers' = pgAnswers \cup {[hash |-> h, record |-> NewKey(pgTables, h, r, p)]}
         /\ \A id : P!RevokeKey(c, id) => PostgresDone(c) /\ KeyRevoked(pgTables, pgTables', id)
         /\ \A k : P!TouchKey(c, k) => PostgresDone(c) /\ KeyTouched(pgTables, pgTables', k.id, Micros(now))
  BY DEF Idle, P!Idle, P!Free, P!Commit, P!GoTo, Named, Only, PostgresDone, PostgresGoes, Then, P!CreateKey,
         KeyCreated, NewKey, P!KeyRecord, P!RevokeKey, KeyRevoked, P!TouchKey, KeyTouched,
         Touched, Micros, P!Micros

LEMMA PostgresJournalCalls ==
  ASSUME Named(pgTables), NEW c
  PROVE  /\ \A e : P!SaveCommandAudit(c, e) => PostgresDone(c) /\ Only(pgTables, pgTables', Journals)
         /\ \A e : P!SaveSceneExecution(c, e) => PostgresDone(c) /\ Only(pgTables, pgTables', Journals)
         /\ \A e : P!SaveAutomationExecution(c, e) => PostgresDone(c) /\ Only(pgTables, pgTables', Journals)
         /\ \A e : P!RecordPersonHistory(c, e) => PostgresDone(c) /\ Only(pgTables, pgTables', Journals)
         /\ P!PrunePersonHistory(c) => PostgresDone(c) /\ Only(pgTables, pgTables', Journals)
         /\ \A a, state : P!SaveRuntimeState(c, a, state) =>
              PostgresDone(c) /\ StateSaved(pgTables, pgTables', a, StateInMicros(state))
<1>. USE DEF Idle, P!Idle, P!Free, P!Commit, Named, Only, PostgresDone
<1>1. ASSUME NEW a, NEW state, P!SaveRuntimeState(c, a, state)
      PROVE  PostgresDone(c) /\ StateSaved(pgTables, pgTables', a, StateInMicros(state))
  <2>1. /\ pgJobs[c] = Idle /\ UNCHANGED <<pgJobs, pgCut, pgAnswers>>
        /\ pgTables' = [pgTables EXCEPT !.runtimeState[a] = StateInMicros(state)]
    BY <1>1 DEF P!SaveRuntimeState, P!Stored, StateInMicros, MicrosIfAny, P!MicrosIfAny, Micros, P!Micros
  <2>. QED
    BY <2>1 DEF StateSaved
<1>2. ASSUME NEW e, P!SaveCommandAudit(c, e)
      PROVE  PostgresDone(c) /\ Only(pgTables, pgTables', Journals)
  BY <1>2 DEF P!SaveCommandAudit
<1>3. ASSUME NEW e, P!SaveSceneExecution(c, e)
      PROVE  PostgresDone(c) /\ Only(pgTables, pgTables', Journals)
  BY <1>3 DEF P!SaveSceneExecution
<1>4. ASSUME NEW e, P!SaveAutomationExecution(c, e)
      PROVE  PostgresDone(c) /\ Only(pgTables, pgTables', Journals)
  BY <1>4 DEF P!SaveAutomationExecution
<1>5. ASSUME NEW e, P!RecordPersonHistory(c, e)
      PROVE  PostgresDone(c) /\ Only(pgTables, pgTables', Journals)
  BY <1>5 DEF P!RecordPersonHistory
<1>6. ASSUME P!PrunePersonHistory(c)
      PROVE  PostgresDone(c) /\ Only(pgTables, pgTables', Journals)
  BY <1>6 DEF P!PrunePersonHistory
<1>. QED
  BY <1>1, <1>2, <1>3, <1>4, <1>5, <1>6

LEMMA PostgresPersonCalls ==
  ASSUME Named(pgTables), NEW c
  PROVE  /\ \A p, row : P!UpsertPerson(c, p, row) => PostgresDone(c) /\ PersonSaved(pgTables, pgTables', p, row)
         /\ \A p : P!DeletePerson(c, p) => PostgresDone(c) /\ PersonDeleted(pgTables, pgTables', p)
         /\ \A p, list : P!UpdateTrackers(c, p, list) =>
              /\ pgJobs[c] = Idle /\ TrackersCleared(pgTables, pgTables', p)
              /\ PostgresGoes(c, IF list = <<>> THEN Idle ELSE Tracks(p, list, 1))
         /\ \A z, row : P!UpsertZone(c, z, row) => PostgresDone(c) /\ ZoneSaved(pgTables, pgTables', z, row)
         /\ \A z : P!DeleteZone(c, z) => PostgresDone(c) /\ ZoneSaved(pgTables, pgTables', z, NoRow)
  BY DEF Idle, P!Idle, P!Free, P!Commit, P!GoTo, Named, Only, PostgresDone, PostgresGoes, Then,
         P!UpsertPerson, PersonSaved, P!DeletePerson, PersonDeleted, P!UpdateTrackers,
         TrackersCleared, Tracks, P!UpsertZone, P!DeleteZone, ZoneSaved

LEMMA PostgresHistoryStatements ==
  ASSUME Named(pgTables), NEW c
  PROVE  /\ P!RecordSnapshot(c) =>
              /\ pgJobs[c].step = "snapshot"
              /\ IF pgJobs[c].prev # pgJobs[c].row /\ RecordsDevice(config.selection, pgJobs[c].device)
                   THEN SnapshotKept(pgTables, pgTables', SnapshotRow(pgJobs[c], Micros(pgJobs[c].row.at)))
                   ELSE pgTables' = pgTables
              /\ PostgresGoes(c, Records(pgJobs[c].device, pgJobs[c].row, Changed(config.selection, pgJobs[c])))
         /\ \A a : P!RecordAttribute(c, a) =>
              /\ pgJobs[c].step = "attributes" /\ a \in pgJobs[c].left
              /\ ValueKept(pgTables, pgTables', ValueRow(pgJobs[c], a, Micros(pgJobs[c].row.at)))
              /\ PostgresGoes(c, [pgJobs[c] EXCEPT !.left = @ \ {a}])
         /\ P!SaveEnds(c) =>
              /\ pgJobs[c].step = "attributes" /\ pgJobs[c].left = {} /\ pgTables' = pgTables
              /\ PostgresGoes(c, Idle)
         /\ P!PruneDevices(c) =>
              /\ pgJobs[c].step = "pruneDevices"
              /\ Only(pgTables, pgTables', {"deviceHistory"})
              /\ pgTables'.deviceHistory = P!Kept(pgTables.deviceHistory, pgJobs[c].cutoff)
              /\ PostgresGoes(c, Prunes("pruneAttributes", pgJobs[c].cutoff))
         /\ P!PruneAttributes(c) =>
              /\ pgJobs[c].step = "pruneAttributes"
              /\ Only(pgTables, pgTables', {"attributeHistory"})
              /\ pgTables'.attributeHistory = P!Kept(pgTables.attributeHistory, pgJobs[c].cutoff)
              /\ PostgresGoes(c, Idle)
         /\ P!PruneHistory(c) =>
              /\ pgJobs[c] = Idle /\ config.retention # Forever /\ pgTables' = pgTables
              /\ PostgresGoes(c, Prunes("pruneDevices", Cutoff))
<1>. USE DEF Idle, P!Idle, P!Free, P!At, P!GoTo, Named, Only, PostgresGoes, Then, Cutoff, P!Cutoff
<1>1. P!RecordSnapshot(c) =>
              /\ pgJobs[c].step = "snapshot"
              /\ IF pgJobs[c].prev # pgJobs[c].row /\ RecordsDevice(config.selection, pgJobs[c].device)
                   THEN SnapshotKept(pgTables, pgTables', SnapshotRow(pgJobs[c], Micros(pgJobs[c].row.at)))
                   ELSE pgTables' = pgTables
              /\ PostgresGoes(c, Records(pgJobs[c].device, pgJobs[c].row, Changed(config.selection, pgJobs[c])))
  BY DEF P!RecordSnapshot, SnapshotKept, SnapshotRow, P!Replacing, Records, Changed,
         P!ChangedAttributes, Present, P!Present, RecordsDevice, P!RecordsDevice,
         RecordsAttribute, P!RecordsAttribute, AllowsDevice, P!AllowsDevice, AllowsCapability,
         P!AllowsCapability, Lists, P!Lists, Micros, P!Micros
<1>2. \A a : P!RecordAttribute(c, a) =>
              /\ pgJobs[c].step = "attributes" /\ a \in pgJobs[c].left
              /\ ValueKept(pgTables, pgTables', ValueRow(pgJobs[c], a, Micros(pgJobs[c].row.at)))
              /\ PostgresGoes(c, [pgJobs[c] EXCEPT !.left = @ \ {a}])
  BY DEF P!RecordAttribute, ValueKept, ValueRow, P!Replacing, Micros, P!Micros
<1>. QED
  BY <1>1, <1>2 DEF P!SaveEnds, P!PruneDevices, P!PruneAttributes, P!PruneHistory, Prunes

LEMMA PostgresOthers ==
  ASSUME Named(pgTables), pgCut \in BOOLEAN, NEW c
  PROVE  /\ P!InsertTracker(c) =>
              /\ pgJobs[c].step = "trackers"
              /\ IF Fits(pgTables, pgJobs[c])
                   THEN /\ TrackerAdded(pgTables, pgTables', pgJobs[c])
                        /\ PostgresGoes(c, IF pgJobs[c].next < Len(pgJobs[c].list)
                                        THEN [pgJobs[c] EXCEPT !.next = @ + 1] ELSE Idle)
                   ELSE /\ pgTables' = pgTables /\ Then(pgJobs, pgJobs', c, Idle)
                        /\ pgCut' = TRUE /\ pgAnswers' = pgAnswers
         /\ P!Fail(c) =>
              /\ pgJobs[c] # Idle /\ pgTables' = pgTables /\ Then(pgJobs, pgJobs', c, Idle)
              /\ pgCut' = TRUE /\ pgAnswers' = pgAnswers
         /\ P!Crash =>
              /\ pgTables' = pgTables /\ pgJobs' = [b \in Callers |-> Idle] /\ pgAnswers' = pgAnswers
              /\ pgCut' = (pgCut \/ \E b \in Callers : pgJobs[b] # Idle)
<1>. USE DEF Idle, P!Idle, P!Free, P!At, P!GoTo, Named, Only, PostgresGoes, Then, Callers, P!Callers
<1>1. P!InsertTracker(c) =>
              /\ pgJobs[c].step = "trackers"
              /\ IF Fits(pgTables, pgJobs[c])
                   THEN /\ TrackerAdded(pgTables, pgTables', pgJobs[c])
                        /\ PostgresGoes(c, IF pgJobs[c].next < Len(pgJobs[c].list)
                                        THEN [pgJobs[c] EXCEPT !.next = @ + 1] ELSE Idle)
                   ELSE /\ pgTables' = pgTables /\ Then(pgJobs, pgJobs', c, Idle)
                        /\ pgCut' = TRUE /\ pgAnswers' = pgAnswers
  BY DEF P!InsertTracker, TrackerAdded, TrackerRow, Fits
<1>. QED
  BY <1>1 DEF P!Fail, P!Crash

-----------------------------------------------------------------------------
\* Types

Member   == [group : Groups, device : Devices, order : Nat]
Snapshot == [device : Devices, at : Nat, snapshot : DeviceRow]
Value    == [device : Devices, attribute : Attributes, at : Nat, value : Values \cup {Absent}]
KeyRow   == [id : Nat, hash : Hashes, role : Roles, person : Persons \cup {Nobody},
             used : Int \cup {Absent}]
Tracker  == [person : Persons, device : Devices, order : Nat]

\* The caller of everything but the worker's and the keys' calls.
TheRequest == CHOOSE c \in Requests : TRUE

SnapshotJob   == [step : {"snapshot"}, device : Devices, row : DeviceRow,
                  prev : DeviceRow \cup {NoRow}]
AttributesJob == [step : {"attributes"}, device : Devices, row : DeviceRow,
                  left : SUBSET Attributes]
PruneJob      == [step : {"pruneDevices", "pruneAttributes"}, cutoff : Nat]
ReadBackJob   == [step : {"readBack"}, id : Nat, hash : Hashes]
TrackersJob   == [step : {"trackers"}, person : Persons, list : Seq(Devices), next : Nat]

Job == {Idle} \cup SnapshotJob \cup AttributesJob \cup PruneJob \cup ReadBackJob \cup TrackersJob

DevicesOK(t) ==
  /\ t.rooms \subseteq Rooms /\ t.groups \subseteq Groups
  /\ t.devices \in [Devices -> DeviceRow \cup {NoRow}]
  /\ t.members \subseteq Member
  /\ \A m \in t.members : m.group \in t.groups /\ t.devices[m.device] # NoRow

RoomsOK(t) == \A d \in Devices : t.devices[d] # NoRow => t.devices[d].room \in t.rooms \cup {NoRoom}

HistoryOK(t) == t.deviceHistory \subseteq Snapshot /\ t.attributeHistory \subseteq Value

StatesOK(t) == t.runtimeState \in [Automations -> StateRow \cup {NoRow}]

\* Ids grow, and a hash is drawn once.
KeysOK(t, drawn) ==
  /\ t.lastKey \in Nat
  /\ t.apiKeys \subseteq KeyRow
  /\ \A k \in t.apiKeys : k.id <= t.lastKey /\ k.hash \in drawn
  /\ \A k, l \in t.apiKeys : k.id = l.id \/ k.hash = l.hash => k = l

PersonsOK(t) ==
  /\ t.persons \in [Persons -> Places \cup {NoRow}]
  /\ t.trackers \subseteq Tracker
  /\ \A x \in t.trackers : t.persons[x.person] # NoRow
  /\ t.zones \in [Places -> Values \cup {NoRow}]

TablesOK(t, drawn) ==
  /\ Named(t) /\ DevicesOK(t) /\ RoomsOK(t) /\ HistoryOK(t) /\ StatesOK(t) /\ KeysOK(t, drawn)
  /\ PersonsOK(t)

JobsOK(js) ==
  /\ js \in [Callers -> Job]
  /\ \A c \in Callers :
       /\ js[c].step \in {"snapshot", "attributes"} => c = Worker
       /\ js[c].step = "trackers" => c = TheRequest /\ js[c].next \in 1..Len(js[c].list)

TypeInv ==
  /\ config \in Configs /\ now \in Nat
  /\ TablesOK(tables, spent) /\ TablesOK(pgTables, spent)
  /\ JobsOK(jobs) /\ JobsOK(pgJobs)
  /\ cut \in BOOLEAN /\ pgCut \in BOOLEAN

\* What a call that is under way holds is told by its next statement.
LEMMA JobAt ==
  ASSUME NEW job \in Job
  PROVE  /\ job.step = "idle" <=> job = Idle
         /\ job.step = "snapshot" <=> job \in SnapshotJob
         /\ job.step = "attributes" <=> job \in AttributesJob
         /\ job.step \in {"pruneDevices", "pruneAttributes"} <=> job \in PruneJob
         /\ job.step = "readBack" <=> job \in ReadBackJob
         /\ job.step = "trackers" <=> job \in TrackersJob
         /\ job.step \in {"idle", "snapshot", "attributes", "pruneDevices", "pruneAttributes",
                          "readBack", "trackers"}
  BY DEF Job, Idle, SnapshotJob, AttributesJob, PruneJob, ReadBackJob, TrackersJob

LEMMA MarkersTold ==
  /\ NoRow \notin DeviceRow /\ NoRow \notin StateRow /\ NoRow \notin Places /\ NoRow \notin Values
  /\ Absent \notin Values /\ Forever \notin Nat
  BY MarkersApart

\* The lists a group or a person is saved with.
LEMMA Listed ==
  ASSUME NEW list \in Ordered(Devices)
  PROVE  /\ list \in Seq(Devices) /\ IsInjective(list)
         /\ list # <<>> => 1 \in 1..Len(list)
<1>1. Cardinality(Devices) \in Nat
  BY MirrorAssumption, FS_CardinalityType
<1>2. PICK n \in 0..Cardinality(Devices) : list \in [1..n -> Devices]
  BY DEF Ordered
<1>3. n \in Nat
  BY <1>1
<1>4. list \in Seq(Devices)
  BY <1>2, <1>3
<1>5. list # <<>> => 1 \in 1..Len(list)
  BY <1>4, EmptySeq, LenProperties
<1>. QED
  BY <1>4, <1>5 DEF Ordered

-----------------------------------------------------------------------------
\* What a step may do to the tables of a store, and that they stay well formed

DeviceChange(t, u) ==
  \/ \E d \in Devices, row \in DeviceRow :
       row.room \in t.rooms \cup {NoRoom} /\ DeviceSaved(t, u, d, row)
  \/ \E d \in Devices : DeviceDeleted(t, u, d)
  \/ \E r \in Rooms : RoomSaved(t, u, r) \/ RoomDeleted(t, u, r)
  \/ \E g \in Groups : GroupDeleted(t, u, g) \/ \E list \in Ordered(Devices) : GroupSaved(t, u, g, list)

HistoryChange(t, u) ==
  \/ \E row \in Snapshot : SnapshotKept(t, u, row)
  \/ \E row \in Value : ValueKept(t, u, row)
  \/ Only(t, u, {"deviceHistory"}) /\ u.deviceHistory \subseteq t.deviceHistory
  \/ Only(t, u, {"attributeHistory"}) /\ u.attributeHistory \subseteq t.attributeHistory

StateChange(t, u) ==
  \/ Only(t, u, Journals)
  \/ \E a \in Automations, state \in StateRow : StateSaved(t, u, a, state)

KeyChange(t, u) ==
  \E id : KeyRevoked(t, u, id) \/ \E time \in Nat : KeyTouched(t, u, id, time)

PersonChange(t, u) ==
  \/ \E p \in Persons : PersonDeleted(t, u, p) \/ TrackersCleared(t, u, p)
                          \/ \E row \in Places : PersonSaved(t, u, p, row)
  \/ \E job \in TrackersJob : job.next \in 1..Len(job.list) /\ Fits(t, job) /\ TrackerAdded(t, u, job)
  \/ \E z \in Places, row \in Values \cup {NoRow} : ZoneSaved(t, u, z, row)

Change(t, u) ==
  \/ u = t
  \/ DeviceChange(t, u) \/ HistoryChange(t, u) \/ StateChange(t, u) \/ KeyChange(t, u)
  \/ PersonChange(t, u)

LEMMA UntouchedOK ==
  ASSUME NEW t, NEW u, NEW drawn, NEW changed, TablesOK(t, drawn), Only(t, u, changed)
  PROVE  /\ Named(u)
         /\ {"rooms", "groups", "devices", "members"} \cap changed = {} => DevicesOK(u) /\ RoomsOK(u)
         /\ {"deviceHistory", "attributeHistory"} \cap changed = {} => HistoryOK(u)
         /\ "runtimeState" \notin changed => StatesOK(u)
         /\ {"apiKeys", "lastKey"} \cap changed = {} => KeysOK(u, drawn)
         /\ {"persons", "trackers", "zones"} \cap changed = {} => PersonsOK(u)
  BY DEF Only, TablesOK, DevicesOK, RoomsOK, HistoryOK, StatesOK, KeysOK, PersonsOK

LEMMA DeviceChangeOK ==
  ASSUME NEW t, NEW u, NEW drawn, TablesOK(t, drawn), DeviceChange(t, u)
  PROVE  TablesOK(u, drawn)
<1>. SUFFICES DevicesOK(u) /\ RoomsOK(u)
  <2>1. Only(t, u, {"rooms", "groups", "devices", "members"})
    BY DEF DeviceChange, Only, DeviceSaved, DeviceDeleted, RoomSaved, RoomDeleted, GroupSaved,
           GroupDeleted
  <2>. QED
    BY <2>1, UntouchedOK DEF TablesOK
<1>. USE DEF TablesOK, DevicesOK, RoomsOK, Only
<1>1. CASE \E d \in Devices, row \in DeviceRow :
             row.room \in t.rooms \cup {NoRoom} /\ DeviceSaved(t, u, d, row)
  BY <1>1, MarkersTold DEF DeviceSaved, Member
<1>2. CASE \E d \in Devices : DeviceDeleted(t, u, d)
  BY <1>2 DEF DeviceDeleted, Member
<1>3. CASE \E r \in Rooms : RoomSaved(t, u, r)
  BY <1>3 DEF RoomSaved
<1>4. CASE \E r \in Rooms : RoomDeleted(t, u, r)
  <2>1. PICK r \in Rooms : RoomDeleted(t, u, r)
    BY <1>4
  <2>2. \A row \in DeviceRow \cup {NoRow} :
          Left(row, r) \in DeviceRow \cup {NoRow} /\ (Left(row, r) = NoRow <=> row = NoRow)
    BY MarkersTold DEF Left, DeviceRow
  <2>3. DevicesOK(u)
    BY <2>1, <2>2 DEF RoomDeleted, Member
  <2>4. ASSUME NEW d \in Devices, u.devices[d] # NoRow
        PROVE  u.devices[d].room \in u.rooms \cup {NoRoom}
    <3>1. u.devices[d] = Left(t.devices[d], r) /\ u.rooms = t.rooms \ {r}
      BY <2>1 DEF RoomDeleted
    <3>2. t.devices[d] \in DeviceRow /\ t.devices[d].room \in t.rooms \cup {NoRoom}
      BY <2>2, <2>4, <3>1
    <3>3. CASE t.devices[d].room = r
      BY <3>1, <3>2, <3>3, MarkersTold DEF Left, DeviceRow
    <3>4. CASE t.devices[d].room # r
      BY <3>1, <3>2, <3>4 DEF Left
    <3>. QED
      BY <3>3, <3>4
  <2>. QED
    BY <2>3, <2>4 DEF RoomsOK
<1>5. CASE \E g \in Groups, list \in Ordered(Devices) : GroupSaved(t, u, g, list)
  <2>1. PICK g \in Groups, list \in Ordered(Devices) : GroupSaved(t, u, g, list)
    BY <1>5
  <2>2. \A i \in DOMAIN list : i \in Nat /\ list[i] \in Devices
    BY Listed, LenProperties, ElementOfSeq
  <2>3. MembersOf(g, list) \subseteq Member
    BY <2>2 DEF MembersOf, Member
  <2>4. \A m \in MembersOf(g, list) : m.group = g /\ t.devices[m.device] # NoRow
    BY <2>1 DEF MembersOf, GroupSaved
  <2>. QED
    BY <2>1, <2>3, <2>4 DEF GroupSaved
<1>6. CASE \E g \in Groups : GroupDeleted(t, u, g)
  BY <1>6 DEF GroupDeleted
<1>. QED
  BY <1>1, <1>2, <1>3, <1>4, <1>5, <1>6 DEF DeviceChange

LEMMA HistoryChangeOK ==
  ASSUME NEW t, NEW u, NEW drawn, TablesOK(t, drawn), HistoryChange(t, u)
  PROVE  TablesOK(u, drawn)
<1>. SUFFICES HistoryOK(u)
  <2>1. Only(t, u, {"deviceHistory", "attributeHistory"})
    BY DEF HistoryChange, Only, SnapshotKept, ValueKept
  <2>. QED
    BY <2>1, UntouchedOK DEF TablesOK
<1>. QED
  BY DEF HistoryChange, TablesOK, HistoryOK, Only, SnapshotKept, ValueKept

LEMMA StateChangeOK ==
  ASSUME NEW t, NEW u, NEW drawn, TablesOK(t, drawn), StateChange(t, u)
  PROVE  TablesOK(u, drawn)
<1>. SUFFICES StatesOK(u)
  <2>1. Only(t, u, Journals \cup {"runtimeState"})
    BY DEF StateChange, Only, StateSaved
  <2>. QED
    BY <2>1, UntouchedOK DEF TablesOK
<1>. QED
  BY DEF StateChange, TablesOK, StatesOK, Only, StateSaved

LEMMA TouchedKey ==
  ASSUME NEW k \in KeyRow, NEW id, NEW time \in Nat
  PROVE  /\ Touched(k, id, time) \in KeyRow
         /\ Touched(k, id, time).id = k.id /\ Touched(k, id, time).hash = k.hash
         /\ Touched(k, id, time).role = k.role /\ Touched(k, id, time).person = k.person
  BY DEF Touched, KeyRow

LEMMA KeyChangeOK ==
  ASSUME NEW t, NEW u, NEW drawn, TablesOK(t, drawn), KeyChange(t, u)
  PROVE  TablesOK(u, drawn) /\ \A l \in u.apiKeys : \E k \in t.apiKeys : k.id = l.id /\ k.hash = l.hash
<1>1. PICK id : KeyRevoked(t, u, id) \/ \E time \in Nat : KeyTouched(t, u, id, time)
  BY DEF KeyChange
<1>2. SUFFICES KeysOK(u, drawn) /\ \A l \in u.apiKeys : \E k \in t.apiKeys : k.id = l.id /\ k.hash = l.hash
  <2>1. Only(t, u, {"apiKeys", "lastKey"})
    BY <1>1 DEF Only, KeyRevoked, KeyTouched
  <2>. QED
    BY <2>1, UntouchedOK DEF TablesOK
<1>3. u.lastKey = t.lastKey
  BY <1>1 DEF Only, KeyRevoked, KeyTouched, TablesOK
<1>4. CASE KeyRevoked(t, u, id)
  BY <1>3, <1>4 DEF KeyRevoked, KeysOK, TablesOK
<1>5. CASE \E time \in Nat : KeyTouched(t, u, id, time)
  <2>1. PICK time \in Nat : KeyTouched(t, u, id, time)
    BY <1>5
  <2>2. \A l \in u.apiKeys : \E k \in t.apiKeys : l = Touched(k, id, time)
    BY <2>1 DEF KeyTouched
  <2>3. u.apiKeys \subseteq KeyRow
    BY <2>2, TouchedKey DEF KeysOK, TablesOK
  <2>4. \A l \in u.apiKeys : \E k \in t.apiKeys :
          l = Touched(k, id, time) /\ k.id = l.id /\ k.hash = l.hash
    BY <2>2, TouchedKey DEF KeysOK, TablesOK
  <2>. QED
    BY <1>3, <2>3, <2>4 DEF KeysOK, TablesOK
<1>. QED
  BY <1>1, <1>4, <1>5

LEMMA KeyCreatedOK ==
  ASSUME NEW t, NEW u, NEW drawn, TablesOK(t, drawn), NEW hash \in Hashes, NEW role \in Roles,
         NEW p \in Persons \cup {Nobody}, KeyCreated(t, u, hash, role, p)
  PROVE  TablesOK(u, drawn \cup {hash})
<1>1. TablesOK(t, drawn \cup {hash})
  BY DEF TablesOK, KeysOK
<1>2. SUFFICES KeysOK(u, drawn \cup {hash})
  <2>1. Only(t, u, {"apiKeys", "lastKey"})
    BY DEF KeyCreated
  <2>. QED
    BY <1>1, <2>1, UntouchedOK DEF TablesOK
<1>3. NewKey(t, hash, role, p) \in KeyRow
  BY DEF NewKey, KeyRow, TablesOK, KeysOK
<1>4. \A k \in t.apiKeys : k.id \in Nat /\ k.id <= t.lastKey /\ k.hash # hash
  BY DEF KeyCreated, TablesOK, KeysOK, KeyRow
<1>5. /\ u.apiKeys \subseteq KeyRow /\ u.lastKey \in Nat
      /\ \A k \in u.apiKeys : k.id <= u.lastKey /\ k.hash \in drawn \cup {hash}
  BY <1>1, <1>3, <1>4 DEF KeyCreated, TablesOK, KeysOK, NewKey
<1>6. \A k, l \in u.apiKeys : k.id = l.id \/ k.hash = l.hash => k = l
  BY <1>4 DEF KeyCreated, TablesOK, KeysOK, NewKey
<1>. QED
  BY <1>5, <1>6 DEF KeysOK

LEMMA PersonChangeOK ==
  ASSUME NEW t, NEW u, NEW drawn, TablesOK(t, drawn), PersonChange(t, u)
  PROVE  TablesOK(u, drawn)
<1>. SUFFICES PersonsOK(u)
  <2>1. Only(t, u, {"persons", "trackers", "zones"})
    BY DEF PersonChange, Only, PersonDeleted, TrackersCleared, PersonSaved, TrackerAdded, ZoneSaved
  <2>. QED
    BY <2>1, UntouchedOK DEF TablesOK
<1>. USE DEF TablesOK, PersonsOK, Only
<1>1. CASE \E p \in Persons : PersonDeleted(t, u, p)
  BY <1>1 DEF PersonDeleted, Tracker
<1>2. CASE \E p \in Persons : TrackersCleared(t, u, p)
  BY <1>2 DEF TrackersCleared
<1>3. CASE \E p \in Persons, row \in Places : PersonSaved(t, u, p, row)
  BY <1>3, MarkersTold DEF PersonSaved, Tracker
<1>4. CASE \E job \in TrackersJob :
             job.next \in 1..Len(job.list) /\ Fits(t, job) /\ TrackerAdded(t, u, job)
  <2>1. PICK job \in TrackersJob :
          job.next \in 1..Len(job.list) /\ Fits(t, job) /\ TrackerAdded(t, u, job)
    BY <1>4
  <2>2. TrackerRow(job, job.next) \in Tracker
    BY <2>1, ElementOfSeq DEF TrackerRow, Tracker, TrackersJob
  <2>3. t.persons[TrackerRow(job, job.next).person] # NoRow
    BY <2>1 DEF TrackerRow, Fits
  <2>. QED
    BY <2>1, <2>2, <2>3 DEF TrackerAdded
<1>5. CASE \E z \in Places, row \in Values \cup {NoRow} : ZoneSaved(t, u, z, row)
  BY <1>5 DEF ZoneSaved
<1>. QED
  BY <1>1, <1>2, <1>3, <1>4, <1>5 DEF PersonChange

LEMMA ChangeOK ==
  ASSUME NEW t, NEW u, NEW drawn, TablesOK(t, drawn), Change(t, u)
  PROVE  TablesOK(u, drawn)
  BY DeviceChangeOK, HistoryChangeOK, StateChangeOK, KeyChangeOK, PersonChangeOK DEF Change


-----------------------------------------------------------------------------
\* Instants: how whole microseconds and texts are ordered

LEMMA ProductUp ==
  ASSUME NEW b \in Nat \ {0}, NEW x \in Int, NEW y \in Int, x < y
  PROVE  b * x + b <= b * y
<1>1. b * (y - x) >= b
  OBVIOUS
<1>2. b * (y - x) = b * y - b * x
  OBVIOUS
<1>. QED BY <1>1, <1>2

LEMMA Division ==
  ASSUME NEW t \in Nat, NEW b \in Nat \ {0}
  PROVE  /\ t \div b \in Nat /\ t % b \in Nat /\ t % b < b
         /\ t = b * (t \div b) + (t % b)
<1>1. t \div b \in Int
  OBVIOUS
<1>2. t % b \in 0..(b - 1)
  OBVIOUS
<1>3. t = b * (t \div b) + (t % b)
  BY b > 0, Z3
<1>4. ~(t \div b < 0)
  BY <1>1, <1>2, <1>3, ProductUp
<1>5. t \div b \in Nat /\ t % b \in Nat /\ t % b < b
  BY <1>1, <1>2, <1>4
<1>. QED
  BY <1>3, <1>5

LEMMA Lexico ==
  ASSUME NEW t \in Nat, NEW u \in Nat, NEW b \in Nat \ {0}
  PROVE  t < u <=> (t \div b < u \div b \/ (t \div b = u \div b /\ t % b < u % b))
<1>1. CASE t \div b < u \div b
  BY <1>1, Division, ProductUp
<1>2. CASE t \div b = u \div b
  BY <1>2, Division
<1>3. CASE u \div b < t \div b
  BY <1>3, Division, ProductUp
<1>. QED
  BY <1>1, <1>2, <1>3, Division

LEMMA DivUnique ==
  ASSUME NEW b \in Nat \ {0}, NEW t \in Nat, NEW q \in Nat, NEW r \in Nat, r < b, t = b * q + r
  PROVE  t \div b = q
<1>1. CASE q < t \div b
  BY <1>1, Division, ProductUp
<1>2. CASE t \div b < q
  BY <1>2, Division, ProductUp
<1>. QED BY <1>1, <1>2, Division

\* Dividing twice is dividing by the product.
LEMMA DivTwice ==
  ASSUME NEW t \in Nat, NEW b \in Nat \ {0}, NEW c \in Nat \ {0}
  PROVE  t \div (c * b) = (t \div b) \div c /\ c * b \in Nat \ {0}
<1>. DEFINE p == t \div b
            m == t % b
            q == p \div c
            n == p % c
<1>1. p \in Nat /\ q \in Nat /\ m \in Nat /\ n \in Nat
  BY Division
<1>2. t = b * p + m /\ p = c * q + n /\ m < b /\ n < c
  BY Division
<1>. HIDE DEF p, q, m, n
<1>3. c * b \in Nat /\ c * b # 0
  OBVIOUS
<1>4. b * p = b * (c * q) + b * n
  BY <1>1, <1>2
<1>5. b * (c * q) = (c * b) * q
  BY <1>1
<1>6. t = (c * b) * q + (b * n + m)
  BY <1>1, <1>2, <1>4, <1>5
<1>7. b * n + b <= b * c
  BY <1>1, <1>2, ProductUp
<1>8. b * n + m \in Nat /\ b * n + m < c * b
  BY <1>1, <1>2, <1>7
<1>9. t \div (c * b) = q
  BY <1>3, <1>1, <1>6, <1>8, DivUnique
<1>. QED
  BY <1>3, <1>9 DEF p, q

LEMMA MicrosNat == ASSUME NEW t \in Nat
  PROVE Micros(t) \in Nat /\ Micros(t) <= t /\ t < Micros(t) + Base /\ Micros(t) = Base * (t \div Base)
  BY BaseAssumption, Division DEF Micros

LEMMA MicrosUp ==
  ASSUME NEW t \in Nat, NEW u \in Nat, t <= u
  PROVE  Micros(t) <= Micros(u)
<1>. DEFINE p == t \div Base
            q == u \div Base
<1>1. p \in Nat /\ q \in Nat /\ p <= q
  BY Lexico, Division, BaseAssumption
<1>2. Micros(t) = Base * p /\ Micros(u) = Base * q /\ Micros(t) \in Nat /\ Micros(u) \in Nat
  BY MicrosNat
<1>. HIDE DEF p, q
<1>3. CASE p < q
  <2>1. Base * p + Base <= Base * q
    BY <1>1, <1>3, ProductUp, BaseAssumption
  <2>. QED
    BY <1>2, <2>1, BaseAssumption
<1>. QED
  BY <1>1, <1>2, <1>3

Lex(x, y) ==
  \/ x[1] < y[1]
  \/ x[1] = y[1] /\ x[2] < y[2]
  \/ x[1] = y[1] /\ x[2] = y[2] /\ x[3] < y[3]
  \/ x[1] = y[1] /\ x[2] = y[2] /\ x[3] = y[3] /\ x[4] < y[4]

LEMMA DigitsOrdered ==
  ASSUME NEW t \in Nat, NEW u \in Nat
  PROVE  /\ \E a, b, c, d \in Nat : Digits(t) = <<a, b, c, d>>
         /\ t < u <=> Lex(Digits(t), Digits(u))
<1>. DEFINE p(v) == v \div Base
            q(v) == p(v) \div Base
            s(v) == q(v) \div Base
<1>1. ASSUME NEW v \in Nat
      PROVE  /\ v % Base \in Nat /\ p(v) \in Nat /\ p(v) % Base \in Nat
             /\ q(v) \in Nat /\ q(v) % Base \in Nat /\ s(v) \in Nat
  <2>1. v % Base \in Nat /\ p(v) \in Nat
    BY Division, BaseAssumption
  <2>2. p(v) % Base \in Nat /\ q(v) \in Nat
    BY <2>1, Division, BaseAssumption
  <2>. QED
    BY <2>1, <2>2, Division, BaseAssumption
<1>2. ASSUME NEW v \in Nat
      PROVE  Digits(v) = <<s(v), q(v) % Base, p(v) % Base, v % Base>>
  <2>. DEFINE bb == Base * Base
  <2>1. v \div bb = q(v) /\ bb \in Nat \ {0}
    BY DivTwice, BaseAssumption
  <2>2. \A w \in Nat : w \div bb = (w \div Base) \div Base
    BY DivTwice, BaseAssumption
  <2>3. p(v) \div bb = s(v)
    BY <1>1, <2>2
  <2>4. v \div (bb * Base) = p(v) \div bb
    <3>1. \A c \in Nat \ {0} : v \div (c * Base) = (v \div Base) \div c
      BY DivTwice, BaseAssumption
    <3>. HIDE DEF bb
    <3>. QED
      BY <2>1, <3>1
  <2>. QED
    BY <2>1, <2>3, <2>4 DEF Digits
<1>3. t < u <=> p(t) < p(u) \/ (p(t) = p(u) /\ t % Base < u % Base)
  BY Lexico, BaseAssumption
<1>4. p(t) < p(u) <=> q(t) < q(u) \/ (q(t) = q(u) /\ p(t) % Base < p(u) % Base)
  BY <1>1, Lexico, BaseAssumption
<1>5. q(t) < q(u) <=> s(t) < s(u) \/ (s(t) = s(u) /\ q(t) % Base < q(u) % Base)
  BY <1>1, Lexico, BaseAssumption
<1>6. p(t) = p(u) <=> q(t) = q(u) /\ p(t) % Base = p(u) % Base
  BY <1>1, Division, BaseAssumption
<1>7. q(t) = q(u) <=> s(t) = s(u) /\ q(t) % Base = q(u) % Base
  BY <1>1, Division, BaseAssumption
<1>8. Digits(t) = <<s(t), q(t) % Base, p(t) % Base, t % Base>>
  BY <1>2
<1>9. Digits(u) = <<s(u), q(u) % Base, p(u) % Base, u % Base>>
  BY <1>2
<1>10. \E a, b, c, d \in Nat : Digits(t) = <<a, b, c, d>>
  BY <1>1, <1>8
<1>. HIDE DEF p, q, s
<1>11. t < u <=> Lex(Digits(t), Digits(u))
  BY <1>3, <1>4, <1>5, <1>6, <1>7, <1>8, <1>9 DEF Lex
<1>. QED
  BY <1>10, <1>11

\* The first place two texts of at most six differ in.
LEMMA FirstDifference ==
  ASSUME NEW x, NEW y, Len(x) \in Nat, Len(y) \in Nat, Len(y) <= 6
  PROVE  SortsBefore(x, y) <=>
           \/ 1 <= Len(y) /\ (1 <= Len(x) => x[1] < y[1])
           \/ 2 <= Len(y) /\ 1 <= Len(x) /\ x[1] = y[1] /\ (2 <= Len(x) => x[2] < y[2])
           \/ 3 <= Len(y) /\ 2 <= Len(x) /\ x[1] = y[1] /\ x[2] = y[2]
                /\ (3 <= Len(x) => x[3] < y[3])
           \/ 4 <= Len(y) /\ 3 <= Len(x) /\ x[1] = y[1] /\ x[2] = y[2] /\ x[3] = y[3]
                /\ (4 <= Len(x) => x[4] < y[4])
           \/ 5 <= Len(y) /\ 4 <= Len(x) /\ x[1] = y[1] /\ x[2] = y[2] /\ x[3] = y[3]
                /\ x[4] = y[4] /\ (5 <= Len(x) => x[5] < y[5])
           \/ 6 <= Len(y) /\ 5 <= Len(x) /\ x[1] = y[1] /\ x[2] = y[2] /\ x[3] = y[3]
                /\ x[4] = y[4] /\ x[5] = y[5] /\ (6 <= Len(x) => x[6] < y[6])
<1>. DEFINE differ(i) == /\ i \in 1..Len(y) /\ i <= Len(x) + 1
                         /\ \A j \in 1..(i - 1) : x[j] = y[j]
                         /\ i <= Len(x) => x[i] < y[i]
<1>1. SortsBefore(x, y) <=> \E i \in 1..Len(y) : differ(i)
  BY DEF SortsBefore
<1>2. /\ differ(1) <=> 1 <= Len(y) /\ (1 <= Len(x) => x[1] < y[1])
      /\ differ(2) <=> 2 <= Len(y) /\ 1 <= Len(x) /\ x[1] = y[1] /\ (2 <= Len(x) => x[2] < y[2])
  OBVIOUS
<1>3. differ(3) <=> 3 <= Len(y) /\ 2 <= Len(x) /\ x[1] = y[1] /\ x[2] = y[2]
                /\ (3 <= Len(x) => x[3] < y[3])
  OBVIOUS
<1>4. differ(4) <=> 4 <= Len(y) /\ 3 <= Len(x) /\ x[1] = y[1] /\ x[2] = y[2] /\ x[3] = y[3]
                /\ (4 <= Len(x) => x[4] < y[4])
  OBVIOUS
<1>5. differ(5) <=> 5 <= Len(y) /\ 4 <= Len(x) /\ x[1] = y[1] /\ x[2] = y[2] /\ x[3] = y[3]
                /\ x[4] = y[4] /\ (5 <= Len(x) => x[5] < y[5])
  OBVIOUS
<1>6. differ(6) <=> 6 <= Len(y) /\ 5 <= Len(x) /\ x[1] = y[1] /\ x[2] = y[2] /\ x[3] = y[3]
                /\ x[4] = y[4] /\ x[5] = y[5] /\ (6 <= Len(x) => x[6] < y[6])
  OBVIOUS
<1>8. \A i : differ(i) => i \in 1..Len(y)
  OBVIOUS
<1>9. 1..Len(y) \subseteq {1, 2, 3, 4, 5, 6}
  OBVIOUS
<1>. HIDE DEF differ
<1>7. SortsBefore(x, y) <=> differ(1) \/ differ(2) \/ differ(3) \/ differ(4) \/ differ(5) \/ differ(6)
  BY <1>1, <1>8, <1>9
<1>. QED
  BY <1>2, <1>3, <1>4, <1>5, <1>6, <1>7

\* The four lengths of a text.
Reads(x, d1, d2, d3, d4) ==
  \/ /\ d2 = 0 /\ d3 = 0 /\ d4 = 0
     /\ Len(x) = 2 /\ x[1] = d1 /\ x[2] = 0
  \/ /\ d2 # 0 /\ d3 = 0 /\ d4 = 0
     /\ Len(x) = 4 /\ x[1] = d1 /\ x[2] = 1 /\ x[3] = d2 + 2 /\ x[4] = 0
  \/ /\ d3 # 0 /\ d4 = 0
     /\ Len(x) = 5 /\ x[1] = d1 /\ x[2] = 1 /\ x[3] = d2 + 2 /\ x[4] = d3 + 2 /\ x[5] = 0
  \/ /\ d4 # 0
     /\ Len(x) = 6 /\ x[1] = d1 /\ x[2] = 1 /\ x[3] = d2 + 2 /\ x[4] = d3 + 2 /\ x[5] = d4 + 2
     /\ x[6] = 0

LEMMA TextShape ==
  ASSUME NEW d1 \in Nat, NEW d2 \in Nat, NEW d3 \in Nat, NEW d4 \in Nat
  PROVE  Reads(Render(<<d1, d2, d3, d4>>), d1, d2, d3, d4)
<1>1. CASE d4 # 0
  BY <1>1 DEF Render, Reads, Plus, Dot, Group
<1>2. CASE d4 = 0 /\ d3 # 0
  BY <1>2 DEF Render, Reads, Plus, Dot, Group
<1>3. CASE d4 = 0 /\ d3 = 0
  BY <1>3 DEF Render, Reads, Plus, Dot, Group
<1>. QED
  BY <1>1, <1>2, <1>3

LEMMA TextsOrdered ==
  ASSUME NEW x1 \in Nat, NEW x2 \in Nat, NEW x3 \in Nat, NEW x4 \in Nat,
         NEW y1 \in Nat, NEW y2 \in Nat, NEW y3 \in Nat, NEW y4 \in Nat
  PROVE  SortsBefore(Render(<<x1, x2, x3, x4>>), Render(<<y1, y2, y3, y4>>))
           <=> Lex(<<x1, x2, x3, x4>>, <<y1, y2, y3, y4>>)
<1>. DEFINE x == Render(<<x1, x2, x3, x4>>)
            y == Render(<<y1, y2, y3, y4>>)
<1>1. Reads(x, x1, x2, x3, x4) /\ Reads(y, y1, y2, y3, y4)
  BY TextShape
<1>. HIDE DEF x, y
<1>2. /\ Len(x) = 2 \/ Len(x) = 4 \/ Len(x) = 5 \/ Len(x) = 6
      /\ Len(y) = 2 \/ Len(y) = 4 \/ Len(y) = 5 \/ Len(y) = 6
  BY <1>1 DEF Reads
<1>5. Len(x) \in Nat /\ Len(y) \in Nat
  BY <1>2
<1>6. Len(y) <= 6
  <2>1. CASE Len(y) = 2
    BY <2>1
  <2>2. CASE Len(y) = 4
    BY <2>2
  <2>3. CASE Len(y) = 5
    BY <2>3
  <2>4. CASE Len(y) = 6
    BY <2>4
  <2>. QED
    BY <1>2, <2>1, <2>2, <2>3, <2>4
<1>3. SortsBefore(x, y) <=>
       \/ 1 <= Len(y) /\ (1 <= Len(x) => x[1] < y[1])
       \/ 2 <= Len(y) /\ 1 <= Len(x) /\ x[1] = y[1] /\ (2 <= Len(x) => x[2] < y[2])
       \/ 3 <= Len(y) /\ 2 <= Len(x) /\ x[1] = y[1] /\ x[2] = y[2]
            /\ (3 <= Len(x) => x[3] < y[3])
       \/ 4 <= Len(y) /\ 3 <= Len(x) /\ x[1] = y[1] /\ x[2] = y[2] /\ x[3] = y[3]
            /\ (4 <= Len(x) => x[4] < y[4])
       \/ 5 <= Len(y) /\ 4 <= Len(x) /\ x[1] = y[1] /\ x[2] = y[2] /\ x[3] = y[3]
            /\ x[4] = y[4] /\ (5 <= Len(x) => x[5] < y[5])
       \/ 6 <= Len(y) /\ 5 <= Len(x) /\ x[1] = y[1] /\ x[2] = y[2] /\ x[3] = y[3]
            /\ x[4] = y[4] /\ x[5] = y[5] /\ (6 <= Len(x) => x[6] < y[6])
  BY <1>5, <1>6, FirstDifference
<1>4. SortsBefore(x, y) <=>
        \/ x1 < y1
        \/ x1 = y1 /\ x2 < y2
        \/ x1 = y1 /\ x2 = y2 /\ x3 < y3
        \/ x1 = y1 /\ x2 = y2 /\ x3 = y3 /\ x4 < y4
  <2>1. CASE y2 = 0 /\ y3 = 0 /\ y4 = 0
    <3>0. Len(y) = 2 /\ y[1] = y1 /\ y[2] = 0
      BY <1>1, <2>1 DEF Reads
    <3>1. CASE x2 = 0 /\ x3 = 0 /\ x4 = 0
      <4>1. Len(x) = 2 /\ x[1] = x1 /\ x[2] = 0
        BY <1>1, <3>1 DEF Reads
      <4>. QED
        BY <1>3, <2>1, <3>0, <3>1, <4>1
    <3>2. CASE x2 # 0 /\ x3 = 0 /\ x4 = 0
      <4>1. Len(x) = 4 /\ x[1] = x1 /\ x[2] = 1 /\ x[3] = x2 + 2 /\ x[4] = 0
        BY <1>1, <3>2 DEF Reads
      <4>. QED
        BY <1>3, <2>1, <3>0, <3>2, <4>1
    <3>3. CASE x3 # 0 /\ x4 = 0
      <4>1. Len(x) = 5 /\ x[1] = x1 /\ x[2] = 1 /\ x[3] = x2 + 2 /\ x[4] = x3 + 2 /\ x[5] = 0
        BY <1>1, <3>3 DEF Reads
      <4>. QED
        BY <1>3, <2>1, <3>0, <3>3, <4>1
    <3>4. CASE x4 # 0
      <4>1. Len(x) = 6 /\ x[1] = x1 /\ x[2] = 1 /\ x[3] = x2 + 2 /\ x[4] = x3 + 2 /\ x[5] = x4 + 2 /\ x[6] = 0
        BY <1>1, <3>4 DEF Reads
      <4>. QED
        BY <1>3, <2>1, <3>0, <3>4, <4>1
    <3>. QED
      BY <3>1, <3>2, <3>3, <3>4
  <2>2. CASE y2 # 0 /\ y3 = 0 /\ y4 = 0
    <3>0. Len(y) = 4 /\ y[1] = y1 /\ y[2] = 1 /\ y[3] = y2 + 2 /\ y[4] = 0
      BY <1>1, <2>2 DEF Reads
    <3>1. CASE x2 = 0 /\ x3 = 0 /\ x4 = 0
      <4>1. Len(x) = 2 /\ x[1] = x1 /\ x[2] = 0
        BY <1>1, <3>1 DEF Reads
      <4>. QED
        BY <1>3, <2>2, <3>0, <3>1, <4>1
    <3>2. CASE x2 # 0 /\ x3 = 0 /\ x4 = 0
      <4>1. Len(x) = 4 /\ x[1] = x1 /\ x[2] = 1 /\ x[3] = x2 + 2 /\ x[4] = 0
        BY <1>1, <3>2 DEF Reads
      <4>. QED
        BY <1>3, <2>2, <3>0, <3>2, <4>1
    <3>3. CASE x3 # 0 /\ x4 = 0
      <4>1. Len(x) = 5 /\ x[1] = x1 /\ x[2] = 1 /\ x[3] = x2 + 2 /\ x[4] = x3 + 2 /\ x[5] = 0
        BY <1>1, <3>3 DEF Reads
      <4>. QED
        BY <1>3, <2>2, <3>0, <3>3, <4>1
    <3>4. CASE x4 # 0
      <4>1. Len(x) = 6 /\ x[1] = x1 /\ x[2] = 1 /\ x[3] = x2 + 2 /\ x[4] = x3 + 2 /\ x[5] = x4 + 2 /\ x[6] = 0
        BY <1>1, <3>4 DEF Reads
      <4>. QED
        BY <1>3, <2>2, <3>0, <3>4, <4>1
    <3>. QED
      BY <3>1, <3>2, <3>3, <3>4
  <2>3. CASE y3 # 0 /\ y4 = 0
    <3>0. Len(y) = 5 /\ y[1] = y1 /\ y[2] = 1 /\ y[3] = y2 + 2 /\ y[4] = y3 + 2 /\ y[5] = 0
      BY <1>1, <2>3 DEF Reads
    <3>1. CASE x2 = 0 /\ x3 = 0 /\ x4 = 0
      <4>1. Len(x) = 2 /\ x[1] = x1 /\ x[2] = 0
        BY <1>1, <3>1 DEF Reads
      <4>. QED
        BY <1>3, <2>3, <3>0, <3>1, <4>1
    <3>2. CASE x2 # 0 /\ x3 = 0 /\ x4 = 0
      <4>1. Len(x) = 4 /\ x[1] = x1 /\ x[2] = 1 /\ x[3] = x2 + 2 /\ x[4] = 0
        BY <1>1, <3>2 DEF Reads
      <4>. QED
        BY <1>3, <2>3, <3>0, <3>2, <4>1
    <3>3. CASE x3 # 0 /\ x4 = 0
      <4>1. Len(x) = 5 /\ x[1] = x1 /\ x[2] = 1 /\ x[3] = x2 + 2 /\ x[4] = x3 + 2 /\ x[5] = 0
        BY <1>1, <3>3 DEF Reads
      <4>. QED
        BY <1>3, <2>3, <3>0, <3>3, <4>1
    <3>4. CASE x4 # 0
      <4>1. Len(x) = 6 /\ x[1] = x1 /\ x[2] = 1 /\ x[3] = x2 + 2 /\ x[4] = x3 + 2 /\ x[5] = x4 + 2 /\ x[6] = 0
        BY <1>1, <3>4 DEF Reads
      <4>. QED
        BY <1>3, <2>3, <3>0, <3>4, <4>1
    <3>. QED
      BY <3>1, <3>2, <3>3, <3>4
  <2>4. CASE y4 # 0
    <3>0. Len(y) = 6 /\ y[1] = y1 /\ y[2] = 1 /\ y[3] = y2 + 2 /\ y[4] = y3 + 2 /\ y[5] = y4 + 2 /\ y[6] = 0
      BY <1>1, <2>4 DEF Reads
    <3>1. CASE x2 = 0 /\ x3 = 0 /\ x4 = 0
      <4>1. Len(x) = 2 /\ x[1] = x1 /\ x[2] = 0
        BY <1>1, <3>1 DEF Reads
      <4>. QED
        BY <1>3, <2>4, <3>0, <3>1, <4>1
    <3>2. CASE x2 # 0 /\ x3 = 0 /\ x4 = 0
      <4>1. Len(x) = 4 /\ x[1] = x1 /\ x[2] = 1 /\ x[3] = x2 + 2 /\ x[4] = 0
        BY <1>1, <3>2 DEF Reads
      <4>. QED
        BY <1>3, <2>4, <3>0, <3>2, <4>1
    <3>3. CASE x3 # 0 /\ x4 = 0
      <4>1. Len(x) = 5 /\ x[1] = x1 /\ x[2] = 1 /\ x[3] = x2 + 2 /\ x[4] = x3 + 2 /\ x[5] = 0
        BY <1>1, <3>3 DEF Reads
      <4>. QED
        BY <1>3, <2>4, <3>0, <3>3, <4>1
    <3>4. CASE x4 # 0
      <4>1. Len(x) = 6 /\ x[1] = x1 /\ x[2] = 1 /\ x[3] = x2 + 2 /\ x[4] = x3 + 2 /\ x[5] = x4 + 2 /\ x[6] = 0
        BY <1>1, <3>4 DEF Reads
      <4>. QED
        BY <1>3, <2>4, <3>0, <3>4, <4>1
    <3>. QED
      BY <3>1, <3>2, <3>3, <3>4
  <2>. QED
    BY <2>1, <2>2, <2>3, <2>4
<1>. QED
  BY <1>4 DEF x, y, Lex

\* SQLite compares instants as it should: texts of different lengths sort as
\* the instants they stand for.
THEOREM TextOrder ==
  ASSUME NEW t \in Nat, NEW u \in Nat
  PROVE  TextBefore(t, u) <=> t < u
<1>1. PICK x1 \in Nat, x2 \in Nat, x3 \in Nat, x4 \in Nat : Digits(t) = <<x1, x2, x3, x4>>
  BY DigitsOrdered
<1>2. PICK y1 \in Nat, y2 \in Nat, y3 \in Nat, y4 \in Nat : Digits(u) = <<y1, y2, y3, y4>>
  BY DigitsOrdered
<1>3. TextBefore(t, u) <=> Lex(Digits(t), Digits(u))
  BY <1>1, <1>2, TextsOrdered DEF TextBefore
<1>. QED
  BY <1>3, DigitsOrdered
-----------------------------------------------------------------------------
\* A call in both stores

BothDone(c) == SqliteDone(c) /\ PostgresDone(c)
BothGo(c, job) == SqliteGoes(c, job) /\ PostgresGoes(c, job)
BothFree(c) == jobs[c] = Idle /\ pgJobs[c] = Idle

InMicros(row) == [row EXCEPT !.at = Micros(@)]

SaveCall ==
  \E d \in Devices, row \in DeviceRow :
    /\ row.at = now \/ (tables.devices[d] # NoRow /\ row.at = tables.devices[d].at)
    /\ row.room \in tables.rooms \cup {NoRoom} /\ row.room \in pgTables.rooms \cup {NoRoom}
    /\ BothFree(Worker)
    /\ DeviceSaved(tables, tables', d, row) /\ DeviceSaved(pgTables, pgTables', d, InMicros(row))
    /\ IF config.enabled THEN /\ SqliteGoes(Worker, Saves(d, row, tables.devices[d]))
                              /\ PostgresGoes(Worker, Saves(d, row, pgTables.devices[d]))
                         ELSE BothDone(Worker)

TableCall ==
  /\ BothDone(Worker)
  /\ \/ \E d \in Devices : DeviceDeleted(tables, tables', d) /\ DeviceDeleted(pgTables, pgTables', d)
     \/ \E r \in Rooms : RoomSaved(tables, tables', r) /\ RoomSaved(pgTables, pgTables', r)
     \/ \E r \in Rooms : RoomDeleted(tables, tables', r) /\ RoomDeleted(pgTables, pgTables', r)
     \/ \E g \in Groups, list \in Ordered(Devices) :
          GroupSaved(tables, tables', g, list) /\ GroupSaved(pgTables, pgTables', g, list)
     \/ \E g \in Groups : GroupDeleted(tables, tables', g) /\ GroupDeleted(pgTables, pgTables', g)

PruneCall ==
  /\ BothFree(Pruner) /\ config.retention # Forever
  /\ UNCHANGED <<tables, pgTables>> /\ BothGo(Pruner, Prunes("pruneDevices", Cutoff))

StateCall ==
  /\ BothDone(TheRequest)
  /\ \/ Only(tables, tables', Journals) /\ Only(pgTables, pgTables', Journals)
     \/ \E a \in Automations, state \in StateRow :
          StateSaved(tables, tables', a, state) /\ StateSaved(pgTables, pgTables', a, StateInMicros(state))

CreateCall ==
  \E c \in Requests, hash \in Hashes \ spent, role \in Roles, p \in Persons \cup {Nobody} :
    /\ spent' = spent \cup {hash} /\ BothFree(c)
    /\ KeyCreated(tables, tables', hash, role, p) /\ KeyCreated(pgTables, pgTables', hash, role, p)
    /\ SqliteGoes(c, ReadsBack(tables.lastKey + 1, hash))
    /\ UNCHANGED <<pgJobs, pgCut>>
    /\ pgAnswers' = pgAnswers \cup {[hash |-> hash, record |-> NewKey(pgTables, hash, role, p)]}

KeyCall ==
  \E c \in Requests : \E id :
    /\ BothDone(c)
    /\ \/ KeyRevoked(tables, tables', id) /\ KeyRevoked(pgTables, pgTables', id)
       \/ KeyTouched(tables, tables', id, now) /\ KeyTouched(pgTables, pgTables', id, Micros(now))

PersonCall ==
  \/ /\ BothDone(TheRequest)
     /\ \/ \E p \in Persons, row \in Places :
             PersonSaved(tables, tables', p, row) /\ PersonSaved(pgTables, pgTables', p, row)
        \/ \E p \in Persons : PersonDeleted(tables, tables', p) /\ PersonDeleted(pgTables, pgTables', p)
        \/ \E z \in Places, row \in Values \cup {NoRow} :
             ZoneSaved(tables, tables', z, row) /\ ZoneSaved(pgTables, pgTables', z, row)
  \/ \E p \in Persons, list \in Ordered(Devices) :
       /\ BothFree(TheRequest)
       /\ TrackersCleared(tables, tables', p) /\ TrackersCleared(pgTables, pgTables', p)
       /\ BothGo(TheRequest, IF list = <<>> THEN Idle ELSE Tracks(p, list, 1))
  \/ \E c \in Callers :
       BothDone(c) /\ Only(tables, tables', Journals) /\ Only(pgTables, pgTables', Journals)

NoCall == UNCHANGED <<sqlite, postgres>>

LEMMA MicrosTyped ==
  /\ \A row \in DeviceRow : InMicros(row) \in DeviceRow
  /\ \A state \in StateRow : StateInMicros(state) \in StateRow
<1>1. \A t \in Int : Micros(t) \in Int
  BY BaseAssumption DEF Micros
<1>2. \A t \in Nat : Micros(t) \in Nat
  BY MicrosNat
<1>. QED
  BY <1>1, <1>2 DEF InMicros, StateInMicros, MicrosIfAny, DeviceRow, StateRow

LEMMA Callable == {Worker, Pruner, TheRequest} \subseteq Callers /\ TheRequest \in Requests /\ Requests \subseteq Callers
  BY MirrorAssumption DEF Callers, TheRequest

LEMMA RowedTyped ==
  ASSUME TypeInv, NEW d \in Devices, NEW row \in Rowed(d)
  PROVE  /\ row \in DeviceRow
         /\ row.at = now \/ (tables.devices[d] # NoRow /\ row.at = tables.devices[d].at)
<1>1. tables.devices[d] \in DeviceRow \cup {NoRow}
  BY DEF TypeInv, TablesOK, DevicesOK
<1>2. row \in [room : Rooms \cup {NoRoom}, attrs : [Attributes -> Values \cup {Absent}],
               at : {now} \cup (IF tables.devices[d] = NoRow THEN {} ELSE {tables.devices[d].at})]
  BY DEF Rowed
<1>. QED
  BY <1>1, <1>2 DEF TypeInv, DeviceRow

LEMMA WorkerCalls ==
  ASSUME TypeInv, CallDevices \/ CallHistory
  PROVE  UNCHANGED <<config, now, spent>> /\ (SaveCall \/ TableCall \/ PruneCall)
<1>0. UNCHANGED <<config, now, spent>> /\ Named(tables) /\ Named(pgTables)
  BY DEF CallDevices, CallHistory, Issue, TypeInv, TablesOK
<1>. USE DEF BothDone, BothFree
<1>1. ASSUME NEW d \in Devices, NEW row \in DeviceRow,
             row.at = now \/ (tables.devices[d] # NoRow /\ row.at = tables.devices[d].at),
             S!SaveDevice(Worker, d, row), P!SaveDevice(Worker, d, row)
      PROVE  SaveCall
  BY <1>0, <1>1, SqliteDeviceCalls, PostgresDeviceCalls DEF SaveCall, InMicros
<1>2. ASSUME NEW d \in Devices, S!DeleteDevice(Worker, d), P!DeleteDevice(Worker, d) PROVE TableCall
  BY <1>0, <1>2, SqliteDeviceCalls, PostgresDeviceCalls DEF TableCall
<1>3. ASSUME NEW r \in Rooms, \/ S!SaveRoom(Worker, r) /\ P!SaveRoom(Worker, r)
                              \/ S!DeleteRoom(Worker, r) /\ P!DeleteRoom(Worker, r)
      PROVE  TableCall
  BY <1>0, <1>3, SqliteDeviceCalls, PostgresDeviceCalls DEF TableCall
<1>4. ASSUME NEW g \in Groups, \/ \E m \in Ordered(Devices) :
                                    S!SaveGroup(Worker, g, m) /\ P!SaveGroup(Worker, g, m)
                               \/ S!DeleteGroup(Worker, g) /\ P!DeleteGroup(Worker, g)
      PROVE  TableCall
  BY <1>0, <1>4, SqliteDeviceCalls, PostgresDeviceCalls DEF TableCall
<1>5. CASE CallDevices
  <2>1. \A r \in Rooms \cup {NoRoom} :
          [room |-> r, attrs |-> [a \in Attributes |-> Absent], at |-> now] \in DeviceRow
    BY DEF DeviceRow, TypeInv
  <2>. QED
    BY <1>0, <1>1, <1>2, <1>3, <1>4, <1>5, <2>1 DEF CallDevices
<1>6. CASE CallHistory
  <2>. DEFINE d == CHOOSE d \in Devices : TRUE
  <2>1. d \in Devices
    BY MirrorAssumption
  <2>2. S!PruneHistory(Pruner) /\ P!PruneHistory(Pruner) => PruneCall
    BY <1>0, SqliteHistoryStatements, PostgresHistoryStatements DEF PruneCall, BothGo
  <2>3. \/ \E row \in Rowed(d) : S!SaveDevice(Worker, d, row) /\ P!SaveDevice(Worker, d, row)
        \/ S!DeleteDevice(Worker, d) /\ P!DeleteDevice(Worker, d)
        \/ \E r \in Rooms :
             \/ S!SaveRoom(Worker, r) /\ P!SaveRoom(Worker, r)
             \/ S!DeleteRoom(Worker, r) /\ P!DeleteRoom(Worker, r)
        \/ S!PruneHistory(Pruner) /\ P!PruneHistory(Pruner)
    BY <1>6 DEF CallHistory
  <2>. HIDE DEF d
  <2>4. ASSUME NEW row \in Rowed(d), S!SaveDevice(Worker, d, row), P!SaveDevice(Worker, d, row)
        PROVE  SaveCall
    BY <1>1, <2>1, <2>4, RowedTyped
  <2>. QED
    BY <1>0, <1>2, <1>3, <2>1, <2>2, <2>3, <2>4
<1>. QED
  BY <1>5, <1>6

LEMMA JournalCalls ==
  ASSUME TypeInv, CallJournals
  PROVE  UNCHANGED <<config, now, spent>> /\ StateCall
<1>0. UNCHANGED <<config, now, spent>> /\ Named(tables) /\ Named(pgTables)
  BY DEF CallJournals, Issue, TypeInv, TablesOK
<1>1. PICK t \in Stamps :
     \/ \E d \in Devices, a \in Attributes :
          LET e == [at |-> t, device |-> d, capability |-> a] IN
          S!SaveCommandAudit(TheRequest, e) /\ P!SaveCommandAudit(TheRequest, e)
     \/ \E targets \in SUBSET Devices :
          LET e == [at |-> t, targets |-> targets] IN
          S!SaveSceneExecution(TheRequest, e) /\ P!SaveSceneExecution(TheRequest, e)
     \/ \E p \in Payload, targets \in SUBSET Devices :
          LET e == [at |-> t, payload |-> p, targets |-> targets] IN
          S!SaveAutomationExecution(TheRequest, e) /\ P!SaveAutomationExecution(TheRequest, e)
     \/ \E a \in Automations, fired \in {Absent, t} :
          LET state == [at |-> t, scheduled |-> fired] IN
          S!SaveRuntimeState(TheRequest, a, state) /\ P!SaveRuntimeState(TheRequest, a, state)
  BY DEF CallJournals, TheRequest
<1>2. t \in Int
  BY DEF Stamps, TypeInv
<1>3. \A fired \in {Absent, t} : [at |-> t, scheduled |-> fired] \in StateRow
  BY <1>2 DEF StateRow
<1>. QED
  BY <1>0, <1>1, <1>3, SqliteJournalCalls, PostgresJournalCalls DEF StateCall, BothDone

LEMMA KeyCalls ==
  ASSUME TypeInv, CallKeys
  PROVE  /\ UNCHANGED <<config, now>>
         /\ CreateCall \/ (spent' = spent /\ (KeyCall \/ NoCall))
<1>0. UNCHANGED <<config, now>> /\ Named(tables) /\ Named(pgTables)
  BY DEF CallKeys, Issue, TypeInv, TablesOK
<1>1. PICK c \in Requests :
     \/ \E hash \in Hashes \ spent, role \in Roles, p \in Persons \cup {Nobody} :
          /\ S!CreateKey(c, hash, role, p) /\ P!CreateKey(c, hash, role, p)
          /\ spent' = spent \cup {hash}
          /\ UNCHANGED looked
     \/ \E k \in tables.apiKeys :
          /\ S!RevokeKey(c, k.id) /\ P!RevokeKey(c, k.id)
          /\ UNCHANGED <<looked, spent>>
     \/ \E hash \in Hashes :
          /\ S!LookupKey(hash) # {}
          /\ looked' = looked \cup S!LookupKey(hash)
          /\ UNCHANGED <<sqlite, postgres, spent>>
     \/ \E k \in looked :
          /\ S!TouchKey(c, k) /\ P!TouchKey(c, k)
          /\ looked' = looked \ {k}
          /\ UNCHANGED spent
  BY DEF CallKeys
<1>2. ASSUME NEW hash \in Hashes \ spent, NEW role \in Roles, NEW p \in Persons \cup {Nobody},
             S!CreateKey(c, hash, role, p), P!CreateKey(c, hash, role, p),
             spent' = spent \cup {hash}
      PROVE  CreateCall
  <2>1. /\ jobs[c] = Idle /\ KeyCreated(tables, tables', hash, role, p)
        /\ SqliteGoes(c, ReadsBack(tables.lastKey + 1, hash))
    BY <1>0, <1>2, SqliteKeyCalls
  <2>2. /\ KeyCreated(pgTables, pgTables', hash, role, p) /\ UNCHANGED <<pgJobs, pgCut>>
        /\ pgAnswers' = pgAnswers \cup {[hash |-> hash, record |-> NewKey(pgTables, hash, role, p)]}
    BY <1>0, <1>2, PostgresKeyCalls
  <2>3. pgJobs[c] = Idle
    BY <1>2 DEF P!CreateKey, P!Free, P!Idle, Idle
  <2>. QED
    BY <1>2, <2>1, <2>2, <2>3 DEF CreateCall, BothFree
<1>3. ASSUME NEW id, S!RevokeKey(c, id), P!RevokeKey(c, id) PROVE KeyCall
  BY <1>0, <1>3, SqliteKeyCalls, PostgresKeyCalls DEF KeyCall, BothDone
<1>4. ASSUME NEW k, S!TouchKey(c, k), P!TouchKey(c, k) PROVE KeyCall
  BY <1>0, <1>4, SqliteKeyCalls, PostgresKeyCalls DEF KeyCall, BothDone
<1>. QED
  BY <1>0, <1>1, <1>2, <1>3, <1>4 DEF NoCall

LEMMA PersonCalls ==
  ASSUME TypeInv, CallPersons
  PROVE  UNCHANGED <<config, now, spent>> /\ PersonCall
<1>0. UNCHANGED <<config, now, spent>> /\ Named(tables) /\ Named(pgTables)
  BY DEF CallPersons, Issue, TypeInv, TablesOK
<1>1. \/ \E p \in Persons, row \in Places :
           S!UpsertPerson(TheRequest, p, row) /\ P!UpsertPerson(TheRequest, p, row)
      \/ \E p \in Persons : S!DeletePerson(TheRequest, p) /\ P!DeletePerson(TheRequest, p)
      \/ \E p \in Persons, list \in Ordered(Devices) :
           S!UpdateTrackers(TheRequest, p, list) /\ P!UpdateTrackers(TheRequest, p, list)
      \/ \E z \in Places, row \in Values :
           S!UpsertZone(TheRequest, z, row) /\ P!UpsertZone(TheRequest, z, row)
      \/ \E z \in Places : S!DeleteZone(TheRequest, z) /\ P!DeleteZone(TheRequest, z)
      \/ \E e : S!RecordPersonHistory(TheRequest, e) /\ P!RecordPersonHistory(TheRequest, e)
      \/ S!PrunePersonHistory(Pruner) /\ P!PrunePersonHistory(Pruner)
  BY DEF CallPersons, TheRequest
<1>. QED
  BY <1>0, <1>1, Callable, SqlitePersonCalls, PostgresPersonCalls, SqliteJournalCalls,
     PostgresJournalCalls DEF PersonCall, BothDone, BothFree, BothGo

-----------------------------------------------------------------------------
\* The calls under way stay well formed

LEMMA JobsSet ==
  ASSUME NEW js, NEW ks, NEW c \in Callers, NEW job \in Job, JobsOK(js), Then(js, ks, c, job),
         job.step \in {"snapshot", "attributes"} => c = Worker,
         job.step = "trackers" => c = TheRequest /\ job.next \in 1..Len(job.list)
  PROVE  JobsOK(ks)
  BY DEF JobsOK, Then

LEMMA JobMade ==
  /\ Idle \in Job /\ Idle.step = "idle"
  /\ \A d \in Devices, row \in DeviceRow, prev \in DeviceRow \cup {NoRow} :
       Saves(d, row, prev) \in SnapshotJob
  /\ \A d \in Devices, row \in DeviceRow, left \in SUBSET Attributes :
       Records(d, row, left) \in AttributesJob
  /\ \A cutoff \in Nat, step \in {"pruneDevices", "pruneAttributes"} :
       Prunes(step, cutoff) \in PruneJob
  /\ \A id \in Nat, hash \in Hashes : ReadsBack(id, hash) \in ReadBackJob
  /\ \A p \in Persons, list \in Seq(Devices), n \in Nat : Tracks(p, list, n) \in TrackersJob
  BY DEF Job, Idle, Saves, SnapshotJob, Records, AttributesJob, Prunes, PruneJob, ReadsBack,
         ReadBackJob, Tracks, TrackersJob

LEMMA JobIdle ==
  ASSUME NEW js, NEW ks, NEW c \in Callers, JobsOK(js), Then(js, ks, c, Idle)
  PROVE  JobsOK(ks)
  BY JobsSet, JobMade

LEMMA JobSaves ==
  ASSUME NEW js, NEW ks, JobsOK(js), NEW d \in Devices, NEW row \in DeviceRow,
         NEW prev \in DeviceRow \cup {NoRow}, Then(js, ks, Worker, Saves(d, row, prev))
  PROVE  JobsOK(ks)
<1>1. Saves(d, row, prev) \in Job /\ Saves(d, row, prev).step = "snapshot"
  BY JobMade DEF Job, Saves
<1>. QED
  BY <1>1, JobsSet, Callable

LEMMA JobRecords ==
  ASSUME NEW js, NEW ks, JobsOK(js), NEW job \in AttributesJob, Then(js, ks, Worker, job)
  PROVE  JobsOK(ks)
<1>1. job \in Job /\ job.step = "attributes"
  BY DEF Job, AttributesJob
<1>. QED
  BY <1>1, JobsSet, Callable

LEMMA JobPrunes ==
  ASSUME NEW js, NEW ks, NEW c \in Callers, JobsOK(js), NEW cutoff \in Nat,
         NEW step \in {"pruneDevices", "pruneAttributes"}, Then(js, ks, c, Prunes(step, cutoff))
  PROVE  JobsOK(ks)
<1>1. Prunes(step, cutoff) \in Job /\ Prunes(step, cutoff).step = step
  BY JobMade DEF Job, Prunes
<1>. QED
  BY <1>1, JobsSet

LEMMA JobReadsBack ==
  ASSUME NEW js, NEW ks, NEW c \in Callers, JobsOK(js), NEW id \in Nat, NEW hash \in Hashes,
         Then(js, ks, c, ReadsBack(id, hash))
  PROVE  JobsOK(ks)
<1>1. ReadsBack(id, hash) \in Job /\ ReadsBack(id, hash).step = "readBack"
  BY JobMade DEF Job, ReadsBack
<1>. QED
  BY <1>1, JobsSet

LEMMA JobTracks ==
  ASSUME NEW js, NEW ks, JobsOK(js), NEW job \in TrackersJob, job.next \in 1..Len(job.list),
         Then(js, ks, TheRequest, job)
  PROVE  JobsOK(ks)
<1>1. job \in Job /\ job.step = "trackers"
  BY DEF Job, TrackersJob
<1>. QED
  BY <1>1, JobsSet, Callable

LEMMA CutoffTyped == TypeInv /\ config.retention # Forever => Cutoff \in Nat
  BY MirrorAssumption DEF TypeInv, Cutoff

\* The snapshot a save records and the attributes that are to follow.
LEMMA SnapshotTyped ==
  ASSUME NEW job \in SnapshotJob
  PROVE  /\ \A at \in Nat : SnapshotRow(job, at) \in Snapshot
         /\ Records(job.device, job.row, Changed(config.selection, job)) \in AttributesJob
<1>1. job.device \in Devices /\ job.row \in DeviceRow /\ Changed(config.selection, job) \in SUBSET Attributes
  BY DEF SnapshotJob, Changed, Present
<1>. QED
  BY <1>1, JobMade DEF SnapshotRow, Snapshot

LEMMA ValueTyped ==
  ASSUME NEW job \in AttributesJob, NEW a \in job.left
  PROVE  /\ a \in Attributes
         /\ \A at \in Nat : ValueRow(job, a, at) \in Value
         /\ [job EXCEPT !.left = @ \ {a}] \in AttributesJob
         /\ job.row.at \in Nat /\ Micros(job.row.at) \in Nat
<1>1. a \in Attributes /\ job.row \in DeviceRow /\ job.device \in Devices
  BY DEF AttributesJob
<1>2. job.row.attrs[a] \in Values \cup {Absent} /\ job.row.at \in Nat
  BY <1>1 DEF DeviceRow
<1>. QED
  BY <1>1, <1>2, MicrosNat DEF ValueRow, Value, AttributesJob

LEMMA TrackerNext ==
  ASSUME NEW job \in TrackersJob, job.next \in 1..Len(job.list), job.next < Len(job.list)
  PROVE  LET then == [job EXCEPT !.next = @ + 1] IN
         then \in TrackersJob /\ then.next \in 1..Len(then.list) /\ then.list = job.list
                /\ then.person = job.person /\ then.next = job.next + 1
<1>1. Len(job.list) \in Nat
  BY DEF TrackersJob
<1>. QED
  BY <1>1 DEF TrackersJob

-----------------------------------------------------------------------------
\* What a step does to the tables of each store, and that types are preserved

LEMMA SqliteStatement ==
  ASSUME TypeInv, NEW c \in Callers, SqliteStep(c)
  PROVE  /\ Change(tables, tables') /\ JobsOK(jobs') /\ cut' \in BOOLEAN
         /\ UNCHANGED <<config, now, spent, postgres>>
<1>0. /\ UNCHANGED <<config, now, spent, postgres>>
      /\ Named(tables) /\ JobsOK(jobs) /\ jobs[c] \in Job /\ cut \in BOOLEAN
  BY DEF SqliteStep, client, TypeInv, TablesOK, JobsOK
<1>1. CASE S!RecordSnapshot(c)
  <2>1. jobs[c].step = "snapshot" /\ jobs[c] \in SnapshotJob /\ c = Worker
    BY <1>0, <1>1, SqliteHistoryStatements, JobAt DEF JobsOK
  <2>2. jobs[c].row.at \in Nat
    BY <2>1 DEF SnapshotJob, DeviceRow
  <2>3. Change(tables, tables')
    BY <1>0, <1>1, <2>1, <2>2, SqliteHistoryStatements, SnapshotTyped DEF Change, HistoryChange
  <2>4. Then(jobs, jobs', Worker, Records(jobs[c].device, jobs[c].row, Changed(config.selection, jobs[c]))) /\ cut' = cut
    BY <1>0, <1>1, <2>1, SqliteHistoryStatements DEF SqliteGoes
  <2>. QED
    BY <1>0, <2>1, <2>3, <2>4, JobRecords, SnapshotTyped
<1>2. ASSUME NEW a \in Attributes, S!RecordAttribute(c, a)
      PROVE  Change(tables, tables') /\ JobsOK(jobs') /\ cut' \in BOOLEAN
  <2>1. jobs[c].step = "attributes" /\ jobs[c] \in AttributesJob /\ c = Worker /\ a \in jobs[c].left
    BY <1>0, <1>2, SqliteHistoryStatements, JobAt DEF JobsOK
  <2>3. Change(tables, tables')
    BY <1>0, <1>2, <2>1, SqliteHistoryStatements, ValueTyped DEF Change, HistoryChange
  <2>4. Then(jobs, jobs', Worker, [jobs[c] EXCEPT !.left = @ \ {a}]) /\ cut' = cut
    BY <1>0, <1>2, <2>1, SqliteHistoryStatements DEF SqliteGoes
  <2>. QED
    BY <1>0, <2>1, <2>3, <2>4, JobRecords, ValueTyped
<1>3. CASE S!SavePrunes(c)
  <2>1. tables' = tables /\ cut' = cut
        /\ Then(jobs, jobs', c, IF config.retention = Forever THEN Idle
                                  ELSE Prunes("pruneDevices", Cutoff))
    BY <1>0, <1>3, SqliteHistoryStatements DEF SqliteGoes
  <2>. QED
    BY <1>0, <2>1, JobIdle, JobPrunes, CutoffTyped DEF Change
<1>4. CASE S!PruneDevices(c)
  <2>1. /\ jobs[c].step = "pruneDevices" /\ cut' = cut
        /\ Only(tables, tables', {"deviceHistory"})
        /\ tables'.deviceHistory = S!Kept(tables.deviceHistory, jobs[c].cutoff)
        /\ Then(jobs, jobs', c, Prunes("pruneAttributes", jobs[c].cutoff))
    BY <1>0, <1>4, SqliteHistoryStatements DEF SqliteGoes
  <2>2. jobs[c].cutoff \in Nat
    BY <1>0, <2>1, JobAt DEF PruneJob
  <2>. QED
    BY <1>0, <2>1, <2>2, JobPrunes DEF Change, HistoryChange, S!Kept
<1>5. CASE S!PruneAttributes(c)
  <2>1. /\ Only(tables, tables', {"attributeHistory"}) /\ cut' = cut
        /\ tables'.attributeHistory = S!Kept(tables.attributeHistory, jobs[c].cutoff)
        /\ Then(jobs, jobs', c, Idle)
    BY <1>0, <1>5, SqliteHistoryStatements DEF SqliteGoes
  <2>. QED
    BY <1>0, <2>1, JobIdle DEF Change, HistoryChange, S!Kept
<1>6. CASE S!ReadBackKey(c)
  BY <1>0, <1>6, SqliteOthers, JobIdle DEF Change
<1>7. CASE S!InsertTracker(c)
  <2>1. jobs[c].step = "trackers" /\ jobs[c] \in TrackersJob
    BY <1>0, <1>7, SqliteOthers, JobAt
  <2>2. c = TheRequest /\ jobs[c].next \in 1..Len(jobs[c].list)
    BY <1>0, <2>1 DEF JobsOK
  <2>3. CASE Fits(tables, jobs[c])
    <3>1. /\ TrackerAdded(tables, tables', jobs[c]) /\ cut' = cut
          /\ Then(jobs, jobs', c, IF jobs[c].next < Len(jobs[c].list)
                                    THEN [jobs[c] EXCEPT !.next = @ + 1] ELSE Idle)
      BY <1>0, <1>7, <2>3, SqliteOthers DEF SqliteGoes
    <3>2. Change(tables, tables')
      BY <2>1, <2>2, <2>3, <3>1 DEF Change, PersonChange
    <3>3. CASE jobs[c].next < Len(jobs[c].list)
      <4>1. /\ [jobs[c] EXCEPT !.next = @ + 1] \in TrackersJob
            /\ [jobs[c] EXCEPT !.next = @ + 1].next \in 1..Len([jobs[c] EXCEPT !.next = @ + 1].list)
        BY <2>1, <2>2, <3>3, TrackerNext
      <4>2. Then(jobs, jobs', TheRequest, [jobs[c] EXCEPT !.next = @ + 1])
        BY <2>2, <3>1, <3>3
      <4>3. JobsOK(jobs')
        BY <1>0, <4>1, <4>2, JobTracks
      <4>. QED
        BY <1>0, <3>1, <3>2, <4>3
    <3>4. CASE ~(jobs[c].next < Len(jobs[c].list))
      BY <1>0, <3>1, <3>2, <3>4, JobIdle
    <3>. QED
      BY <3>3, <3>4
  <2>4. CASE ~Fits(tables, jobs[c])
    BY <1>0, <1>7, <2>4, SqliteOthers, JobIdle DEF Change
  <2>. QED
    BY <2>3, <2>4
<1>. QED
  BY <1>0, <1>1, <1>2, <1>3, <1>4, <1>5, <1>6, <1>7 DEF SqliteStep

LEMMA PostgresStatement ==
  ASSUME TypeInv, NEW c \in Callers, PostgresStep(c)
  PROVE  /\ Change(pgTables, pgTables') /\ JobsOK(pgJobs') /\ pgCut' \in BOOLEAN
         /\ UNCHANGED <<config, now, spent, sqlite>>
<1>0. /\ UNCHANGED <<config, now, spent, sqlite>>
      /\ Named(pgTables) /\ JobsOK(pgJobs) /\ pgJobs[c] \in Job /\ pgCut \in BOOLEAN
  BY DEF PostgresStep, client, TypeInv, TablesOK, JobsOK
<1>1. CASE P!RecordSnapshot(c)
  <2>1. pgJobs[c].step = "snapshot" /\ pgJobs[c] \in SnapshotJob /\ c = Worker
    BY <1>0, <1>1, PostgresHistoryStatements, JobAt DEF JobsOK
  <2>2. Micros(pgJobs[c].row.at) \in Nat
    BY <2>1, MicrosNat DEF SnapshotJob, DeviceRow
  <2>3. Change(pgTables, pgTables')
    BY <1>0, <1>1, <2>1, <2>2, PostgresHistoryStatements, SnapshotTyped DEF Change, HistoryChange
  <2>4. /\ Then(pgJobs, pgJobs', Worker, Records(pgJobs[c].device, pgJobs[c].row, Changed(config.selection, pgJobs[c])))
        /\ pgCut' = pgCut
    BY <1>0, <1>1, <2>1, PostgresHistoryStatements DEF PostgresGoes
  <2>. QED
    BY <1>0, <2>1, <2>3, <2>4, JobRecords, SnapshotTyped
<1>2. ASSUME NEW a \in Attributes, P!RecordAttribute(c, a)
      PROVE  Change(pgTables, pgTables') /\ JobsOK(pgJobs') /\ pgCut' \in BOOLEAN
  <2>1. /\ pgJobs[c].step = "attributes" /\ pgJobs[c] \in AttributesJob /\ c = Worker
        /\ a \in pgJobs[c].left
    BY <1>0, <1>2, PostgresHistoryStatements, JobAt DEF JobsOK
  <2>3. Change(pgTables, pgTables')
    BY <1>0, <1>2, <2>1, PostgresHistoryStatements, ValueTyped DEF Change, HistoryChange
  <2>4. Then(pgJobs, pgJobs', Worker, [pgJobs[c] EXCEPT !.left = @ \ {a}]) /\ pgCut' = pgCut
    BY <1>0, <1>2, <2>1, PostgresHistoryStatements DEF PostgresGoes
  <2>. QED
    BY <1>0, <2>1, <2>3, <2>4, JobRecords, ValueTyped
<1>3. CASE P!SaveEnds(c)
  <2>1. pgTables' = pgTables /\ pgCut' = pgCut /\ Then(pgJobs, pgJobs', c, Idle)
    BY <1>0, <1>3, PostgresHistoryStatements DEF PostgresGoes
  <2>. QED
    BY <1>0, <2>1, JobIdle DEF Change
<1>4. CASE P!PruneDevices(c)
  <2>1. /\ pgJobs[c].step = "pruneDevices" /\ pgCut' = pgCut
        /\ Only(pgTables, pgTables', {"deviceHistory"})
        /\ pgTables'.deviceHistory = P!Kept(pgTables.deviceHistory, pgJobs[c].cutoff)
        /\ Then(pgJobs, pgJobs', c, Prunes("pruneAttributes", pgJobs[c].cutoff))
    BY <1>0, <1>4, PostgresHistoryStatements DEF PostgresGoes
  <2>2. pgJobs[c].cutoff \in Nat
    BY <1>0, <2>1, JobAt DEF PruneJob
  <2>. QED
    BY <1>0, <2>1, <2>2, JobPrunes DEF Change, HistoryChange, P!Kept
<1>5. CASE P!PruneAttributes(c)
  <2>1. /\ Only(pgTables, pgTables', {"attributeHistory"}) /\ pgCut' = pgCut
        /\ pgTables'.attributeHistory = P!Kept(pgTables.attributeHistory, pgJobs[c].cutoff)
        /\ Then(pgJobs, pgJobs', c, Idle)
    BY <1>0, <1>5, PostgresHistoryStatements DEF PostgresGoes
  <2>. QED
    BY <1>0, <2>1, JobIdle DEF Change, HistoryChange, P!Kept
<1>7. CASE P!InsertTracker(c)
  <2>1. pgJobs[c].step = "trackers" /\ pgJobs[c] \in TrackersJob
    BY <1>0, <1>7, PostgresOthers, JobAt
  <2>2. c = TheRequest /\ pgJobs[c].next \in 1..Len(pgJobs[c].list)
    BY <1>0, <2>1 DEF JobsOK
  <2>3. CASE Fits(pgTables, pgJobs[c])
    <3>1. /\ TrackerAdded(pgTables, pgTables', pgJobs[c]) /\ pgCut' = pgCut
          /\ Then(pgJobs, pgJobs', c, IF pgJobs[c].next < Len(pgJobs[c].list)
                                        THEN [pgJobs[c] EXCEPT !.next = @ + 1] ELSE Idle)
      BY <1>0, <1>7, <2>3, PostgresOthers DEF PostgresGoes
    <3>2. Change(pgTables, pgTables')
      BY <2>1, <2>2, <2>3, <3>1 DEF Change, PersonChange
    <3>3. CASE pgJobs[c].next < Len(pgJobs[c].list)
      <4>1. /\ [pgJobs[c] EXCEPT !.next = @ + 1] \in TrackersJob
            /\ [pgJobs[c] EXCEPT !.next = @ + 1].next \in 1..Len([pgJobs[c] EXCEPT !.next = @ + 1].list)
        BY <2>1, <2>2, <3>3, TrackerNext
      <4>2. Then(pgJobs, pgJobs', TheRequest, [pgJobs[c] EXCEPT !.next = @ + 1])
        BY <2>2, <3>1, <3>3
      <4>3. JobsOK(pgJobs')
        BY <1>0, <4>1, <4>2, JobTracks
      <4>. QED
        BY <1>0, <3>1, <3>2, <4>3
    <3>4. CASE ~(pgJobs[c].next < Len(pgJobs[c].list))
      BY <1>0, <3>1, <3>2, <3>4, JobIdle
    <3>. QED
      BY <3>3, <3>4
  <2>4. CASE ~Fits(pgTables, pgJobs[c])
    BY <1>0, <1>7, <2>4, PostgresOthers, JobIdle DEF Change
  <2>. QED
    BY <2>3, <2>4
<1>. QED
  BY <1>0, <1>1, <1>2, <1>3, <1>4, <1>5, <1>7 DEF PostgresStep

\* A call changes the tables of both stores in the same way.
LEMMA CallOK ==
  ASSUME TypeInv, CallDevices \/ CallHistory \/ CallJournals \/ CallPersons
  PROVE  /\ UNCHANGED <<config, now, spent>>
         /\ Change(tables, tables') /\ Change(pgTables, pgTables')
         /\ JobsOK(jobs') /\ JobsOK(pgJobs') /\ UNCHANGED <<cut, pgCut>>
<1>0. JobsOK(jobs) /\ JobsOK(pgJobs)
  BY DEF TypeInv
<1>1. UNCHANGED <<config, now, spent>> /\ (SaveCall \/ TableCall \/ PruneCall \/ StateCall \/ PersonCall)
  BY WorkerCalls, JournalCalls, PersonCalls
<1>. USE DEF BothDone, BothGo, SqliteDone, SqliteGoes, PostgresDone, PostgresGoes
<1>2. CASE SaveCall
  <2>1. PICK d \in Devices, row \in DeviceRow :
    /\ row.room \in tables.rooms \cup {NoRoom} /\ row.room \in pgTables.rooms \cup {NoRoom}
    /\ DeviceSaved(tables, tables', d, row) /\ DeviceSaved(pgTables, pgTables', d, InMicros(row))
    /\ IF config.enabled THEN /\ SqliteGoes(Worker, Saves(d, row, tables.devices[d]))
                              /\ PostgresGoes(Worker, Saves(d, row, pgTables.devices[d]))
                         ELSE BothDone(Worker)
    BY <1>2 DEF SaveCall
  <2>2. InMicros(row) \in DeviceRow /\ InMicros(row).room = row.room
    BY MicrosTyped DEF InMicros, DeviceRow
  <2>3. Change(tables, tables') /\ Change(pgTables, pgTables')
    BY <2>1, <2>2 DEF Change, DeviceChange
  <2>4. tables.devices[d] \in DeviceRow \cup {NoRow} /\ pgTables.devices[d] \in DeviceRow \cup {NoRow}
    BY DEF TypeInv, TablesOK, DevicesOK
  <2>5. CASE config.enabled
    <3>1. Then(jobs, jobs', Worker, Saves(d, row, tables.devices[d])) /\ cut' = cut
      BY <2>1, <2>5
    <3>2. Then(pgJobs, pgJobs', Worker, Saves(d, row, pgTables.devices[d])) /\ pgCut' = pgCut
      BY <2>1, <2>5
    <3>3. JobsOK(jobs') /\ JobsOK(pgJobs')
      BY <1>0, <2>4, <3>1, <3>2, JobSaves
    <3>. QED
      BY <1>1, <2>3, <3>1, <3>2, <3>3
  <2>6. CASE ~config.enabled
    BY <1>0, <1>1, <2>1, <2>3, <2>6
  <2>. QED
    BY <2>5, <2>6
<1>3. CASE TableCall
  <2>1. Change(tables, tables') /\ Change(pgTables, pgTables')
    BY <1>3 DEF TableCall, Change, DeviceChange
  <2>. QED
    BY <1>0, <1>1, <1>3, <2>1 DEF TableCall
<1>4. CASE PruneCall
  <2>1. /\ Then(jobs, jobs', Pruner, Prunes("pruneDevices", Cutoff)) /\ cut' = cut
        /\ Then(pgJobs, pgJobs', Pruner, Prunes("pruneDevices", Cutoff)) /\ pgCut' = pgCut
        /\ Cutoff \in Nat /\ UNCHANGED <<tables, pgTables>>
    BY <1>4, CutoffTyped DEF PruneCall
  <2>2. JobsOK(jobs') /\ JobsOK(pgJobs')
    BY <1>0, <2>1, JobPrunes, Callable
  <2>. QED
    BY <1>1, <2>1, <2>2 DEF Change
<1>5. CASE StateCall
  <2>1. Change(tables, tables') /\ Change(pgTables, pgTables')
    BY <1>5, MicrosTyped DEF StateCall, Change, StateChange
  <2>. QED
    BY <1>0, <1>1, <1>5, <2>1 DEF StateCall
<1>6. CASE PersonCall
  <2>1. Change(tables, tables') /\ Change(pgTables, pgTables')
    BY <1>6 DEF PersonCall, Change, PersonChange, StateChange
  <2>2. CASE BothDone(TheRequest) \/ \E c \in Callers : BothDone(c)
    BY <1>0, <1>1, <2>1, <2>2
  <2>3. ASSUME NEW p \in Persons, NEW list \in Ordered(Devices),
               BothGo(TheRequest, IF list = <<>> THEN Idle ELSE Tracks(p, list, 1))
        PROVE  JobsOK(jobs') /\ JobsOK(pgJobs') /\ UNCHANGED <<cut, pgCut>>
    <3>1. CASE list = <<>>
      BY <1>0, <2>3, <3>1, JobIdle, Callable
    <3>2. CASE list # <<>>
      <4>1. /\ Tracks(p, list, 1) \in TrackersJob
            /\ Tracks(p, list, 1).next \in 1..Len(Tracks(p, list, 1).list)
        BY <3>2, Listed, JobMade DEF Tracks
      <4>2. /\ Then(jobs, jobs', TheRequest, Tracks(p, list, 1)) /\ cut' = cut
            /\ Then(pgJobs, pgJobs', TheRequest, Tracks(p, list, 1)) /\ pgCut' = pgCut
        BY <2>3, <3>2
      <4>. QED
        BY <1>0, <4>1, <4>2, JobTracks
    <3>. QED
      BY <3>1, <3>2
  <2>. QED
    BY <1>1, <1>6, <2>1, <2>2, <2>3 DEF PersonCall
<1>. QED
  BY <1>1, <1>2, <1>3, <1>4, <1>5, <1>6

LEMMA CreateCallOK ==
  ASSUME TypeInv, CreateCall
  PROVE  JobsOK(jobs') /\ JobsOK(pgJobs') /\ UNCHANGED <<cut, pgCut>>
<1>1. PICK c \in Requests, hash \in Hashes :
         Then(jobs, jobs', c, ReadsBack(tables.lastKey + 1, hash)) /\ UNCHANGED <<cut, pgJobs, pgCut>>
  BY DEF CreateCall, SqliteGoes
<1>2. JobsOK(jobs) /\ JobsOK(pgJobs) /\ tables.lastKey + 1 \in Nat /\ c \in Callers
  BY Callable DEF TypeInv, TablesOK, KeysOK
<1>. QED
  BY <1>1, <1>2, JobReadsBack

LEMMA KeyCallOK ==
  ASSUME TypeInv, KeyCall
  PROVE  /\ KeyChange(tables, tables') /\ KeyChange(pgTables, pgTables')
         /\ UNCHANGED <<jobs, pgJobs, cut, pgCut>>
<1>1. now \in Nat /\ Micros(now) \in Nat
  BY MicrosNat DEF TypeInv
<1>. QED
  BY <1>1 DEF KeyCall, KeyChange, BothDone, SqliteDone, PostgresDone

LEMMA FaultOK ==
  ASSUME TypeInv, Fault
  PROVE  /\ UNCHANGED <<config, now, spent, tables, pgTables, answers, pgAnswers>>
         /\ JobsOK(jobs') /\ JobsOK(pgJobs') /\ cut' \in BOOLEAN /\ pgCut' \in BOOLEAN
<1>0. /\ UNCHANGED <<config, now, spent>> /\ Named(tables) /\ Named(pgTables)
      /\ JobsOK(jobs) /\ JobsOK(pgJobs) /\ cut \in BOOLEAN /\ pgCut \in BOOLEAN
  BY DEF Fault, client, TypeInv, TablesOK
<1>. USE DEF sqlite, postgres
<1>1. ASSUME NEW c \in Callers, S!Fail(c), UNCHANGED postgres
      PROVE  /\ UNCHANGED <<tables, pgTables, answers, pgAnswers>>
             /\ JobsOK(jobs') /\ JobsOK(pgJobs') /\ cut' \in BOOLEAN /\ pgCut' \in BOOLEAN
  BY <1>0, <1>1, SqliteOthers, JobIdle
<1>2. ASSUME NEW c \in Callers, P!Fail(c), UNCHANGED sqlite
      PROVE  /\ UNCHANGED <<tables, pgTables, answers, pgAnswers>>
             /\ JobsOK(jobs') /\ JobsOK(pgJobs') /\ cut' \in BOOLEAN /\ pgCut' \in BOOLEAN
  BY <1>0, <1>2, PostgresOthers, JobIdle
<1>3. JobsOK([b \in Callers |-> Idle])
  BY JobMade DEF JobsOK
<1>4. CASE S!Crash /\ UNCHANGED postgres
  BY <1>0, <1>3, <1>4, SqliteOthers
<1>5. CASE P!Crash /\ UNCHANGED sqlite
  BY <1>0, <1>3, <1>5, PostgresOthers
<1>. QED
  BY <1>0, <1>1, <1>2, <1>4, <1>5 DEF Fault

\* What a step does to the tables of the two stores.
LEMMA Steps ==
  ASSUME TypeInv, [Next]_vars
  PROVE  /\ TypeInv'
         /\ \/ CreateCall
            \/ spent' = spent /\ Change(tables, tables') /\ Change(pgTables, pgTables')
<1>. SUFFICES
       /\ config' = config /\ now' \in Nat
       /\ JobsOK(jobs') /\ JobsOK(pgJobs') /\ cut' \in BOOLEAN /\ pgCut' \in BOOLEAN
       /\ \/ CreateCall
          \/ spent' = spent /\ Change(tables, tables') /\ Change(pgTables, pgTables')
  <2>1. ASSUME spent' = spent, Change(tables, tables'), Change(pgTables, pgTables')
        PROVE  TablesOK(tables', spent') /\ TablesOK(pgTables', spent')
    <3>1. TablesOK(tables, spent) /\ TablesOK(pgTables, spent)
      BY DEF TypeInv
    <3>2. TablesOK(tables', spent) /\ TablesOK(pgTables', spent)
      BY <2>1, <3>1, ChangeOK
    <3>. QED
      BY <2>1, <3>2
  <2>2. CASE CreateCall
    <3>1. TablesOK(tables, spent) /\ TablesOK(pgTables, spent)
      BY DEF TypeInv
    <3>2. PICK hash \in Hashes, role \in Roles, p \in Persons \cup {Nobody} :
            /\ spent' = spent \cup {hash}
            /\ KeyCreated(tables, tables', hash, role, p) /\ KeyCreated(pgTables, pgTables', hash, role, p)
      BY <2>2 DEF CreateCall
    <3>3. TablesOK(tables', spent \cup {hash}) /\ TablesOK(pgTables', spent \cup {hash})
      BY <3>1, <3>2, KeyCreatedOK
    <3>. QED
      BY <3>2, <3>3 DEF TypeInv
  <2>3. config \in Configs
    BY DEF TypeInv
  <2>. QED
    BY <2>1, <2>2, <2>3 DEF TypeInv
<1>0. /\ now \in Nat /\ cut \in BOOLEAN /\ pgCut \in BOOLEAN /\ JobsOK(jobs) /\ JobsOK(pgJobs)
  BY DEF TypeInv
<1>1. CASE Migrate \/ StopMigrating
  BY <1>0, <1>1 DEF Migrate, StopMigrating, sqlite, postgres, client, Change
<1>2. CASE CallDevices \/ CallHistory \/ CallJournals \/ CallPersons
  BY <1>0, <1>2, CallOK
<1>3. CASE CallKeys
  BY <1>0, <1>3, KeyCalls, CreateCallOK, KeyCallOK DEF NoCall, sqlite, postgres, Change
<1>4. CASE \E c \in Callers : SqliteStep(c) \/ PostgresStep(c)
  BY <1>0, <1>4, SqliteStatement, PostgresStatement DEF sqlite, postgres, Change
<1>5. CASE Tick
  <2>1. now' \in Nat
    BY <1>5, MirrorAssumption DEF Tick
  <2>. QED
    BY <1>0, <1>5, <2>1 DEF Tick, sqlite, postgres, client, Change
<1>6. CASE Fault
  BY <1>0, <1>6, FaultOK DEF Change
<1>7. CASE UNCHANGED vars
  BY <1>0, <1>7 DEF vars, sqlite, postgres, client, Change
<1>. QED
  BY <1>1, <1>2, <1>3, <1>4, <1>5, <1>6, <1>7 DEF Next

\* The clock has a first instant.
Earlier == {ss \in Nat \X Nat : ss[1] < ss[2]}

LEMMA FirstInstant == \E t \in Clock : \A u \in Clock : t <= u
<1>1. Earlier = OpToRel(<, Nat)
  BY DEF Earlier, OpToRel
<1>2. IsWellFoundedOn(Earlier, Nat)
  BY <1>1, NatLessThanWellFounded
<1>3. PICK t \in Clock : \A u \in Clock : ~(<<u, t>> \in Earlier)
  BY <1>2, WFMin, MirrorAssumption
<1>4. ASSUME NEW u \in Clock PROVE t <= u
  <2>1. u \in Nat /\ t \in Nat /\ ~(<<u, t>> \in Earlier)
    BY <1>3, MirrorAssumption
  <2>2. u < t => <<u, t>> \in Earlier
    BY <2>1 DEF Earlier
  <2>. QED
    BY <2>1, <2>2
<1>. QED
  BY <1>4

LEMMA StoreStart == Init => TypeInv
<1>. SUFFICES ASSUME Init PROVE TypeInv
  OBVIOUS
<1>1. now \in Nat
  BY FirstInstant, MirrorAssumption DEF Init
<1>2. /\ tables = EmptyTables /\ pgTables = EmptyTables /\ spent = {}
      /\ jobs = [c \in Callers |-> Idle] /\ pgJobs = [c \in Callers |-> Idle]
      /\ cut = FALSE /\ pgCut = FALSE /\ config \in Configs
  BY DEF Init, S!Init, P!Init, EmptyTables, S!EmptyTables, P!EmptyTables, Callers, S!Callers,
         P!Callers, Idle, S!Idle, P!Idle
<1>3. JobsOK([c \in Callers |-> Idle])
  BY JobMade DEF JobsOK
<1>4. TablesOK(EmptyTables, {})
  BY DEF EmptyTables, TablesOK, Named, DevicesOK, RoomsOK, HistoryOK, StatesOK, KeysOK, PersonsOK
<1>. QED
  BY <1>1, <1>2, <1>3, <1>4 DEF TypeInv

LEMMA TypeAlways == Spec => []TypeInv
  BY StoreStart, Steps, PTL DEF Spec

\* Whatever the callers do, whichever statements fail and wherever a server
\* stops: the rows of both databases keep to their types and constraints - a
\* device's room, a member's group and device and a tracker's person exist, no
\* two API keys share an id or a hash - and a call is at one of its statements.
THEOREM StoreTypeCorrect == Spec => []StoreTypeOK
<1>1. TypeInv /\ SchemasInv => StoreTypeOK
  <2>. SUFFICES ASSUME TypeInv, SchemasInv PROVE StoreTypeOK
    OBVIOUS
  <2>1. SM!SchemaTypeOK /\ PM!SchemaTypeOK
    BY DEF SchemasInv, SMP!MigrationInv, PMP!MigrationInv, SMP!SchemaTypeOK, PMP!SchemaTypeOK,
           SM!SchemaTypeOK, PM!SchemaTypeOK
  <2>2. ASSUME NEW t \in {tables, pgTables}
        PROVE  /\ t.rooms \subseteq Rooms /\ t.groups \subseteq Groups
               /\ \A d \in Devices : t.devices[d] \in DeviceRow \cup {NoRow}
               /\ \A d \in Devices : t.devices[d] # NoRow => t.devices[d].room \in t.rooms \cup {NoRoom}
               /\ \A m \in t.members : m.group \in t.groups /\ t.devices[m.device] # NoRow
               /\ \A k, l \in t.apiKeys : k.id = l.id \/ k.hash = l.hash => k = l
               /\ \A p \in t.trackers : t.persons[p.person] # NoRow
    BY DEF TypeInv, TablesOK, DevicesOK, RoomsOK, KeysOK, PersonsOK
  <2>3. ASSUME NEW j \in {jobs, pgJobs}, NEW c \in Callers
        PROVE  j[c].step \in {"idle", "snapshot", "attributes", "pruneDevices", "pruneAttributes",
                              "readBack", "trackers"}
    <3>1. j[c] \in Job
      BY DEF TypeInv, JobsOK
    <3>. QED
      BY <3>1, JobAt
  <2>. QED
    BY <2>1, <2>2, <2>3 DEF StoreTypeOK
<1>. QED
  BY <1>1, TypeAlways, SchemasAlways, PTL

-----------------------------------------------------------------------------
\* API keys

LEMMA ChangeKeepsKeys ==
  ASSUME NEW t, NEW u, NEW drawn, TablesOK(t, drawn), Change(t, u)
  PROVE  /\ u.lastKey = t.lastKey
         /\ \A l \in u.apiKeys : \E k \in t.apiKeys : k.id = l.id /\ k.hash = l.hash
<1>1. CASE KeyChange(t, u)
  <2>1. u.lastKey = t.lastKey
    BY <1>1 DEF KeyChange, KeyRevoked, KeyTouched, Only
  <2>. QED
    BY <1>1, <2>1, KeyChangeOK
<1>2. CASE u = t
  BY <1>2
<1>3. CASE DeviceChange(t, u) \/ HistoryChange(t, u) \/ StateChange(t, u) \/ PersonChange(t, u)
  <2>1. u.apiKeys = t.apiKeys /\ u.lastKey = t.lastKey
    BY <1>3 DEF DeviceChange, HistoryChange, StateChange, PersonChange, Only, DeviceSaved,
       DeviceDeleted, RoomSaved, RoomDeleted, GroupSaved, GroupDeleted, SnapshotKept, ValueKept,
       StateSaved, PersonSaved, PersonDeleted, TrackersCleared, TrackerAdded, ZoneSaved
  <2>. QED
    BY <2>1
<1>. QED
  BY <1>1, <1>2, <1>3 DEF Change

\* A hash once drawn and not accepted is never accepted again, in either store:
\* touch_api_key of an earlier request does not bring a revoked key back.
THEOREM RevokedStaysRevoked == Spec => RevokedStays
<1>1. TypeInv /\ [Next]_vars =>
        [\A hash \in spent :
           /\ S!LookupKey(hash) = {} => \A k \in tables'.apiKeys : k.hash # hash
           /\ P!LookupKey(hash) = {} => \A k \in pgTables'.apiKeys : k.hash # hash]_vars
  <2>. SUFFICES ASSUME TypeInv, [Next]_vars, NEW hash \in spent
                PROVE  /\ S!LookupKey(hash) = {} => \A k \in tables'.apiKeys : k.hash # hash
                       /\ P!LookupKey(hash) = {} => \A k \in pgTables'.apiKeys : k.hash # hash
    OBVIOUS
  <2>0. TablesOK(tables, spent) /\ TablesOK(pgTables, spent)
    BY DEF TypeInv
  <2>1. CASE CreateCall
    BY <2>1 DEF CreateCall, KeyCreated, NewKey, S!LookupKey, P!LookupKey
  <2>2. CASE Change(tables, tables') /\ Change(pgTables, pgTables')
    BY <2>0, <2>2, ChangeKeepsKeys DEF S!LookupKey, P!LookupKey
  <2>. QED
    BY <2>1, <2>2, Steps
<1>. QED
  BY <1>1, TypeAlways, PTL DEF Spec, RevokedStays

\* A key that is to be read back is the one that was created, if it is there.
KeysInv ==
  /\ \A c \in Callers : jobs[c].step = "readBack" =>
       /\ jobs[c].id <= tables.lastKey
       /\ \A k \in tables.apiKeys : k.id = jobs[c].id => k.hash = jobs[c].hash
  /\ OwnRecordBack

LEMMA KeysStep ==
  ASSUME TypeInv, KeysInv, [Next]_vars
  PROVE  KeysInv'
<1>0. TablesOK(tables, spent) /\ JobsOK(jobs) /\ Named(tables) /\ Named(pgTables)
  BY DEF TypeInv, TablesOK
<1>1. CASE CreateCall
  <2>1. PICK c \in Requests, hash \in Hashes, role \in Roles, p \in Persons \cup {Nobody} :
    /\ KeyCreated(tables, tables', hash, role, p)
    /\ SqliteGoes(c, ReadsBack(tables.lastKey + 1, hash))
    /\ pgAnswers' = pgAnswers \cup {[hash |-> hash, record |-> NewKey(pgTables, hash, role, p)]}
    BY <1>1 DEF CreateCall
  <2>2. OwnRecordBack'
    BY <2>1 DEF KeysInv, OwnRecordBack, NewKey, SqliteGoes
  <2>3. \A k \in tables.apiKeys : k.id \in Nat /\ k.id <= tables.lastKey
    BY <1>0 DEF TablesOK, KeysOK, KeyRow
  <2>4. /\ tables'.lastKey = tables.lastKey + 1 /\ tables.lastKey \in Nat
        /\ tables'.apiKeys = tables.apiKeys \cup {NewKey(tables, hash, role, p)}
    BY <1>0, <2>1 DEF KeyCreated, TablesOK, KeysOK
  <2>5. ASSUME NEW b \in Callers, jobs'[b].step = "readBack"
        PROVE  /\ jobs'[b].id <= tables'.lastKey
               /\ \A k \in tables'.apiKeys : k.id = jobs'[b].id => k.hash = jobs'[b].hash
    <3>1. CASE b = c
      <4>1. jobs'[b] = ReadsBack(tables.lastKey + 1, hash)
        BY <1>0, <2>1, <3>1 DEF SqliteGoes, Then, JobsOK
      <4>. QED
        BY <2>3, <2>4, <4>1 DEF ReadsBack, NewKey
    <3>2. CASE b # c
      <4>1. jobs'[b] = jobs[b] /\ jobs[b] \in Job
        BY <1>0, <2>1, <3>2 DEF SqliteGoes, Then, JobsOK
      <4>2. jobs[b].id \in Nat /\ jobs[b].id <= tables.lastKey
        BY <2>5, <4>1, JobAt DEF KeysInv, ReadBackJob
      <4>. QED
        BY <2>4, <2>5, <4>1, <4>2 DEF KeysInv, NewKey
    <3>. QED
      BY <3>1, <3>2
  <2>. QED
    BY <2>2, <2>5 DEF KeysInv
<1>2. CASE Change(tables, tables') /\ UNCHANGED <<answers, pgAnswers>>
             /\ \A c \in Callers : jobs'[c].step = "readBack" => jobs'[c] = jobs[c]
  <2>1. /\ tables'.lastKey = tables.lastKey
        /\ \A l \in tables'.apiKeys : \E k \in tables.apiKeys : k.id = l.id /\ k.hash = l.hash
    BY <1>0, <1>2, ChangeKeepsKeys
  <2>2. OwnRecordBack'
    BY <1>2 DEF KeysInv, OwnRecordBack
  <2>. QED
    BY <1>2, <2>1, <2>2 DEF KeysInv
<1>3. CASE \E c \in Callers : S!ReadBackKey(c) /\ UNCHANGED pgAnswers
  <2>1. PICK c \in Callers : S!ReadBackKey(c) /\ UNCHANGED pgAnswers
    BY <1>3
  <2>2. /\ jobs[c].step = "readBack" /\ tables' = tables /\ Then(jobs, jobs', c, Idle)
        /\ answers' = answers \cup {[hash |-> jobs[c].hash, record |-> k]
                                             : k \in {k \in tables.apiKeys : k.id = jobs[c].id}}
    BY <1>0, <2>1, SqliteOthers DEF TypeInv
  <2>3. OwnRecordBack'
    BY <2>1, <2>2 DEF KeysInv, OwnRecordBack
  <2>4. \A b \in Callers : jobs'[b].step = "readBack" => jobs'[b] = jobs[b]
    BY <1>0, <2>2 DEF Then, JobsOK, Idle
  <2>. QED
    BY <2>2, <2>3, <2>4 DEF KeysInv
<1>4. \/ CreateCall
      \/ \E c \in Callers : S!ReadBackKey(c) /\ UNCHANGED pgAnswers
      \/ /\ UNCHANGED <<answers, pgAnswers>>
         /\ \A c \in Callers : jobs'[c].step = "readBack" => jobs'[c] = jobs[c]
  <2>. DEFINE Still == /\ UNCHANGED <<answers, pgAnswers>>
                       /\ \A c \in Callers : jobs'[c].step = "readBack" => jobs'[c] = jobs[c]
  <2>0. ASSUME NEW c, NEW job, Then(jobs, jobs', c, job), job.step # "readBack",
               UNCHANGED <<answers, pgAnswers>>
        PROVE  Still
    BY <1>0, <2>0 DEF Then, JobsOK
  <2>. USE DEF sqlite, postgres, SqliteGoes, SqliteDone, PostgresGoes, PostgresDone
  <2>1. CASE Migrate \/ StopMigrating \/ Tick \/ UNCHANGED vars
    BY <2>1 DEF Migrate, StopMigrating, Tick, vars
  <2>2. CASE CallKeys
    BY <2>2, KeyCalls DEF KeyCall, NoCall, BothDone
  <2>3. CASE CallDevices \/ CallHistory \/ CallJournals \/ CallPersons
    <3>1. \E c : \/ BothDone(c)
                \/ \E job : job.step # "readBack" /\ SqliteGoes(c, job) /\ UNCHANGED pgAnswers
      <4>. USE DEF BothGo
      <4>1. CASE SaveCall
        <5>1. PICK d \in Devices, row \in DeviceRow :
                IF config.enabled THEN /\ SqliteGoes(Worker, Saves(d, row, tables.devices[d]))
                                       /\ PostgresGoes(Worker, Saves(d, row, pgTables.devices[d]))
                                  ELSE BothDone(Worker)
          BY <4>1 DEF SaveCall
        <5>. QED
          <6>1. \A prev : Saves(d, row, prev).step # "readBack"
            BY DEF Saves
          <6>2. CASE config.enabled
            <7>. DEFINE job == Saves(d, row, tables.devices[d])
                        pgJob == Saves(d, row, pgTables.devices[d])
            <7>1. SqliteGoes(Worker, job) /\ PostgresGoes(Worker, pgJob) /\ job.step # "readBack"
              BY <5>1, <6>1, <6>2
            <7>. QED
              BY <7>1
          <6>. QED
            BY <5>1, <6>2
      <4>2. CASE TableCall \/ StateCall
        BY <4>2 DEF TableCall, StateCall
      <4>3. CASE PruneCall
        BY <4>3 DEF PruneCall, Prunes
      <4>4. CASE PersonCall
        <5>1. \A p, list : (IF list = <<>> THEN Idle ELSE Tracks(p, list, 1)).step # "readBack"
          BY DEF Tracks, Idle
        <5>. QED
          BY <4>4, <5>1 DEF PersonCall
      <4>. QED
        BY <2>3, <4>1, <4>2, <4>3, <4>4, WorkerCalls, JournalCalls, PersonCalls
    <3>. QED
      BY <2>0, <3>1 DEF BothDone
  <2>4. ASSUME NEW c \in Callers, SqliteStep(c), ~S!ReadBackKey(c) PROVE Still
    <3>0. UNCHANGED pgAnswers /\ jobs[c] \in Job
      BY <1>0, <2>4 DEF SqliteStep, JobsOK
    <3>1. CASE S!RecordSnapshot(c)
      BY <1>0, <2>0, <3>0, <3>1, SqliteHistoryStatements DEF Records
    <3>2. ASSUME NEW a \in Attributes, S!RecordAttribute(c, a) PROVE Still
      <4>1. [jobs[c] EXCEPT !.left = @ \ {a}].step # "readBack"
        BY <1>0, <3>0, <3>2, SqliteHistoryStatements, JobAt, ValueTyped DEF AttributesJob
      <4>. QED
        BY <1>0, <2>0, <3>0, <3>2, <4>1, SqliteHistoryStatements
    <3>3. CASE S!SavePrunes(c) \/ S!PruneDevices(c) \/ S!PruneAttributes(c)
      <4>1. Idle.step # "readBack" /\ \A cutoff : /\ Prunes("pruneDevices", cutoff).step # "readBack"
                                                  /\ Prunes("pruneAttributes", cutoff).step # "readBack"
        BY DEF Idle, Prunes
      <4>. QED
        BY <1>0, <2>0, <3>0, <3>3, <4>1, SqliteHistoryStatements
    <3>4. CASE S!InsertTracker(c)
      <4>1. jobs[c] \in TrackersJob /\ Idle.step # "readBack"
        BY <1>0, <3>0, <3>4, SqliteOthers, JobAt DEF TypeInv, Idle
      <4>2. [jobs[c] EXCEPT !.next = @ + 1].step # "readBack"
        BY <4>1 DEF TrackersJob
      <4>3. \E job : job.step # "readBack" /\ Then(jobs, jobs', c, job) /\ answers' = answers
        BY <1>0, <3>4, <4>1, <4>2, SqliteOthers DEF TypeInv
      <4>. QED
        BY <2>0, <3>0, <4>3
    <3>. QED
      BY <2>4, <3>1, <3>2, <3>3, <3>4 DEF SqliteStep
  <2>5. ASSUME NEW c \in Callers, PostgresStep(c) PROVE Still
    BY <2>5 DEF PostgresStep, P!RecordSnapshot, P!SaveEnds, P!PruneDevices, P!PruneAttributes,
                P!RecordAttribute, P!InsertTracker
  <2>6. CASE Fault
    <3>1. \A b \in Callers : [a \in Callers |-> Idle][b].step # "readBack"
      BY DEF Idle
    <3>2. CASE \E c \in Callers : S!Fail(c)
      BY <1>0, <2>0, <2>6, <3>2, SqliteOthers, FaultOK DEF TypeInv, Idle
    <3>3. CASE S!Crash
      BY <1>0, <2>6, <3>1, <3>3, SqliteOthers, FaultOK DEF TypeInv
    <3>4. CASE UNCHANGED sqlite
      BY <2>6, <3>4, FaultOK
    <3>. QED
      BY <2>6, <3>2, <3>3, <3>4 DEF Fault
  <2>. QED
    BY <2>1, <2>2, <2>3, <2>4, <2>5, <2>6 DEF Next, SqliteStep
<1>. QED
  BY <1>1, <1>2, <1>3, <1>4, Steps

\* create_api_key answers with the record of the token it was called for: the id
\* it reads back is never given to another key, in whatever order requests
\* create and revoke between its two statements.
THEOREM OwnRecordAnswered == Spec => []OwnRecordBack
<1>1. Init => KeysInv
  <2>. SUFFICES ASSUME Init PROVE KeysInv
    OBVIOUS
  <2>1. answers = {} /\ pgAnswers = {} /\ jobs = [c \in Callers |-> Idle]
    BY DEF Init, S!Init, P!Init, Callers, S!Callers, Idle, S!Idle
  <2>. QED
    BY <2>1 DEF KeysInv, OwnRecordBack, Idle
<1>2. TypeInv /\ KeysInv /\ [Next]_vars => KeysInv'
  BY KeysStep
<1>3. KeysInv => OwnRecordBack
  BY DEF KeysInv
<1>. QED
  BY <1>1, <1>2, <1>3, TypeAlways, PTL DEF Spec

-----------------------------------------------------------------------------
\* The tables of the two stores are the same to the microsecond

Mirrored(row) == IF row = NoRow THEN NoRow ELSE InMicros(row)

KeyInMicros(k) == [k EXCEPT !.used = IF @ = Absent THEN @ ELSE Micros(@)]

\* The rows of trackers that a call under way has still to insert.
Owed(job) == IF job.step = "trackers" THEN {TrackerRow(job, i) : i \in job.next..Len(job.list)}
                                      ELSE {}

DevicesMirrored(t, u) ==
  /\ u.rooms = t.rooms /\ u.groups = t.groups /\ u.members = t.members
  /\ \A d \in Devices : u.devices[d] = Mirrored(t.devices[d])

StatesMirrored(t, u) ==
  \A a \in Automations :
    u.runtimeState[a] = IF t.runtimeState[a] = NoRow THEN NoRow ELSE StateInMicros(t.runtimeState[a])

KeysMirrored(t, u) ==
  u.lastKey = t.lastKey /\ u.apiKeys = {KeyInMicros(k) : k \in t.apiKeys}

PersonsMirrored(t, u) == u.persons = t.persons /\ u.zones = t.zones

TrackersMirrored(t, u, job, pgJob) == t.trackers \cup Owed(job) = u.trackers \cup Owed(pgJob)

MirrorInv ==
  /\ DevicesMirrored(tables, pgTables)
  /\ StatesMirrored(tables, pgTables)
  /\ KeysMirrored(tables, pgTables) /\ IsFiniteSet(tables.apiKeys)
  /\ PersonsMirrored(tables, pgTables)
  /\ ~cut /\ ~pgCut => TrackersMirrored(tables, pgTables, jobs[TheRequest], pgJobs[TheRequest])

LEMMA RequestApart == TheRequest # Worker /\ TheRequest # Pruner
  BY MirrorAssumption, Callable

LEMMA OthersOweNothing == \A job : job.step # "trackers" => Owed(job) = {}
  BY DEF Owed

LEMMA IdleOwes == Owed(Idle) = {}
  BY DEF Owed, Idle

\* An insertion pays one row of what is owed.
LEMMA OwedNext ==
  ASSUME NEW job \in TrackersJob, job.next \in 1..Len(job.list)
  PROVE  Owed(job) = {TrackerRow(job, job.next)} \cup
                     Owed(IF job.next < Len(job.list) THEN [job EXCEPT !.next = @ + 1] ELSE Idle)
<1>1. Len(job.list) \in Nat /\ job.next \in Nat
  BY DEF TrackersJob
<1>2. Owed(job) = {TrackerRow(job, i) : i \in job.next..Len(job.list)}
  BY DEF Owed, TrackersJob
<1>3. CASE job.next < Len(job.list)
  <2>. DEFINE then == [job EXCEPT !.next = @ + 1]
  <2>1. then.step = "trackers" /\ then.next = job.next + 1 /\ then.list = job.list /\ then.person = job.person
    BY DEF TrackersJob
  <2>2. \A i : TrackerRow(then, i) = TrackerRow(job, i)
    BY <2>1 DEF TrackerRow
  <2>. HIDE DEF then
  <2>3. Owed(then) = {TrackerRow(job, i) : i \in (job.next + 1)..Len(job.list)}
    BY <2>1, <2>2 DEF Owed
  <2>4. job.next..Len(job.list) = {job.next} \cup (job.next + 1)..Len(job.list)
    BY <1>1, <1>3
  <2>5. Owed(job) = {TrackerRow(job, job.next)} \cup Owed(then)
    BY <1>2, <2>3, <2>4
  <2>. QED
    BY <1>3, <2>5 DEF then
<1>4. CASE ~(job.next < Len(job.list))
  <2>1. job.next..Len(job.list) = {job.next}
    BY <1>1, <1>4
  <2>. QED
    BY <1>2, <1>4, <2>1, IdleOwes
<1>. QED
  BY <1>3, <1>4

LEMMA MirrorUntouched ==
  ASSUME NEW t, NEW u, NEW t1, NEW u1, NEW changed, NEW pgChanged,
         Only(t, t1, changed), Only(u, u1, pgChanged)
  PROVE  /\ DevicesMirrored(t, u) /\ {"rooms", "groups", "members", "devices"} \cap (changed \cup pgChanged) = {}
              => DevicesMirrored(t1, u1)
         /\ StatesMirrored(t, u) /\ "runtimeState" \notin changed \cup pgChanged => StatesMirrored(t1, u1)
         /\ KeysMirrored(t, u) /\ {"apiKeys", "lastKey"} \cap (changed \cup pgChanged) = {}
              => KeysMirrored(t1, u1) /\ t1.apiKeys = t.apiKeys
         /\ PersonsMirrored(t, u) /\ {"persons", "zones"} \cap (changed \cup pgChanged) = {}
              => PersonsMirrored(t1, u1)
         /\ "trackers" \notin changed \cup pgChanged => t1.trackers = t.trackers /\ u1.trackers = u.trackers
  BY DEF Only, DevicesMirrored, StatesMirrored, KeysMirrored, PersonsMirrored

LEMMA NamedSame == ASSUME NEW t, Named(t) PROVE Only(t, t, {})
  BY DEF Only

\* What a statement of the history, of an API key's creation or of a person's
\* trackers leaves alone.
HistoryNames == {"deviceHistory", "attributeHistory", "trackers"}

LEMMA SqliteStatementMirror ==
  ASSUME TypeInv, NEW c \in Callers, SqliteStep(c)
  PROVE  /\ Only(tables, tables', HistoryNames) /\ UNCHANGED postgres
         /\ \/ cut'
            \/ /\ cut' = cut
               /\ tables'.trackers \cup Owed(jobs'[TheRequest])
                    = tables.trackers \cup Owed(jobs[TheRequest])
<1>0. Named(tables) /\ JobsOK(jobs) /\ jobs[c] \in Job /\ cut \in BOOLEAN /\ UNCHANGED postgres
  BY DEF SqliteStep, TypeInv, TablesOK, JobsOK
<1>1. ASSUME NEW job, Then(jobs, jobs', c, job), Owed(jobs[c]) = {}, Owed(job) = {}
      PROVE  Owed(jobs'[TheRequest]) = Owed(jobs[TheRequest])
  BY <1>0, <1>1, Callable DEF Then, JobsOK
<1>2. ASSUME NEW job, Then(jobs, jobs', c, job), jobs[c].step # "trackers", job.step # "trackers",
             cut' = cut, Only(tables, tables', {"deviceHistory", "attributeHistory"}) \/ tables' = tables
      PROVE  /\ Only(tables, tables', HistoryNames) /\ cut' = cut
             /\ tables'.trackers \cup Owed(jobs'[TheRequest])
                  = tables.trackers \cup Owed(jobs[TheRequest])
  <2>1. Owed(jobs'[TheRequest]) = Owed(jobs[TheRequest])
    BY <1>1, <1>2, OthersOweNothing
  <2>2. Only(tables, tables', HistoryNames) /\ tables'.trackers = tables.trackers
    BY <1>0, <1>2 DEF Only, HistoryNames
  <2>. QED
    BY <1>2, <2>1, <2>2
<1>. DEFINE Kept == /\ Only(tables, tables', HistoryNames) /\ cut' = cut
                    /\ tables'.trackers \cup Owed(jobs'[TheRequest])
                         = tables.trackers \cup Owed(jobs[TheRequest])
<1>. USE DEF SqliteGoes
<1>3. CASE S!RecordSnapshot(c)
  <2>1. Only(tables, tables', {"deviceHistory", "attributeHistory"}) \/ tables' = tables
    BY <1>0, <1>3, SqliteHistoryStatements DEF SnapshotKept, Only
  <2>2. jobs[c].step = "snapshot" /\ cut' = cut
        /\ Then(jobs, jobs', c, Records(jobs[c].device, jobs[c].row, Changed(config.selection, jobs[c])))
    BY <1>0, <1>3, SqliteHistoryStatements
  <2>3. \A d, row, left : Records(d, row, left).step # "trackers"
    BY DEF Records
  <2>. QED
    BY <1>0, <1>2, <2>1, <2>2, <2>3
<1>4. ASSUME NEW a \in Attributes, S!RecordAttribute(c, a) PROVE Kept
  <2>1. Only(tables, tables', {"deviceHistory", "attributeHistory"})
    BY <1>0, <1>4, SqliteHistoryStatements DEF ValueKept, Only
  <2>2. jobs[c].step = "attributes" /\ cut' = cut /\ Then(jobs, jobs', c, [jobs[c] EXCEPT !.left = @ \ {a}])
    BY <1>0, <1>4, SqliteHistoryStatements
  <2>3. [jobs[c] EXCEPT !.left = @ \ {a}].step # "trackers"
    BY <1>0, <2>2, JobAt DEF AttributesJob
  <2>. QED
    BY <1>0, <1>2, <2>1, <2>2, <2>3
<1>5. CASE S!SavePrunes(c)
  <2>1. Idle.step # "trackers" /\ Prunes("pruneDevices", Cutoff).step # "trackers"
    BY DEF Idle, Prunes
  <2>. QED
    BY <1>0, <1>2, <1>5, <2>1, SqliteHistoryStatements
<1>6. CASE S!PruneDevices(c) \/ S!PruneAttributes(c)
  <2>1. Idle.step # "trackers" /\ Prunes("pruneAttributes", jobs[c].cutoff).step # "trackers"
    BY DEF Idle, Prunes
  <2>2. Only(tables, tables', {"deviceHistory", "attributeHistory"})
    BY <1>0, <1>6, SqliteHistoryStatements DEF Only
  <2>. QED
    BY <1>0, <1>2, <1>6, <2>1, <2>2, SqliteHistoryStatements
<1>7. CASE S!ReadBackKey(c)
  <2>1. Idle.step # "trackers"
    BY DEF Idle
  <2>2. jobs[c].step = "readBack" /\ tables' = tables /\ Then(jobs, jobs', c, Idle) /\ cut' = cut
    BY <1>0, <1>7, SqliteOthers
  <2>3. jobs[c].step # "trackers" /\ (Only(tables, tables', {"deviceHistory", "attributeHistory"}) \/ tables' = tables)
    BY <2>2
  <2>. QED
    BY <1>0, <1>2, <2>1, <2>2, <2>3
<1>8. CASE S!InsertTracker(c)
  <2>1. jobs[c] \in TrackersJob /\ c = TheRequest /\ jobs[c].next \in 1..Len(jobs[c].list)
    BY <1>0, <1>8, SqliteOthers, JobAt DEF JobsOK
  <2>2. CASE Fits(tables, jobs[c])
    <3>. DEFINE job == IF jobs[c].next < Len(jobs[c].list)
                         THEN [jobs[c] EXCEPT !.next = @ + 1] ELSE Idle
    <3>1. TrackerAdded(tables, tables', jobs[c]) /\ cut' = cut /\ Then(jobs, jobs', c, job)
      BY <1>0, <1>8, <2>2, SqliteOthers
    <3>2. Owed(jobs[c]) = {TrackerRow(jobs[c], jobs[c].next)} \cup Owed(job)
      BY <2>1, OwedNext
    <3>. HIDE DEF job
    <3>3. jobs'[TheRequest] = job
      BY <1>0, <2>1, <3>1, Callable DEF Then, JobsOK
    <3>. QED
      BY <1>0, <2>1, <3>1, <3>2, <3>3 DEF TrackerAdded, Only, HistoryNames
  <2>3. CASE ~Fits(tables, jobs[c])
    BY <1>0, <1>8, <2>3, SqliteOthers, NamedSame DEF Only
  <2>. QED
    BY <1>0, <2>2, <2>3
<1>. QED
  BY <1>0, <1>3, <1>4, <1>5, <1>6, <1>7, <1>8 DEF SqliteStep

LEMMA PostgresStatementMirror ==
  ASSUME TypeInv, NEW c \in Callers, PostgresStep(c)
  PROVE  /\ Only(pgTables, pgTables', HistoryNames) /\ UNCHANGED sqlite
         /\ \/ pgCut'
            \/ /\ pgCut' = pgCut
               /\ pgTables'.trackers \cup Owed(pgJobs'[TheRequest])
                    = pgTables.trackers \cup Owed(pgJobs[TheRequest])
<1>0. Named(pgTables) /\ JobsOK(pgJobs) /\ pgJobs[c] \in Job /\ pgCut \in BOOLEAN /\ UNCHANGED sqlite
  BY DEF PostgresStep, TypeInv, TablesOK, JobsOK
<1>1. ASSUME NEW job, Then(pgJobs, pgJobs', c, job), Owed(pgJobs[c]) = {}, Owed(job) = {}
      PROVE  Owed(pgJobs'[TheRequest]) = Owed(pgJobs[TheRequest])
  BY <1>0, <1>1, Callable DEF Then, JobsOK
<1>2. ASSUME NEW job, Then(pgJobs, pgJobs', c, job), pgJobs[c].step # "trackers", job.step # "trackers",
             pgCut' = pgCut, Only(pgTables, pgTables', {"deviceHistory", "attributeHistory"}) \/ pgTables' = pgTables
      PROVE  /\ Only(pgTables, pgTables', HistoryNames) /\ pgCut' = pgCut
             /\ pgTables'.trackers \cup Owed(pgJobs'[TheRequest])
                  = pgTables.trackers \cup Owed(pgJobs[TheRequest])
  <2>1. Owed(pgJobs'[TheRequest]) = Owed(pgJobs[TheRequest])
    BY <1>1, <1>2, OthersOweNothing
  <2>2. Only(pgTables, pgTables', HistoryNames) /\ pgTables'.trackers = pgTables.trackers
    BY <1>0, <1>2 DEF Only, HistoryNames
  <2>. QED
    BY <1>2, <2>1, <2>2
<1>. DEFINE Kept == /\ Only(pgTables, pgTables', HistoryNames) /\ pgCut' = pgCut
                    /\ pgTables'.trackers \cup Owed(pgJobs'[TheRequest])
                         = pgTables.trackers \cup Owed(pgJobs[TheRequest])
<1>. USE DEF PostgresGoes
<1>3. CASE P!RecordSnapshot(c)
  <2>1. Only(pgTables, pgTables', {"deviceHistory", "attributeHistory"}) \/ pgTables' = pgTables
    BY <1>0, <1>3, PostgresHistoryStatements DEF SnapshotKept, Only
  <2>2. pgJobs[c].step = "snapshot" /\ pgCut' = pgCut
        /\ Then(pgJobs, pgJobs', c, Records(pgJobs[c].device, pgJobs[c].row, Changed(config.selection, pgJobs[c])))
    BY <1>0, <1>3, PostgresHistoryStatements
  <2>3. \A d, row, left : Records(d, row, left).step # "trackers"
    BY DEF Records
  <2>. QED
    BY <1>0, <1>2, <2>1, <2>2, <2>3
<1>4. ASSUME NEW a \in Attributes, P!RecordAttribute(c, a) PROVE Kept
  <2>1. Only(pgTables, pgTables', {"deviceHistory", "attributeHistory"})
    BY <1>0, <1>4, PostgresHistoryStatements DEF ValueKept, Only
  <2>2. pgJobs[c].step = "attributes" /\ pgCut' = pgCut /\ Then(pgJobs, pgJobs', c, [pgJobs[c] EXCEPT !.left = @ \ {a}])
    BY <1>0, <1>4, PostgresHistoryStatements
  <2>3. [pgJobs[c] EXCEPT !.left = @ \ {a}].step # "trackers"
    BY <1>0, <2>2, JobAt DEF AttributesJob
  <2>. QED
    BY <1>0, <1>2, <2>1, <2>2, <2>3
<1>5. CASE P!SaveEnds(c)
  <2>1. Idle.step # "trackers" /\ Prunes("pruneDevices", Cutoff).step # "trackers"
    BY DEF Idle, Prunes
  <2>. QED
    BY <1>0, <1>2, <1>5, <2>1, PostgresHistoryStatements
<1>6. CASE P!PruneDevices(c) \/ P!PruneAttributes(c)
  <2>1. Idle.step # "trackers" /\ Prunes("pruneAttributes", pgJobs[c].cutoff).step # "trackers"
    BY DEF Idle, Prunes
  <2>2. Only(pgTables, pgTables', {"deviceHistory", "attributeHistory"})
    BY <1>0, <1>6, PostgresHistoryStatements DEF Only
  <2>. QED
    BY <1>0, <1>2, <1>6, <2>1, <2>2, PostgresHistoryStatements
<1>8. CASE P!InsertTracker(c)
  <2>1. pgJobs[c] \in TrackersJob /\ c = TheRequest /\ pgJobs[c].next \in 1..Len(pgJobs[c].list)
    BY <1>0, <1>8, PostgresOthers, JobAt DEF JobsOK
  <2>2. CASE Fits(pgTables, pgJobs[c])
    <3>. DEFINE job == IF pgJobs[c].next < Len(pgJobs[c].list)
                         THEN [pgJobs[c] EXCEPT !.next = @ + 1] ELSE Idle
    <3>1. TrackerAdded(pgTables, pgTables', pgJobs[c]) /\ pgCut' = pgCut /\ Then(pgJobs, pgJobs', c, job)
      BY <1>0, <1>8, <2>2, PostgresOthers
    <3>2. Owed(pgJobs[c]) = {TrackerRow(pgJobs[c], pgJobs[c].next)} \cup Owed(job)
      BY <2>1, OwedNext
    <3>. HIDE DEF job
    <3>3. pgJobs'[TheRequest] = job
      BY <1>0, <2>1, <3>1, Callable DEF Then, JobsOK
    <3>. QED
      BY <1>0, <2>1, <3>1, <3>2, <3>3 DEF TrackerAdded, Only, HistoryNames
  <2>3. CASE ~Fits(pgTables, pgJobs[c])
    BY <1>0, <1>8, <2>3, PostgresOthers, NamedSame DEF Only
  <2>. QED
    BY <1>0, <2>2, <2>3
<1>. QED
  BY <1>0, <1>3, <1>4, <1>5, <1>6, <1>8 DEF PostgresStep

\* What a call writes to both tables is the same to the microsecond.
LEMMA MirroredRow ==
  /\ \A row \in DeviceRow : Mirrored(row) = InMicros(row)
  /\ NoRow \notin StateRow
  /\ Mirrored(NoRow) = NoRow
  BY MarkersTold DEF Mirrored

LEMMA LeftMirrored ==
  ASSUME NEW row \in DeviceRow \cup {NoRow}, NEW r
  PROVE  Mirrored(Left(row, r)) = Left(Mirrored(row), r)
<1>1. CASE row = NoRow
  BY <1>1 DEF Left, Mirrored
<1>2. CASE row \in DeviceRow
  <2>1. row # NoRow /\ InMicros(row) # NoRow
    BY <1>2, MarkersTold, MicrosTyped
  <2>2. CASE row.room = r
    <3>1. Left(row, r) = [row EXCEPT !.room = NoRoom] /\ [row EXCEPT !.room = NoRoom] \in DeviceRow
      BY <1>2, <2>1, <2>2 DEF Left, DeviceRow
    <3>2. [row EXCEPT !.room = NoRoom] # NoRow
      BY <3>1, MarkersTold
    <3>3. InMicros([row EXCEPT !.room = NoRoom]) = [InMicros(row) EXCEPT !.room = NoRoom]
      BY <1>2 DEF InMicros, DeviceRow
    <3>4. InMicros(row).room = r
      BY <1>2, <2>2 DEF InMicros, DeviceRow
    <3>. QED
      BY <2>1, <3>1, <3>2, <3>3, <3>4 DEF Left, Mirrored
  <2>3. CASE row.room # r
    <3>1. InMicros(row).room # r
      BY <1>2, <2>3 DEF InMicros, DeviceRow
    <3>. QED
      BY <2>1, <2>3, <3>1 DEF Left, Mirrored
  <2>. QED
    BY <2>2, <2>3
<1>. QED
  BY <1>1, <1>2

LEMMA DeviceSavedMirror ==
  ASSUME NEW t, NEW u, NEW t1, NEW u1, DevicesOK(t), DevicesOK(u), NEW d \in Devices, NEW row \in DeviceRow,
         DevicesMirrored(t, u), DeviceSaved(t, t1, d, row), DeviceSaved(u, u1, d, InMicros(row))
  PROVE  DevicesMirrored(t1, u1)
<1>1. \A e \in Devices : u1.devices[e] = Mirrored(t1.devices[e])
  BY MirroredRow DEF DeviceSaved, DevicesMirrored, DevicesOK
<1>. QED
  BY <1>1 DEF DeviceSaved, DevicesMirrored, Only

LEMMA TableCallMirror ==
  ASSUME NEW t, NEW u, NEW t1, NEW u1, DevicesOK(t), DevicesOK(u), DevicesMirrored(t, u),
     \/ \E d \in Devices : DeviceDeleted(t, t1, d) /\ DeviceDeleted(u, u1, d)
     \/ \E r \in Rooms : RoomSaved(t, t1, r) /\ RoomSaved(u, u1, r)
     \/ \E r \in Rooms : RoomDeleted(t, t1, r) /\ RoomDeleted(u, u1, r)
     \/ \E g \in Groups, list \in Ordered(Devices) :
          GroupSaved(t, t1, g, list) /\ GroupSaved(u, u1, g, list)
     \/ \E g \in Groups : GroupDeleted(t, t1, g) /\ GroupDeleted(u, u1, g)
  PROVE  DevicesMirrored(t1, u1)
<1>. USE DEF DevicesMirrored
<1>1. CASE \E d \in Devices : DeviceDeleted(t, t1, d) /\ DeviceDeleted(u, u1, d)
  <2>1. PICK d \in Devices : DeviceDeleted(t, t1, d) /\ DeviceDeleted(u, u1, d)
    BY <1>1
  <2>2. \A e \in Devices : u1.devices[e] = Mirrored(t1.devices[e])
    BY <2>1, MirroredRow DEF DeviceDeleted, DevicesOK
  <2>. QED
    BY <2>1, <2>2 DEF DeviceDeleted, Only
<1>2. CASE \E r \in Rooms : RoomSaved(t, t1, r) /\ RoomSaved(u, u1, r)
  BY <1>2 DEF RoomSaved, Only
<1>3. CASE \E r \in Rooms : RoomDeleted(t, t1, r) /\ RoomDeleted(u, u1, r)
  <2>1. PICK r \in Rooms : RoomDeleted(t, t1, r) /\ RoomDeleted(u, u1, r)
    BY <1>3
  <2>2. ASSUME NEW e \in Devices PROVE u1.devices[e] = Mirrored(t1.devices[e])
    <3>1. t1.devices[e] = Left(t.devices[e], r) /\ u1.devices[e] = Left(u.devices[e], r)
      BY <2>1 DEF RoomDeleted
    <3>2. t.devices[e] \in DeviceRow \cup {NoRow} /\ u.devices[e] = Mirrored(t.devices[e])
      BY DEF DevicesOK
    <3>. QED
      BY <3>1, <3>2, LeftMirrored
  <2>. QED
    BY <2>1, <2>2 DEF RoomDeleted, Only
<1>4. CASE \E g \in Groups, list \in Ordered(Devices) :
             GroupSaved(t, t1, g, list) /\ GroupSaved(u, u1, g, list)
  BY <1>4 DEF GroupSaved, Only
<1>5. CASE \E g \in Groups : GroupDeleted(t, t1, g) /\ GroupDeleted(u, u1, g)
  BY <1>5 DEF GroupDeleted, Only
<1>. QED
  BY <1>1, <1>2, <1>3, <1>4, <1>5

LEMMA StateSavedMirror ==
  ASSUME NEW t, NEW u, NEW t1, NEW u1, StatesOK(t), StatesOK(u), NEW a \in Automations, NEW state \in StateRow,
         StatesMirrored(t, u), StateSaved(t, t1, a, state), StateSaved(u, u1, a, StateInMicros(state))
  PROVE  StatesMirrored(t1, u1)
  BY MirroredRow DEF StateSaved, StatesMirrored, StatesOK

LEMMA KeyMirrored ==
  ASSUME NEW k \in KeyRow
  PROVE  /\ KeyInMicros(k).id = k.id /\ KeyInMicros(k).person = k.person
         /\ \A id : \A time \in Nat : KeyInMicros(Touched(k, id, time)) = Touched(KeyInMicros(k), id, Micros(time))
<1>1. KeyInMicros(k).id = k.id /\ KeyInMicros(k).person = k.person
  BY DEF KeyInMicros, KeyRow
<1>2. ASSUME NEW id, NEW time \in Nat
      PROVE  KeyInMicros(Touched(k, id, time)) = Touched(KeyInMicros(k), id, Micros(time))
  <2>1. time # Absent
    BY MarkersApart
  <2>2. CASE k.id = id
    <3>1. Touched(k, id, time) = [k EXCEPT !.used = time]
      BY <2>2 DEF Touched
    <3>2. KeyInMicros([k EXCEPT !.used = time]) = [k EXCEPT !.used = Micros(time)]
      BY <2>1 DEF KeyInMicros, KeyRow
    <3>3. [KeyInMicros(k) EXCEPT !.used = Micros(time)] = [k EXCEPT !.used = Micros(time)]
      BY DEF KeyInMicros, KeyRow
    <3>. QED
      BY <1>1, <2>2, <3>1, <3>2, <3>3 DEF Touched
  <2>3. CASE k.id # id
    BY <1>1, <2>3 DEF Touched
  <2>. QED
    BY <2>2, <2>3
<1>. QED
  BY <1>1, <1>2

LEMMA KeyCallMirror ==
  ASSUME NEW t, NEW u, NEW t1, NEW u1, NEW drawn, KeysOK(t, drawn), KeysMirrored(t, u), IsFiniteSet(t.apiKeys),
         NEW id, NEW time \in Nat,
         \/ KeyRevoked(t, t1, id) /\ KeyRevoked(u, u1, id)
         \/ KeyTouched(t, t1, id, time) /\ KeyTouched(u, u1, id, Micros(time))
  PROVE  KeysMirrored(t1, u1) /\ IsFiniteSet(t1.apiKeys)
<1>0. t.apiKeys \subseteq KeyRow /\ u.lastKey = t.lastKey /\ u.apiKeys = {KeyInMicros(k) : k \in t.apiKeys}
  BY DEF KeysOK, KeysMirrored
<1>1. u1.lastKey = t1.lastKey
  BY <1>0 DEF KeyRevoked, KeyTouched, Only
<1>2. CASE KeyRevoked(t, t1, id) /\ KeyRevoked(u, u1, id)
  <2>1. t1.apiKeys = {k \in t.apiKeys : k.id # id} /\ u1.apiKeys = {k \in u.apiKeys : k.id # id}
    BY <1>2 DEF KeyRevoked
  <2>2. u1.apiKeys = {KeyInMicros(k) : k \in t1.apiKeys}
    <3>1. \A k \in t.apiKeys : KeyInMicros(k).id = k.id
      BY <1>0, KeyMirrored
    <3>. QED
      BY <1>0, <2>1, <3>1
  <2>3. IsFiniteSet(t1.apiKeys)
    BY <2>1, FS_Subset
  <2>. QED
    BY <1>1, <2>2, <2>3 DEF KeysMirrored
<1>3. CASE KeyTouched(t, t1, id, time) /\ KeyTouched(u, u1, id, Micros(time))
  <2>1. /\ t1.apiKeys = {Touched(k, id, time) : k \in t.apiKeys}
        /\ u1.apiKeys = {Touched(k, id, Micros(time)) : k \in u.apiKeys}
    BY <1>3 DEF KeyTouched
  <2>2. ASSUME NEW k \in t.apiKeys
        PROVE  KeyInMicros(Touched(k, id, time)) = Touched(KeyInMicros(k), id, Micros(time))
    <3>1. k \in KeyRow
      BY <1>0
    <3>. QED
      BY <3>1, KeyMirrored
  <2>3. u1.apiKeys = {KeyInMicros(k) : k \in t1.apiKeys}
    BY <1>0, <2>1, <2>2
  <2>4. IsFiniteSet(t1.apiKeys)
    <3>. DEFINE f == [k \in t.apiKeys |-> Touched(k, id, time)]
    <3>1. f \in Surjection(t.apiKeys, t1.apiKeys)
      BY <2>1 DEF Surjection
    <3>. QED
      BY <3>1, FS_Surjection
  <2>. QED
    BY <1>1, <2>3, <2>4 DEF KeysMirrored
<1>. QED
  BY <1>2, <1>3

LEMMA KeyCreatedMirror ==
  ASSUME NEW t, NEW u, NEW t1, NEW u1, NEW hash \in Hashes, NEW role \in Roles, NEW p \in Persons \cup {Nobody},
         KeysMirrored(t, u), IsFiniteSet(t.apiKeys),
         KeyCreated(t, t1, hash, role, p), KeyCreated(u, u1, hash, role, p)
  PROVE  KeysMirrored(t1, u1) /\ IsFiniteSet(t1.apiKeys)
<1>1. NewKey(u, hash, role, p) = NewKey(t, hash, role, p)
  BY DEF NewKey, KeysMirrored
<1>2. KeyInMicros(NewKey(t, hash, role, p)) = NewKey(t, hash, role, p)
  BY DEF KeyInMicros, NewKey
<1>3. t1.apiKeys = t.apiKeys \cup {NewKey(t, hash, role, p)} /\ u1.apiKeys = u.apiKeys \cup {NewKey(u, hash, role, p)}
  BY DEF KeyCreated
<1>4. u1.apiKeys = {KeyInMicros(k) : k \in t1.apiKeys}
  BY <1>1, <1>2, <1>3 DEF KeysMirrored
<1>5. IsFiniteSet(t1.apiKeys)
  BY <1>3, FS_AddElement
<1>. QED
  BY <1>4, <1>5 DEF KeyCreated, KeysMirrored

\* A call leaves the mirror as it was where both stores do the same.
LEMMA NothingUnderWay ==
  ASSUME TypeInv, NEW c \in Callers, BothFree(c)
  PROVE  c = TheRequest => Owed(jobs[TheRequest]) = {} /\ Owed(pgJobs[TheRequest]) = {}
  BY IdleOwes DEF BothFree

LEMMA CallMirror ==
  ASSUME TypeInv, MirrorInv, CallDevices \/ CallHistory \/ CallJournals \/ CallPersons
  PROVE  MirrorInv'
<1>0. /\ DevicesOK(tables) /\ DevicesOK(pgTables) /\ StatesOK(tables) /\ StatesOK(pgTables)
      /\ PersonsOK(tables) /\ JobsOK(jobs) /\ JobsOK(pgJobs) /\ Named(tables) /\ Named(pgTables)
  BY DEF TypeInv, TablesOK
<1>1. /\ SaveCall \/ TableCall \/ PruneCall \/ StateCall \/ PersonCall
      /\ UNCHANGED <<cut, pgCut>>
  BY WorkerCalls, JournalCalls, PersonCalls, CallOK
<1>2. /\ DevicesMirrored(tables, pgTables) /\ StatesMirrored(tables, pgTables)
      /\ KeysMirrored(tables, pgTables) /\ IsFiniteSet(tables.apiKeys)
      /\ PersonsMirrored(tables, pgTables)
  BY DEF MirrorInv
<1>. DEFINE Paid == ~cut /\ ~pgCut => TrackersMirrored(tables, pgTables, jobs[TheRequest], pgJobs[TheRequest])
<1>3. Paid
  BY DEF MirrorInv
<1>4. ASSUME NEW names, Only(tables, tables', names), Only(pgTables, pgTables', names)
      PROVE  /\ {"rooms", "groups", "members", "devices"} \cap names = {} => DevicesMirrored(tables', pgTables')
             /\ "runtimeState" \notin names => StatesMirrored(tables', pgTables')
             /\ {"apiKeys", "lastKey"} \cap names = {} =>
                  KeysMirrored(tables', pgTables') /\ IsFiniteSet(tables'.apiKeys)
             /\ {"persons", "zones"} \cap names = {} => PersonsMirrored(tables', pgTables')
             /\ "trackers" \notin names =>
                  tables'.trackers = tables.trackers /\ pgTables'.trackers = pgTables.trackers
  BY <1>2, <1>4, MirrorUntouched
<1>5. ASSUME Owed(jobs'[TheRequest]) = Owed(jobs[TheRequest]), Owed(pgJobs'[TheRequest]) = Owed(pgJobs[TheRequest]),
             tables'.trackers = tables.trackers, pgTables'.trackers = pgTables.trackers
      PROVE  Paid'
  BY <1>1, <1>3, <1>5 DEF TrackersMirrored
<1>6. ASSUME UNCHANGED <<jobs, pgJobs>> \/ \E job, pgJob : \E c \in {Worker, Pruner} :
                                             Then(jobs, jobs', c, job) /\ Then(pgJobs, pgJobs', c, pgJob)
      PROVE  jobs'[TheRequest] = jobs[TheRequest] /\ pgJobs'[TheRequest] = pgJobs[TheRequest]
  BY <1>0, <1>6, RequestApart, Callable DEF Then, JobsOK
<1>. HIDE DEF Paid
<1>. USE DEF BothDone, BothGo, SqliteDone, SqliteGoes, PostgresDone, PostgresGoes
<1>7. CASE SaveCall
  <2>1. PICK d \in Devices, row \in DeviceRow :
    /\ DeviceSaved(tables, tables', d, row) /\ DeviceSaved(pgTables, pgTables', d, InMicros(row))
    /\ IF config.enabled THEN /\ SqliteGoes(Worker, Saves(d, row, tables.devices[d]))
                              /\ PostgresGoes(Worker, Saves(d, row, pgTables.devices[d]))
                         ELSE BothDone(Worker)
    BY <1>7 DEF SaveCall
  <2>2. Only(tables, tables', {"devices"}) /\ Only(pgTables, pgTables', {"devices"})
    BY <2>1 DEF DeviceSaved
  <2>3. UNCHANGED <<jobs, pgJobs>> \/ \E job, pgJob : \E c \in {Worker, Pruner} :
          Then(jobs, jobs', c, job) /\ Then(pgJobs, pgJobs', c, pgJob)
    <3>1. CASE config.enabled
      BY <2>1, <3>1
    <3>2. CASE ~config.enabled
      BY <2>1, <3>2
    <3>. QED
      BY <3>1, <3>2
  <2>4. DevicesMirrored(tables', pgTables')
    BY <1>0, <1>2, <2>1, DeviceSavedMirror
  <2>5. Paid'
    BY <1>4, <1>5, <1>6, <2>2, <2>3
  <2>6. /\ StatesMirrored(tables', pgTables') /\ PersonsMirrored(tables', pgTables')
        /\ KeysMirrored(tables', pgTables') /\ IsFiniteSet(tables'.apiKeys)
    BY <1>4, <2>2
  <2>. QED
    BY <2>4, <2>5, <2>6 DEF MirrorInv, Paid
<1>8. CASE TableCall
  <2>1. DevicesMirrored(tables', pgTables')
    BY <1>0, <1>2, <1>8, TableCallMirror DEF TableCall
  <2>2. /\ Only(tables, tables', {"rooms", "groups", "members", "devices"})
        /\ Only(pgTables, pgTables', {"rooms", "groups", "members", "devices"})
    BY <1>8 DEF TableCall, Only, DeviceDeleted, RoomSaved, RoomDeleted, GroupSaved, GroupDeleted
  <2>3. UNCHANGED <<jobs, pgJobs>>
    BY <1>8 DEF TableCall
  <2>4. Paid'
    BY <1>4, <1>5, <2>2, <2>3
  <2>5. /\ StatesMirrored(tables', pgTables') /\ PersonsMirrored(tables', pgTables')
        /\ KeysMirrored(tables', pgTables') /\ IsFiniteSet(tables'.apiKeys)
    BY <1>4, <2>2
  <2>. QED
    BY <2>1, <2>4, <2>5 DEF MirrorInv, Paid
<1>9. CASE PruneCall
  <2>1. UNCHANGED <<tables, pgTables>> /\ \E job, pgJob : \E c \in {Worker, Pruner} :
          Then(jobs, jobs', c, job) /\ Then(pgJobs, pgJobs', c, pgJob)
    BY <1>9 DEF PruneCall
  <2>2. Paid'
    BY <1>5, <1>6, <2>1
  <2>. QED
    BY <1>2, <2>1, <2>2 DEF MirrorInv, Paid
<1>10. CASE StateCall
  <2>1. /\ Only(tables, tables', Journals \cup {"runtimeState"})
        /\ Only(pgTables, pgTables', Journals \cup {"runtimeState"})
    BY <1>10 DEF StateCall, StateSaved, Only
  <2>2. StatesMirrored(tables', pgTables')
    <3>1. CASE Only(tables, tables', Journals) /\ Only(pgTables, pgTables', Journals)
      BY <1>4, <3>1
    <3>2. CASE \E a \in Automations, state \in StateRow :
                 StateSaved(tables, tables', a, state) /\ StateSaved(pgTables, pgTables', a, StateInMicros(state))
      BY <1>0, <1>2, <3>2, StateSavedMirror
    <3>. QED
      BY <1>10, <3>1, <3>2 DEF StateCall
  <2>3. UNCHANGED <<jobs, pgJobs>>
    BY <1>10 DEF StateCall
  <2>4. Paid'
    BY <1>4, <1>5, <2>1, <2>3
  <2>5. /\ DevicesMirrored(tables', pgTables') /\ PersonsMirrored(tables', pgTables')
        /\ KeysMirrored(tables', pgTables') /\ IsFiniteSet(tables'.apiKeys)
    BY <1>4, <2>1
  <2>. QED
    BY <2>2, <2>4, <2>5 DEF MirrorInv, Paid
<1>11. CASE PersonCall
  <2>1. /\ Only(tables, tables', Journals \cup {"persons", "trackers", "zones"})
        /\ Only(pgTables, pgTables', Journals \cup {"persons", "trackers", "zones"})
    BY <1>11 DEF PersonCall, Only, PersonSaved, PersonDeleted, ZoneSaved, TrackersCleared
  <2>2. PersonsMirrored(tables', pgTables')
    BY <1>2, <1>11 DEF PersonCall, PersonsMirrored, Only, PersonSaved, PersonDeleted, ZoneSaved, TrackersCleared
  <2>3. Paid'
    <3>1. CASE \E c \in Callers :
                 BothDone(c) /\ Only(tables, tables', Journals) /\ Only(pgTables, pgTables', Journals)
      BY <1>4, <1>5, <3>1
    <3>2. ASSUME BothFree(TheRequest)
          PROVE  ~cut /\ ~pgCut => tables.trackers = pgTables.trackers
      BY <1>3, <3>2, IdleOwes DEF Paid, BothFree, TrackersMirrored
    <3>3. CASE /\ BothDone(TheRequest)
               /\ \/ \E p \in Persons, row \in Places :
                       PersonSaved(tables, tables', p, row) /\ PersonSaved(pgTables, pgTables', p, row)
                  \/ \E p \in Persons : PersonDeleted(tables, tables', p) /\ PersonDeleted(pgTables, pgTables', p)
                  \/ \E z \in Places, row \in Values \cup {NoRow} :
                       ZoneSaved(tables, tables', z, row) /\ ZoneSaved(pgTables, pgTables', z, row)
      <4>1. ~cut /\ ~pgCut => tables'.trackers = pgTables'.trackers
        BY <3>2, <3>3 DEF BothFree, PersonSaved, PersonDeleted, ZoneSaved, Only
      <4>2. Owed(jobs'[TheRequest]) = Owed(pgJobs'[TheRequest])
        BY <3>3
      <4>. QED
        BY <1>1, <4>1, <4>2 DEF Paid, TrackersMirrored
    <3>4. CASE \E p \in Persons, list \in Ordered(Devices) :
                 /\ BothFree(TheRequest)
                 /\ TrackersCleared(tables, tables', p) /\ TrackersCleared(pgTables, pgTables', p)
                 /\ BothGo(TheRequest, IF list = <<>> THEN Idle ELSE Tracks(p, list, 1))
      <4>1. ~cut /\ ~pgCut => tables'.trackers = pgTables'.trackers
        BY <3>2, <3>4 DEF TrackersCleared
      <4>2. jobs'[TheRequest] = pgJobs'[TheRequest]
        BY <1>0, <3>4, Callable DEF Then, JobsOK
      <4>. QED
        BY <1>1, <4>1, <4>2 DEF Paid, TrackersMirrored
    <3>. QED
      BY <1>11, <3>1, <3>3, <3>4 DEF PersonCall
  <2>4. /\ DevicesMirrored(tables', pgTables') /\ StatesMirrored(tables', pgTables')
        /\ KeysMirrored(tables', pgTables') /\ IsFiniteSet(tables'.apiKeys)
    BY <1>4, <2>1
  <2>. QED
    BY <2>2, <2>3, <2>4 DEF MirrorInv, Paid
<1>. QED
  BY <1>1, <1>7, <1>8, <1>9, <1>10, <1>11

LEMMA KeysMirror ==
  ASSUME TypeInv, MirrorInv, CallKeys
  PROVE  MirrorInv'
<1>0. /\ JobsOK(jobs) /\ JobsOK(pgJobs) /\ KeysOK(tables, spent) /\ now \in Nat
  BY DEF TypeInv, TablesOK
<1>1. CreateCall \/ KeyCall \/ NoCall
  BY KeyCalls
<1>2. /\ KeysMirrored(tables, pgTables) /\ IsFiniteSet(tables.apiKeys)
      /\ ~cut /\ ~pgCut => TrackersMirrored(tables, pgTables, jobs[TheRequest], pgJobs[TheRequest])
      /\ DevicesMirrored(tables, pgTables) /\ StatesMirrored(tables, pgTables)
      /\ PersonsMirrored(tables, pgTables)
  BY DEF MirrorInv
<1>3. ASSUME Only(tables, tables', {"apiKeys", "lastKey"}), Only(pgTables, pgTables', {"apiKeys", "lastKey"}),
             KeysMirrored(tables', pgTables'), IsFiniteSet(tables'.apiKeys), UNCHANGED <<cut, pgCut>>,
             Owed(jobs'[TheRequest]) = Owed(jobs[TheRequest]),
             Owed(pgJobs'[TheRequest]) = Owed(pgJobs[TheRequest])
      PROVE  MirrorInv'
  <2>1. /\ DevicesMirrored(tables', pgTables') /\ StatesMirrored(tables', pgTables')
        /\ PersonsMirrored(tables', pgTables')
        /\ tables'.trackers = tables.trackers /\ pgTables'.trackers = pgTables.trackers
    BY <1>2, <1>3, MirrorUntouched
  <2>2. TrackersMirrored(tables, pgTables, jobs[TheRequest], pgJobs[TheRequest])
          => TrackersMirrored(tables', pgTables', jobs'[TheRequest], pgJobs'[TheRequest])
    BY <1>3, <2>1 DEF TrackersMirrored
  <2>. QED
    BY <1>2, <1>3, <2>1, <2>2 DEF MirrorInv
<1>4. CASE CreateCall
  <2>1. PICK c \in Requests, hash \in Hashes, role \in Roles, p \in Persons \cup {Nobody} :
    /\ BothFree(c)
    /\ KeyCreated(tables, tables', hash, role, p) /\ KeyCreated(pgTables, pgTables', hash, role, p)
    /\ SqliteGoes(c, ReadsBack(tables.lastKey + 1, hash))
    /\ UNCHANGED <<pgJobs, pgCut>>
    BY <1>4 DEF CreateCall
  <2>2. KeysMirrored(tables', pgTables') /\ IsFiniteSet(tables'.apiKeys)
    BY <1>2, <2>1, KeyCreatedMirror
  <2>3. Owed(jobs'[TheRequest]) = Owed(jobs[TheRequest])
    <3>1. Owed(ReadsBack(tables.lastKey + 1, hash)) = {}
      BY DEF Owed, ReadsBack
    <3>2. CASE c = TheRequest
      BY <1>0, <2>1, <3>1, <3>2, Callable, IdleOwes DEF SqliteGoes, Then, JobsOK, BothFree
    <3>3. CASE c # TheRequest
      BY <1>0, <2>1, <3>3, Callable DEF SqliteGoes, Then, JobsOK
    <3>. QED
      BY <3>2, <3>3
  <2>. QED
    BY <1>3, <2>1, <2>2, <2>3 DEF KeyCreated, SqliteGoes
<1>5. CASE KeyCall
  <2>1. PICK c, id :
    /\ c \in Requests /\ BothDone(c)
    /\ \/ KeyRevoked(tables, tables', id) /\ KeyRevoked(pgTables, pgTables', id)
       \/ KeyTouched(tables, tables', id, now) /\ KeyTouched(pgTables, pgTables', id, Micros(now))
    BY <1>5 DEF KeyCall
  <2>2. KeysMirrored(tables', pgTables') /\ IsFiniteSet(tables'.apiKeys)
    BY <1>0, <1>2, <2>1, KeyCallMirror
  <2>3. Only(tables, tables', {"apiKeys", "lastKey"}) /\ Only(pgTables, pgTables', {"apiKeys", "lastKey"})
    BY <2>1 DEF KeyRevoked, KeyTouched, Only
  <2>. QED
    BY <1>3, <2>1, <2>2, <2>3 DEF BothDone, SqliteDone, PostgresDone
<1>6. CASE NoCall
  BY <1>2, <1>6 DEF NoCall, sqlite, postgres, MirrorInv
<1>. QED
  BY <1>1, <1>4, <1>5, <1>6

LEMMA StatementsMirror ==
  ASSUME TypeInv, MirrorInv, NEW c \in Callers, SqliteStep(c) \/ PostgresStep(c)
  PROVE  MirrorInv'
<1>0. Named(tables) /\ Named(pgTables) /\ cut \in BOOLEAN /\ pgCut \in BOOLEAN
  BY DEF TypeInv, TablesOK
<1>1. /\ Only(tables, tables', HistoryNames) /\ Only(pgTables, pgTables', HistoryNames)
      /\ \/ cut' \/ pgCut'
         \/ /\ UNCHANGED <<cut, pgCut>>
            /\ tables'.trackers \cup Owed(jobs'[TheRequest]) = tables.trackers \cup Owed(jobs[TheRequest])
            /\ pgTables'.trackers \cup Owed(pgJobs'[TheRequest])
                 = pgTables.trackers \cup Owed(pgJobs[TheRequest])
  <2>1. CASE SqliteStep(c)
    <3>1. UNCHANGED postgres /\ Only(pgTables, pgTables', HistoryNames)
      BY <1>0, <2>1, SqliteStatementMirror DEF postgres, Only, HistoryNames
    <3>. QED
      BY <2>1, <3>1, SqliteStatementMirror DEF postgres
  <2>2. CASE PostgresStep(c)
    <3>1. UNCHANGED sqlite /\ Only(tables, tables', HistoryNames)
      BY <1>0, <2>2, PostgresStatementMirror DEF sqlite, Only, HistoryNames
    <3>. QED
      BY <2>2, <3>1, PostgresStatementMirror DEF sqlite
  <2>. QED
    BY <2>1, <2>2
<1>2. /\ DevicesMirrored(tables', pgTables') /\ StatesMirrored(tables', pgTables')
      /\ KeysMirrored(tables', pgTables') /\ IsFiniteSet(tables'.apiKeys)
      /\ PersonsMirrored(tables', pgTables')
  BY <1>1, MirrorUntouched DEF MirrorInv, HistoryNames
<1>3. ~cut' /\ ~pgCut' => TrackersMirrored(tables', pgTables', jobs'[TheRequest], pgJobs'[TheRequest])
  BY <1>1 DEF MirrorInv, TrackersMirrored
<1>. QED
  BY <1>2, <1>3 DEF MirrorInv

LEMMA FaultCuts ==
  ASSUME TypeInv, Fault
  PROVE  \/ cut' /\ UNCHANGED postgres
         \/ pgCut' /\ UNCHANGED sqlite
<1>0. Named(tables) /\ Named(pgTables) /\ cut \in BOOLEAN /\ pgCut \in BOOLEAN
  BY DEF TypeInv, TablesOK
<1>. QED
  BY <1>0, SqliteOthers, PostgresOthers DEF Fault

LEMMA MirrorStep ==
  ASSUME TypeInv, MirrorInv, [Next]_vars
  PROVE  MirrorInv'
<1>1. CASE UNCHANGED <<sqlite, postgres>>
  BY <1>1 DEF MirrorInv, sqlite, postgres
<1>2. CASE Fault
  BY <1>2, FaultOK, FaultCuts DEF MirrorInv
<1>. QED
  BY <1>1, <1>2, CallMirror, KeysMirror, StatementsMirror DEF Next, Migrate, StopMigrating, Tick, vars

LEMMA MirrorStart == Init => MirrorInv
<1>. SUFFICES ASSUME Init PROVE MirrorInv
  OBVIOUS
<1>1. /\ tables = EmptyTables /\ pgTables = EmptyTables
      /\ jobs = [c \in Callers |-> Idle] /\ pgJobs = [c \in Callers |-> Idle]
  BY DEF Init, S!Init, P!Init, EmptyTables, S!EmptyTables, P!EmptyTables, Callers, S!Callers,
         P!Callers, Idle, S!Idle, P!Idle
<1>2. IsFiniteSet({})
  BY FS_EmptySet
<1>. QED
  BY <1>1, <1>2 DEF MirrorInv, EmptyTables, DevicesMirrored, StatesMirrored, KeysMirrored,
     PersonsMirrored, TrackersMirrored, Mirrored

LEMMA MirrorAlways == Spec => []MirrorInv
  BY MirrorStart, MirrorStep, TypeAlways, PTL DEF Spec

-----------------------------------------------------------------------------
\* The two stores answer the same

\* The functions the two instances inherit are one.
LEMMA SameCardinality == \A rows : S!Cardinality(rows) = P!Cardinality(rows)
  BY DEF S!Cardinality, P!Cardinality

LEMMA SameSetToSeq == \A rows : S!SetToSeq(rows) = P!SetToSeq(rows)
  BY SameCardinality DEF S!SetToSeq, P!SetToSeq, S!IsInjective, P!IsInjective

LEMMA DevicesLoaded ==
  ASSUME TypeInv, MirrorInv
  PROVE  {[x EXCEPT !.row = Stamped(@)] : x \in S!LoadAllDevices} = P!LoadAllDevices
<1>1. ASSUME NEW d \in Devices
      PROVE  /\ tables.devices[d] = NoRow <=> pgTables.devices[d] = NoRow
             /\ tables.devices[d] # NoRow =>
                  [S!DeviceOf(d) EXCEPT !.row = Stamped(@)] = P!DeviceOf(d)
  <2>1. pgTables.devices[d] = Mirrored(tables.devices[d]) /\ tables.devices[d] \in DeviceRow \cup {NoRow}
    BY DEF MirrorInv, DevicesMirrored, TypeInv, TablesOK, DevicesOK
  <2>2. CASE tables.devices[d] = NoRow
    BY <2>1, <2>2 DEF Mirrored
  <2>3. CASE tables.devices[d] # NoRow
    <3>1. /\ tables.devices[d] \in DeviceRow /\ pgTables.devices[d] = InMicros(tables.devices[d])
          /\ pgTables.devices[d] # NoRow
      BY <2>1, <2>3, MirroredRow, MicrosTyped, MarkersTold
    <3>2. Stamped(tables.devices[d]) = InMicros(tables.devices[d])
      BY <3>1 DEF Stamped, InMicros, DeviceRow
    <3>. QED
      BY <2>3, <3>1, <3>2 DEF S!DeviceOf, P!DeviceOf
  <2>. QED
    BY <2>2, <2>3
<1>. QED
  BY <1>1 DEF S!LoadAllDevices, P!LoadAllDevices

LEMMA GroupsLoaded == MirrorInv => S!LoadAllGroups = P!LoadAllGroups
  BY SameSetToSeq DEF MirrorInv, DevicesMirrored, S!LoadAllGroups, P!LoadAllGroups,
     S!MembersInOrder, P!MembersInOrder, S!SetToSortSeq, P!SetToSortSeq

LEMMA StatesLoaded ==
  ASSUME TypeInv, MirrorInv, NEW a \in Automations
  PROVE  LET state == S!LoadRuntimeState(a) IN
         P!LoadRuntimeState(a) =
           IF state = NoRow THEN NoRow
           ELSE [Stamped(state) EXCEPT !.scheduled = MicrosIfAny(@)]
<1>1. tables.runtimeState[a] \in StateRow \cup {NoRow}
  BY DEF TypeInv, TablesOK, StatesOK
<1>2. pgTables.runtimeState[a] =
        IF tables.runtimeState[a] = NoRow THEN NoRow ELSE StateInMicros(tables.runtimeState[a])
  BY DEF MirrorInv, StatesMirrored
<1>3. \A state \in StateRow :
        [Stamped(state) EXCEPT !.scheduled = MicrosIfAny(@)] = StateInMicros(state)
  BY DEF Stamped, StateInMicros, StateRow
<1>. QED
  BY <1>1, <1>2, <1>3 DEF S!LoadRuntimeState, P!LoadRuntimeState

LEMMA KeysLoaded ==
  ASSUME TypeInv, MirrorInv
  PROVE  /\ {[k EXCEPT !.used = MicrosIfAny(@)] : k \in S!ListKeys} = P!ListKeys
         /\ \A p \in Persons : Cardinality(S!ListKeysOfPerson(p)) = Cardinality(P!ListKeysOfPerson(p))
<1>0. /\ tables.apiKeys \subseteq KeyRow /\ IsFiniteSet(tables.apiKeys)
      /\ \A k, l \in tables.apiKeys : k.id = l.id => k = l
      /\ pgTables.apiKeys = {KeyInMicros(k) : k \in tables.apiKeys}
  BY DEF TypeInv, TablesOK, KeysOK, MirrorInv, KeysMirrored
<1>1. {[k EXCEPT !.used = MicrosIfAny(@)] : k \in S!ListKeys} = P!ListKeys
  BY <1>0 DEF KeyInMicros, MicrosIfAny, S!ListKeys, P!ListKeys
<1>2. ASSUME NEW p \in Persons
      PROVE  Cardinality(S!ListKeysOfPerson(p)) = Cardinality(P!ListKeysOfPerson(p))
  <2>. DEFINE mine == S!ListKeysOfPerson(p)
              other == P!ListKeysOfPerson(p)
              f == [k \in mine |-> KeyInMicros(k)]
  <2>1. \A k \in tables.apiKeys : KeyInMicros(k).id = k.id /\ KeyInMicros(k).person = k.person
    BY <1>0, KeyMirrored
  <2>2. mine = {k \in tables.apiKeys : k.person = p} /\ other = {k \in pgTables.apiKeys : k.person = p}
    BY DEF S!ListKeysOfPerson, P!ListKeysOfPerson
  <2>3. IsFiniteSet(mine)
    BY <1>0, <2>2, FS_Subset
  <2>4. other = {KeyInMicros(k) : k \in mine}
    BY <1>0, <2>1, <2>2
  <2>5. \A k, l \in mine : KeyInMicros(k) = KeyInMicros(l) => k = l
    BY <1>0, <2>1, <2>2
  <2>. HIDE DEF mine, other
  <2>6. f \in Bijection(mine, other)
    BY <2>4, <2>5 DEF Bijection, Injection, Surjection, IsInjective
  <2>7. Cardinality(other) = Cardinality(mine)
    <3>1. ExistsBijection(mine, other)
      BY <2>6 DEF ExistsBijection
    <3>. QED
      BY <2>3, <3>1, FS_Bijection
  <2>. QED
    BY <2>7 DEF mine, other
<1>. QED
  BY <1>1, <1>2

LEMMA PersonsLoaded ==
  ASSUME TypeInv, MirrorInv, Quiet
  PROVE  /\ S!LoadAllZones = P!LoadAllZones
         /\ ~cut /\ ~pgCut => S!LoadAllPersons = P!LoadAllPersons
<1>0. tables.persons = pgTables.persons /\ tables.zones = pgTables.zones
  BY DEF MirrorInv, PersonsMirrored
<1>1. S!LoadAllZones = P!LoadAllZones
  BY <1>0 DEF S!LoadAllZones, P!LoadAllZones, S!ZoneOf, P!ZoneOf
<1>2. ASSUME ~cut, ~pgCut PROVE S!LoadAllPersons = P!LoadAllPersons
  <2>1. tables.trackers = pgTables.trackers
    BY <1>2, IdleOwes, Callable DEF MirrorInv, TrackersMirrored, Quiet
  <2>2. \A p : S!TrackersInOrder(p) = P!TrackersInOrder(p)
    BY <2>1, SameSetToSeq DEF S!TrackersInOrder, P!TrackersInOrder, S!SetToSortSeq, P!SetToSortSeq
  <2>. QED
    BY <1>0, <2>2 DEF S!LoadAllPersons, P!LoadAllPersons, S!PersonOf, P!PersonOf
<1>. QED
  BY <1>1, <1>2

\* "Mirrors store-sql/sqlite.rs" (postgres.rs:3): whatever was called, and
\* although statements fail and servers stop half-way through a call, the next
\* start loads the same devices, rooms, groups, runtime states, keys and zones
\* from either store, and the same persons unless a call was cut short.
THEOREM SameStateAlways == Spec => []SameState
<1>1. TypeInv /\ MirrorInv => SameState
  <2>. SUFFICES ASSUME TypeInv, MirrorInv, Quiet PROVE SameState
    BY DEF SameState
  <2>1. S!LoadAllRooms = P!LoadAllRooms
    BY DEF MirrorInv, DevicesMirrored, S!LoadAllRooms, P!LoadAllRooms
  <2>. QED
    BY <2>1, DevicesLoaded, GroupsLoaded, StatesLoaded, KeysLoaded, PersonsLoaded DEF SameState
<1>. QED
  BY <1>1, TypeAlways, MirrorAlways, PTL

-----------------------------------------------------------------------------
\* The history ends with the present

Latest(rows) == {r \in rows : \A s \in rows : s.at <= r.at}

SnapshotsOf(t, d) == {r \in t.deviceHistory : r.device = d}
ValuesOf(t, d, a) == {r \in t.attributeHistory : r.device = d /\ r.attribute = a}

\* The parts of TailTells, up to a limit before which all may be pruned.
SnapshotTells(cfg, t, d, limit) ==
  \/ \E r \in Latest(SnapshotsOf(t, d)) :
       /\ r.at = t.devices[d].at /\ r.snapshot.attrs = t.devices[d].attrs
       /\ t.devices[d].room \in {r.snapshot.room, NoRoom}
  \/ cfg.retention # Forever /\ t.devices[d].at < limit

ValueTells(cfg, t, d, a) ==
  IF ValuesOf(t, d, a) = {} THEN cfg.retention # Forever
                            ELSE \A r \in Latest(ValuesOf(t, d, a)) : r.value = t.devices[d].attrs[a]

Tells(cfg, t, d, limit) ==
  t.devices[d] # NoRow =>
    /\ RecordsDevice(cfg.selection, d) => SnapshotTells(cfg, t, d, limit)
    /\ \A a \in Present(t.devices[d]) : RecordsAttribute(cfg.selection, d, a) => ValueTells(cfg, t, d, a)

\* No row of the history is later than the clock or than its device's row.
Bounded(devices, rows, time) ==
  \A r \in rows : r.at <= time /\ (devices[r.device] # NoRow => r.at <= devices[r.device].at)

InBounds(t, time) ==
  /\ \A d \in Devices : t.devices[d] # NoRow => t.devices[d].at <= time
  /\ Bounded(t.devices, t.deviceHistory, time) /\ Bounded(t.devices, t.attributeHistory, time)

IsSaving(job) == job.step \in {"snapshot", "attributes"}

\* What a save under way has still to record, and no more.
SaveTells(cfg, t, job, limit) ==
  /\ job.step = "snapshot" =>
       /\ RecordsDevice(cfg.selection, job.device) /\ job.prev = job.row
            => SnapshotTells(cfg, t, job.device, limit)
       /\ \A a \in Present(job.row) \ Changed(cfg.selection, job) :
            RecordsAttribute(cfg.selection, job.device, a) => ValueTells(cfg, t, job.device, a)
  /\ job.step = "attributes" =>
       /\ RecordsDevice(cfg.selection, job.device) => SnapshotTells(cfg, t, job.device, limit)
       /\ \A a \in Present(job.row) \ job.left :
            RecordsAttribute(cfg.selection, job.device, a) => ValueTells(cfg, t, job.device, a)

AllTell(cfg, t, job, limit) ==
  /\ \A d \in Devices : Tells(cfg, t, d, limit) \/ (IsSaving(job) /\ d = job.device)
  /\ SaveTells(cfg, t, job, limit)

PrunesInTime(cfg, js, limit) ==
  \A c \in Callers : js[c].step \in {"pruneDevices", "pruneAttributes"} =>
    cfg.retention # Forever /\ js[c].cutoff <= limit

\* The row a store keeps of a save under way is the one it was called with.
RowKept(t, job) ==
  IsSaving(job) => /\ job.device \in Devices /\ t.devices[job.device] # NoRow
                   /\ t.devices[job.device].room = job.row.room
                   /\ t.devices[job.device].attrs = job.row.attrs

Told(cfg, t, js, broken, time, limit) ==
  /\ InBounds(t, time)
  /\ RowKept(t, js[Worker])
  /\ PrunesInTime(cfg, js, limit)
  /\ cfg.enabled /\ ~broken => AllTell(cfg, t, js[Worker], limit)

SqliteHistory ==
  /\ Told(config, tables, jobs, cut, now, Cutoff)
  /\ IsSaving(jobs[Worker]) => tables.devices[jobs[Worker].device].at = jobs[Worker].row.at

PostgresHistory ==
  /\ Told(config, pgTables, pgJobs, pgCut, Micros(now), Cutoff)
  /\ IsSaving(pgJobs[Worker]) => pgTables.devices[pgJobs[Worker].device].at = Micros(pgJobs[Worker].row.at)

\* What the parts of the invariant read.
LEMMA TellsSame ==
  ASSUME NEW t, NEW u, u.devices = t.devices, u.deviceHistory = t.deviceHistory,
         u.attributeHistory = t.attributeHistory
  PROVE  /\ \A time : InBounds(u, time) <=> InBounds(t, time)
         /\ \A job : RowKept(u, job) <=> RowKept(t, job)
         /\ \A cfg, job, limit : AllTell(cfg, u, job, limit) <=> AllTell(cfg, t, job, limit)
<1>1. \A d : SnapshotsOf(u, d) = SnapshotsOf(t, d) /\ \A a : ValuesOf(u, d, a) = ValuesOf(t, d, a)
  BY DEF SnapshotsOf, ValuesOf
<1>2. \A cfg, d, limit : SnapshotTells(cfg, u, d, limit) <=> SnapshotTells(cfg, t, d, limit)
  BY <1>1 DEF SnapshotTells
<1>3. \A cfg, d, a : ValueTells(cfg, u, d, a) <=> ValueTells(cfg, t, d, a)
  BY <1>1 DEF ValueTells
<1>4. \A cfg, d, limit : Tells(cfg, u, d, limit) <=> Tells(cfg, t, d, limit)
  BY <1>2, <1>3 DEF Tells
<1>5. \A cfg, job, limit : SaveTells(cfg, u, job, limit) <=> SaveTells(cfg, t, job, limit)
  BY <1>2, <1>3 DEF SaveTells
<1>. QED
  BY <1>4, <1>5 DEF AllTell, InBounds, RowKept

LEMMA DeviceAt ==
  ASSUME NEW t, DevicesOK(t), NEW d \in Devices, t.devices[d] # NoRow
  PROVE  t.devices[d] \in DeviceRow /\ t.devices[d].at \in Nat
  BY DEF DevicesOK, DeviceRow

\* What is told of every device is told when the parts of it are.
LEMMA TellsByParts ==
  ASSUME NEW cfg, NEW t, NEW u, NEW job, NEW limit, NEW later, u.devices = t.devices, RowKept(t, job),
         \A d \in Devices : t.devices[d] # NoRow =>
           /\ SnapshotTells(cfg, t, d, limit) => SnapshotTells(cfg, u, d, later)
           /\ \A a : ValueTells(cfg, t, d, a) => ValueTells(cfg, u, d, a),
         AllTell(cfg, t, job, limit)
  PROVE  AllTell(cfg, u, job, later)
<1>1. \A d \in Devices : Tells(cfg, t, d, limit) => Tells(cfg, u, d, later)
  BY DEF Tells
<1>2. SaveTells(cfg, u, job, later)
  BY DEF AllTell, SaveTells, RowKept, IsSaving
<1>. QED
  BY <1>1, <1>2 DEF AllTell

\* Time passes.
LEMMA TellsLater ==
  ASSUME NEW cfg, NEW t, NEW job, DevicesOK(t), RowKept(t, job), NEW limit \in Int, NEW later \in Int,
         limit <= later, AllTell(cfg, t, job, limit)
  PROVE  AllTell(cfg, t, job, later)
<1>1. ASSUME NEW d \in Devices, t.devices[d] # NoRow, SnapshotTells(cfg, t, d, limit)
      PROVE  SnapshotTells(cfg, t, d, later)
  BY <1>1, DeviceAt DEF SnapshotTells
<1>. QED
  BY <1>1, TellsByParts

LEMMA BoundsLater ==
  ASSUME NEW t, DevicesOK(t), HistoryOK(t), NEW time \in Nat, NEW later \in Nat, time <= later, InBounds(t, time)
  PROVE  InBounds(t, later)
<1>1. \A d \in Devices : t.devices[d] # NoRow => t.devices[d].at <= later
  BY DeviceAt DEF InBounds
<1>2. /\ \A r \in t.deviceHistory : r.at \in Nat
      /\ \A r \in t.attributeHistory : r.at \in Nat
  BY DEF HistoryOK, Snapshot, Value
<1>. QED
  BY <1>1, <1>2 DEF InBounds, Bounded

\* Between two saves nothing is left to record.
LEMMA TellsBetween ==
  ASSUME NEW cfg, NEW t, NEW job, NEW other, NEW limit, ~IsSaving(job), ~IsSaving(other),
         AllTell(cfg, t, job, limit)
  PROVE  AllTell(cfg, t, other, limit)
  BY DEF AllTell, SaveTells, IsSaving

-----------------------------------------------------------------------------
\* What the statements of a save and of a prune do to what the history tells

\* A snapshot of the present row.
LEMMA SnapshotTold ==
  ASSUME NEW cfg, NEW t, NEW u, DevicesOK(t), HistoryOK(t), NEW time, NEW limit, InBounds(t, time),
         NEW row \in Snapshot, SnapshotKept(t, u, row),
         t.devices[row.device] # NoRow, row.at = t.devices[row.device].at,
         row.snapshot.attrs = t.devices[row.device].attrs, row.snapshot.room = t.devices[row.device].room
  PROVE  /\ InBounds(u, time) /\ SnapshotTells(cfg, u, row.device, limit)
         /\ \A d : SnapshotTells(cfg, t, d, limit) => SnapshotTells(cfg, u, d, limit)
         /\ \A d, a : ValueTells(cfg, t, d, a) => ValueTells(cfg, u, d, a)
<1>1. /\ u.devices = t.devices /\ u.attributeHistory = t.attributeHistory
      /\ u.deviceHistory = {r \in t.deviceHistory : ~(r.device = row.device /\ r.at = row.at)} \cup {row}
  BY DEF SnapshotKept, Only
<1>2. /\ \A r \in t.deviceHistory : r.at \in Nat /\ r.device \in Devices
      /\ row.at \in Nat /\ row.device \in Devices
  BY DEF HistoryOK, Snapshot
<1>3. InBounds(u, time)
  BY <1>1, <1>2 DEF InBounds, Bounded
<1>4. row \in Latest(SnapshotsOf(u, row.device))
  BY <1>1, <1>2 DEF Latest, SnapshotsOf, InBounds, Bounded
<1>5. SnapshotTells(cfg, u, row.device, limit)
  BY <1>1, <1>4 DEF SnapshotTells
<1>6. ASSUME NEW d, d # row.device, SnapshotTells(cfg, t, d, limit) PROVE SnapshotTells(cfg, u, d, limit)
  <2>1. SnapshotsOf(u, d) = SnapshotsOf(t, d)
    BY <1>1, <1>6 DEF SnapshotsOf
  <2>. QED
    BY <1>1, <1>6, <2>1 DEF SnapshotTells
<1>7. ASSUME NEW d, NEW a, ValueTells(cfg, t, d, a) PROVE ValueTells(cfg, u, d, a)
  <2>1. ValuesOf(u, d, a) = ValuesOf(t, d, a)
    BY <1>1 DEF ValuesOf
  <2>. QED
    BY <1>1, <1>7, <2>1 DEF ValueTells
<1>. QED
  BY <1>3, <1>5, <1>6, <1>7

\* An attribute of the present row.
LEMMA ValueTold ==
  ASSUME NEW cfg, NEW t, NEW u, DevicesOK(t), HistoryOK(t), NEW time, NEW limit, InBounds(t, time),
         NEW row \in Value, ValueKept(t, u, row),
         t.devices[row.device] # NoRow, row.at = t.devices[row.device].at,
         row.value = t.devices[row.device].attrs[row.attribute]
  PROVE  /\ InBounds(u, time) /\ ValueTells(cfg, u, row.device, row.attribute)
         /\ \A d : SnapshotTells(cfg, t, d, limit) => SnapshotTells(cfg, u, d, limit)
         /\ \A d, a : ValueTells(cfg, t, d, a) => ValueTells(cfg, u, d, a)
<1>1. /\ u.devices = t.devices /\ u.deviceHistory = t.deviceHistory
      /\ u.attributeHistory = {r \in t.attributeHistory :
           ~(r.device = row.device /\ r.attribute = row.attribute /\ r.at = row.at)} \cup {row}
  BY DEF ValueKept, Only
<1>2. /\ \A r \in t.attributeHistory : r.at \in Nat /\ r.device \in Devices
      /\ row.at \in Nat /\ row.device \in Devices
  BY DEF HistoryOK, Value
<1>3. InBounds(u, time)
  BY <1>1, <1>2 DEF InBounds, Bounded
<1>4. \A r \in Latest(ValuesOf(u, row.device, row.attribute)) : r = row
  <2>1. row \in ValuesOf(u, row.device, row.attribute)
    BY <1>1 DEF ValuesOf
  <2>2. ASSUME NEW r \in Latest(ValuesOf(u, row.device, row.attribute)) PROVE r = row
    <3>1. /\ r \in u.attributeHistory /\ r.device = row.device /\ r.attribute = row.attribute
          /\ row.at <= r.at
      BY <2>1 DEF Latest, ValuesOf
    <3>2. CASE r \in t.attributeHistory /\ r.at # row.at
      <4>1. r.at <= row.at /\ r.at \in Nat
        BY <1>2, <3>1, <3>2 DEF InBounds, Bounded
      <4>. QED
        BY <1>2, <3>1, <3>2, <4>1
    <3>. QED
      BY <1>1, <3>1, <3>2
  <2>. QED
    BY <2>2
<1>5. ValueTells(cfg, u, row.device, row.attribute)
  <2>1. ValuesOf(u, row.device, row.attribute) # {}
    BY <1>1 DEF ValuesOf
  <2>. QED
    BY <1>1, <1>4, <2>1 DEF ValueTells
<1>6. ASSUME NEW d, NEW a, ~(d = row.device /\ a = row.attribute), ValueTells(cfg, t, d, a)
      PROVE  ValueTells(cfg, u, d, a)
  <2>1. ValuesOf(u, d, a) = ValuesOf(t, d, a)
    BY <1>1, <1>6 DEF ValuesOf
  <2>. QED
    BY <1>1, <1>6, <2>1 DEF ValueTells
<1>7. ASSUME NEW d, SnapshotTells(cfg, t, d, limit) PROVE SnapshotTells(cfg, u, d, limit)
  <2>1. SnapshotsOf(u, d) = SnapshotsOf(t, d)
    BY <1>1 DEF SnapshotsOf
  <2>. QED
    BY <1>1, <1>7, <2>1 DEF SnapshotTells
<1>. QED
  BY <1>3, <1>5, <1>6, <1>7

\* Rows before a cutoff are removed.
Since(rows, cutoff) == {r \in rows : r.at >= cutoff}

LEMMA SnapshotsPruned ==
  ASSUME NEW cfg, NEW t, NEW u, DevicesOK(t), HistoryOK(t), NEW time, NEW limit \in Int, NEW cutoff \in Int,
         InBounds(t, time), cutoff <= limit, cfg.retention # Forever,
         Only(t, u, {"deviceHistory"}), u.deviceHistory = Since(t.deviceHistory, cutoff)
  PROVE  /\ InBounds(u, time) /\ u.devices = t.devices
         /\ \A d : SnapshotTells(cfg, t, d, limit) => SnapshotTells(cfg, u, d, limit)
         /\ \A d, a : ValueTells(cfg, t, d, a) => ValueTells(cfg, u, d, a)
<1>1. /\ u.devices = t.devices /\ u.attributeHistory = t.attributeHistory
      /\ u.deviceHistory = {r \in t.deviceHistory : r.at >= cutoff}
      /\ \A r \in t.deviceHistory : r.at \in Nat
  BY DEF Only, Since, HistoryOK, Snapshot
<1>2. InBounds(u, time)
  BY <1>1 DEF InBounds, Bounded
<1>3. ASSUME NEW d, SnapshotTells(cfg, t, d, limit) PROVE SnapshotTells(cfg, u, d, limit)
  <2>1. CASE cfg.retention # Forever /\ t.devices[d].at < limit
    BY <1>1, <2>1 DEF SnapshotTells
  <2>2. CASE \E r \in Latest(SnapshotsOf(t, d)) :
               /\ r.at = t.devices[d].at /\ r.snapshot.attrs = t.devices[d].attrs
               /\ t.devices[d].room \in {r.snapshot.room, NoRoom}
    <3>1. PICK r \in Latest(SnapshotsOf(t, d)) :
               /\ r.at = t.devices[d].at /\ r.snapshot.attrs = t.devices[d].attrs
               /\ t.devices[d].room \in {r.snapshot.room, NoRoom}
      BY <2>2
    <3>2. r \in t.deviceHistory /\ r.device = d /\ r.at \in Nat
      BY <1>1 DEF Latest, SnapshotsOf
    <3>3. CASE r.at >= cutoff
      <4>1. r \in Latest(SnapshotsOf(u, d))
        BY <1>1, <3>2, <3>3 DEF Latest, SnapshotsOf
      <4>. QED
        BY <1>1, <3>1, <4>1 DEF SnapshotTells
    <3>4. CASE ~(r.at >= cutoff)
      <4>1. r.at < limit
        BY <3>2, <3>4
      <4>. QED
        BY <1>1, <3>1, <4>1 DEF SnapshotTells
    <3>. QED
      BY <3>3, <3>4
  <2>. QED
    BY <1>3, <2>1, <2>2 DEF SnapshotTells
<1>4. ASSUME NEW d, NEW a, ValueTells(cfg, t, d, a) PROVE ValueTells(cfg, u, d, a)
  <2>1. ValuesOf(u, d, a) = ValuesOf(t, d, a)
    BY <1>1 DEF ValuesOf
  <2>. QED
    BY <1>1, <1>4, <2>1 DEF ValueTells
<1>. QED
  BY <1>1, <1>2, <1>3, <1>4

LEMMA ValuesPruned ==
  ASSUME NEW cfg, NEW t, NEW u, DevicesOK(t), HistoryOK(t), NEW time, NEW limit, NEW cutoff \in Int,
         InBounds(t, time), cfg.retention # Forever,
         Only(t, u, {"attributeHistory"}), u.attributeHistory = Since(t.attributeHistory, cutoff)
  PROVE  /\ InBounds(u, time) /\ u.devices = t.devices
         /\ \A d : SnapshotTells(cfg, t, d, limit) => SnapshotTells(cfg, u, d, limit)
         /\ \A d, a : ValueTells(cfg, t, d, a) => ValueTells(cfg, u, d, a)
<1>1. /\ u.devices = t.devices /\ u.deviceHistory = t.deviceHistory
      /\ u.attributeHistory = {r \in t.attributeHistory : r.at >= cutoff}
      /\ \A r \in t.attributeHistory : r.at \in Nat
  BY DEF Only, Since, HistoryOK, Value
<1>2. InBounds(u, time)
  BY <1>1 DEF InBounds, Bounded
<1>3. ASSUME NEW d, SnapshotTells(cfg, t, d, limit) PROVE SnapshotTells(cfg, u, d, limit)
  <2>1. SnapshotsOf(u, d) = SnapshotsOf(t, d)
    BY <1>1 DEF SnapshotsOf
  <2>. QED
    BY <1>1, <1>3, <2>1 DEF SnapshotTells
<1>4. ASSUME NEW d, NEW a, ValueTells(cfg, t, d, a) PROVE ValueTells(cfg, u, d, a)
  <2>1. ASSUME NEW r \in Latest(ValuesOf(u, d, a)) PROVE r \in Latest(ValuesOf(t, d, a))
    <3>1. r \in ValuesOf(t, d, a) /\ r.at >= cutoff /\ r.at \in Nat
      BY <1>1, <2>1 DEF Latest, ValuesOf
    <3>2. ASSUME NEW s \in ValuesOf(t, d, a) PROVE s.at <= r.at
      <4>1. s.at \in Nat /\ (s.at >= cutoff => s \in ValuesOf(u, d, a))
        BY <1>1, <3>2 DEF ValuesOf
      <4>2. CASE s.at >= cutoff
        BY <2>1, <4>1, <4>2 DEF Latest
      <4>3. CASE ~(s.at >= cutoff)
        BY <3>1, <4>1, <4>3
      <4>. QED
        BY <4>2, <4>3
    <3>. QED
      BY <3>1, <3>2 DEF Latest
  <2>2. CASE ValuesOf(u, d, a) = {}
    BY <2>2 DEF ValueTells
  <2>3. CASE ValuesOf(u, d, a) # {}
    <3>1. ValuesOf(t, d, a) # {}
      BY <1>1, <2>3 DEF ValuesOf
    <3>. QED
      BY <1>1, <1>4, <2>1, <2>3, <3>1 DEF ValueTells
  <2>. QED
    BY <2>2, <2>3
<1>. QED
  BY <1>1, <1>2, <1>3, <1>4

\* What is told of a device depends on its row and on the history.
LEMMA RowTells ==
  ASSUME NEW cfg, NEW t, NEW u, NEW d, NEW limit, u.deviceHistory = t.deviceHistory,
         u.attributeHistory = t.attributeHistory, u.devices[d] = t.devices[d]
  PROVE  /\ SnapshotTells(cfg, t, d, limit) => SnapshotTells(cfg, u, d, limit)
         /\ \A a : ValueTells(cfg, t, d, a) => ValueTells(cfg, u, d, a)
         /\ Tells(cfg, t, d, limit) => Tells(cfg, u, d, limit)
<1>1. SnapshotsOf(u, d) = SnapshotsOf(t, d) /\ \A a : ValuesOf(u, d, a) = ValuesOf(t, d, a)
  BY DEF SnapshotsOf, ValuesOf
<1>2. SnapshotTells(cfg, t, d, limit) => SnapshotTells(cfg, u, d, limit)
  BY <1>1 DEF SnapshotTells
<1>3. \A a : ValueTells(cfg, t, d, a) => ValueTells(cfg, u, d, a)
  BY <1>1 DEF ValueTells
<1>. QED
  BY <1>2, <1>3 DEF Tells

\* A save is left with what the history does not tell of the new row.
LEMMA SaveStarts ==
  ASSUME NEW cfg, NEW t, NEW u, DevicesOK(t), HistoryOK(t), NEW time \in Nat, InBounds(t, time),
         NEW d \in Devices, NEW row \in DeviceRow, NEW stored \in DeviceRow,
         stored.room = row.room, stored.attrs = row.attrs, DeviceSaved(t, u, d, stored),
         stored.at = time \/ (t.devices[d] # NoRow /\ stored.at = t.devices[d].at),
         t.devices[d] = row => stored = row
  PROVE  /\ InBounds(u, time)
         /\ RowKept(u, Saves(d, row, t.devices[d]))
         /\ \A job, limit : ~IsSaving(job) /\ AllTell(cfg, t, job, limit)
              => AllTell(cfg, u, Saves(d, row, t.devices[d]), limit)
<1>1. /\ u.devices[d] = stored /\ \A e \in Devices : e # d => u.devices[e] = t.devices[e]
      /\ u.deviceHistory = t.deviceHistory /\ u.attributeHistory = t.attributeHistory
  BY DEF DeviceSaved, Only, DevicesOK
<1>2. stored.at \in Nat /\ stored # NoRow /\ row # NoRow
  BY MarkersTold DEF DeviceRow
<1>3. /\ \A r \in t.deviceHistory : r.at \in Nat /\ r.device \in Devices
      /\ \A r \in t.attributeHistory : r.at \in Nat /\ r.device \in Devices
  BY DEF HistoryOK, Snapshot, Value
<1>4. InBounds(u, time)
  <2>1. ASSUME NEW e \in Devices, u.devices[e] # NoRow PROVE u.devices[e].at <= time
    BY <1>1, <1>2, <2>1 DEF InBounds
  <2>2. ASSUME NEW r, r.at \in Nat, r.device \in Devices, r.at <= time,
               t.devices[r.device] # NoRow => r.at <= t.devices[r.device].at,
               u.devices[r.device] # NoRow
        PROVE  r.at <= u.devices[r.device].at
    BY <1>1, <2>2
  <2>. QED
    BY <1>1, <1>3, <2>1, <2>2 DEF InBounds, Bounded
<1>. DEFINE save == Saves(d, row, t.devices[d])
<1>5. /\ save.step = "snapshot" /\ save.device = d /\ save.row = row /\ save.prev = t.devices[d]
      /\ IsSaving(save)
  BY DEF Saves, IsSaving
<1>. HIDE DEF save
<1>6. RowKept(u, save)
  BY <1>1, <1>2, <1>5 DEF RowKept
<1>7. ASSUME NEW job, NEW limit, ~IsSaving(job), AllTell(cfg, t, job, limit)
      PROVE  AllTell(cfg, u, save, limit)
  <2>1. \A e \in Devices : Tells(cfg, t, e, limit)
    BY <1>7 DEF AllTell
  <2>2. \A e \in Devices : e # d => Tells(cfg, u, e, limit)
    BY <1>1, <2>1, RowTells
  <2>3. ASSUME RecordsDevice(cfg.selection, d), t.devices[d] = row
        PROVE  SnapshotTells(cfg, u, d, limit)
    <3>1. SnapshotTells(cfg, t, d, limit)
      BY <1>2, <2>1, <2>3 DEF Tells
    <3>2. u.devices[d] = t.devices[d]
      BY <1>1, <2>3
    <3>. QED
      BY <1>1, <3>1, <3>2, RowTells
  <2>4. ASSUME NEW a \in Present(row) \ Changed(cfg.selection, save), RecordsAttribute(cfg.selection, d, a)
        PROVE  ValueTells(cfg, u, d, a)
    <3>1. t.devices[d] # NoRow /\ t.devices[d].attrs[a] = row.attrs[a]
      BY <1>5, <2>4 DEF Changed
    <3>2. a \in Present(t.devices[d])
      BY <2>4, <3>1 DEF Present
    <3>3. ValueTells(cfg, t, d, a)
      BY <2>1, <2>4, <3>1, <3>2 DEF Tells
    <3>4. ValuesOf(u, d, a) = ValuesOf(t, d, a) /\ u.devices[d].attrs[a] = t.devices[d].attrs[a]
      BY <1>1, <3>1 DEF ValuesOf
    <3>. QED
      BY <3>3, <3>4 DEF ValueTells
  <2>5. SaveTells(cfg, u, save, limit)
    BY <1>5, <2>3, <2>4 DEF SaveTells
  <2>. QED
    BY <1>5, <2>2, <2>5 DEF AllTell
<1>. QED
  BY <1>4, <1>6, <1>7 DEF save

LEMMA DeviceGone ==
  ASSUME NEW cfg, NEW t, NEW u, DevicesOK(t), HistoryOK(t), NEW time, InBounds(t, time),
         NEW d \in Devices, DeviceDeleted(t, u, d)
  PROVE  /\ InBounds(u, time)
         /\ \A job, limit : ~IsSaving(job) /\ AllTell(cfg, t, job, limit) => AllTell(cfg, u, job, limit)
<1>1. /\ u.devices[d] = NoRow /\ \A e \in Devices : e # d => u.devices[e] = t.devices[e]
      /\ u.deviceHistory = t.deviceHistory /\ u.attributeHistory = t.attributeHistory
  BY DEF DeviceDeleted, Only, DevicesOK
<1>2. /\ \A r \in t.deviceHistory : r.device \in Devices
      /\ \A r \in t.attributeHistory : r.device \in Devices
  BY DEF HistoryOK, Snapshot, Value
<1>3. InBounds(u, time)
  BY <1>1, <1>2 DEF InBounds, Bounded
<1>4. ASSUME NEW job, NEW limit, ~IsSaving(job), AllTell(cfg, t, job, limit)
      PROVE  AllTell(cfg, u, job, limit)
  <2>1. \A e \in Devices : Tells(cfg, t, e, limit)
    BY <1>4 DEF AllTell
  <2>2. \A e \in Devices : e # d => Tells(cfg, u, e, limit)
    BY <1>1, <2>1, RowTells
  <2>3. Tells(cfg, u, d, limit)
    BY <1>1 DEF Tells
  <2>. QED
    BY <1>4, <2>2, <2>3 DEF AllTell, SaveTells, IsSaving
<1>. QED
  BY <1>3, <1>4

\* The devices of a room that is deleted are in no room, and the history does
\* not say otherwise of them than it did.
LEMMA RoomGone ==
  ASSUME NEW cfg, NEW t, NEW u, DevicesOK(t), HistoryOK(t), NEW time, InBounds(t, time),
         NEW room \in Rooms, RoomDeleted(t, u, room)
  PROVE  /\ InBounds(u, time)
         /\ \A job, limit : ~IsSaving(job) /\ AllTell(cfg, t, job, limit) => AllTell(cfg, u, job, limit)
<1>1. /\ \A e \in Devices : u.devices[e] = Left(t.devices[e], room)
      /\ u.deviceHistory = t.deviceHistory /\ u.attributeHistory = t.attributeHistory
  BY DEF RoomDeleted, Only
<1>2. ASSUME NEW e \in Devices
      PROVE  /\ u.devices[e] # NoRow => t.devices[e] # NoRow
             /\ t.devices[e] # NoRow =>
                  /\ u.devices[e].at = t.devices[e].at /\ u.devices[e].attrs = t.devices[e].attrs
                  /\ u.devices[e].room \in {t.devices[e].room, NoRoom}
  <2>1. t.devices[e] \in DeviceRow \cup {NoRow} /\ u.devices[e] = Left(t.devices[e], room)
    BY <1>1 DEF DevicesOK
  <2>. QED
    BY <2>1, MarkersTold DEF Left, DeviceRow
<1>3. /\ \A r \in t.deviceHistory : r.device \in Devices
      /\ \A r \in t.attributeHistory : r.device \in Devices
  BY DEF HistoryOK, Snapshot, Value
<1>4. InBounds(u, time)
  BY <1>1, <1>2, <1>3 DEF InBounds, Bounded
<1>5. ASSUME NEW e \in Devices, NEW limit, Tells(cfg, t, e, limit) PROVE Tells(cfg, u, e, limit)
  <2>1. SUFFICES ASSUME u.devices[e] # NoRow
                 PROVE  /\ RecordsDevice(cfg.selection, e) => SnapshotTells(cfg, u, e, limit)
                        /\ \A a \in Present(u.devices[e]) :
                             RecordsAttribute(cfg.selection, e, a) => ValueTells(cfg, u, e, a)
    BY DEF Tells
  <2>2. /\ t.devices[e] # NoRow /\ u.devices[e].at = t.devices[e].at
        /\ u.devices[e].attrs = t.devices[e].attrs /\ u.devices[e].room \in {t.devices[e].room, NoRoom}
    BY <1>2, <2>1
  <2>3. SnapshotsOf(u, e) = SnapshotsOf(t, e) /\ \A a : ValuesOf(u, e, a) = ValuesOf(t, e, a)
    BY <1>1 DEF SnapshotsOf, ValuesOf
  <2>4. SnapshotTells(cfg, t, e, limit) => SnapshotTells(cfg, u, e, limit)
    BY <2>2, <2>3 DEF SnapshotTells
  <2>5. \A a : ValueTells(cfg, t, e, a) => ValueTells(cfg, u, e, a)
    BY <2>2, <2>3 DEF ValueTells
  <2>6. Present(u.devices[e]) = Present(t.devices[e])
    BY <2>2 DEF Present
  <2>. QED
    BY <1>5, <2>2, <2>4, <2>5, <2>6 DEF Tells
<1>6. ASSUME NEW job, NEW limit, ~IsSaving(job), AllTell(cfg, t, job, limit)
      PROVE  AllTell(cfg, u, job, limit)
  BY <1>5, <1>6 DEF AllTell, SaveTells, IsSaving
<1>. QED
  BY <1>4, <1>6

\* A save records the snapshot of a row that differs, and goes on with the
\* attributes that do.
LEMMA SnapshotStep ==
  ASSUME NEW cfg, NEW t, NEW u, DevicesOK(t), HistoryOK(t), NEW time, InBounds(t, time),
         NEW job \in SnapshotJob, RowKept(t, job), NEW at \in Nat, at = t.devices[job.device].at,
         IF job.prev # job.row /\ RecordsDevice(cfg.selection, job.device)
           THEN SnapshotKept(t, u, SnapshotRow(job, at)) ELSE u = t
  PROVE  LET then == Records(job.device, job.row, Changed(cfg.selection, job)) IN
         /\ InBounds(u, time) /\ RowKept(u, then)
         /\ \A limit : AllTell(cfg, t, job, limit) => AllTell(cfg, u, then, limit)
<1>. DEFINE then == Records(job.device, job.row, Changed(cfg.selection, job))
<1>1. /\ then.step = "attributes" /\ then.device = job.device /\ then.row = job.row
      /\ then.left = Changed(cfg.selection, job) /\ IsSaving(then)
  BY DEF Records, IsSaving
<1>2. job.step = "snapshot" /\ job.device \in Devices /\ job.row \in DeviceRow /\ IsSaving(job)
  BY DEF SnapshotJob, IsSaving
<1>. HIDE DEF then
<1>3. t.devices[job.device] # NoRow /\ t.devices[job.device].room = job.row.room
      /\ t.devices[job.device].attrs = job.row.attrs
  BY <1>2 DEF RowKept
<1>4. /\ InBounds(u, time) /\ u.devices = t.devices
      /\ \A d, limit : SnapshotTells(cfg, t, d, limit) => SnapshotTells(cfg, u, d, limit)
      /\ \A d, a : ValueTells(cfg, t, d, a) => ValueTells(cfg, u, d, a)
      /\ job.prev # job.row /\ RecordsDevice(cfg.selection, job.device)
           => \A limit : SnapshotTells(cfg, u, job.device, limit)
  <2>1. CASE job.prev # job.row /\ RecordsDevice(cfg.selection, job.device)
    <3>1. SnapshotRow(job, at) \in Snapshot
      BY SnapshotTyped
    <3>2. /\ SnapshotRow(job, at).device = job.device /\ SnapshotRow(job, at).at = at
          /\ SnapshotRow(job, at).snapshot = job.row
      BY DEF SnapshotRow
    <3>3. SnapshotKept(t, u, SnapshotRow(job, at)) /\ u.devices = t.devices
      BY <2>1 DEF SnapshotKept, Only
    <3>4. \A limit :
            /\ InBounds(u, time) /\ SnapshotTells(cfg, u, job.device, limit)
            /\ \A d : SnapshotTells(cfg, t, d, limit) => SnapshotTells(cfg, u, d, limit)
            /\ \A d, a : ValueTells(cfg, t, d, a) => ValueTells(cfg, u, d, a)
      BY <1>3, <3>1, <3>2, <3>3, SnapshotTold
    <3>. QED
      BY <3>3, <3>4
  <2>2. CASE ~(job.prev # job.row /\ RecordsDevice(cfg.selection, job.device))
    BY <2>2
  <2>. QED
    BY <2>1, <2>2
<1>5. RowKept(u, then)
  BY <1>1, <1>2, <1>3, <1>4 DEF RowKept
<1>6. ASSUME NEW limit, AllTell(cfg, t, job, limit) PROVE AllTell(cfg, u, then, limit)
  <2>1. \A d \in Devices : d # job.device => Tells(cfg, u, d, limit)
    BY <1>4, <1>6 DEF AllTell, Tells
  <2>2. SaveTells(cfg, u, then, limit)
    BY <1>1, <1>2, <1>4, <1>6 DEF AllTell, SaveTells
  <2>. QED
    BY <1>1, <2>1, <2>2 DEF AllTell
<1>. QED
  BY <1>4, <1>5, <1>6 DEF then

LEMMA ValueStep ==
  ASSUME NEW cfg, NEW t, NEW u, DevicesOK(t), HistoryOK(t), NEW time, InBounds(t, time),
         NEW job \in AttributesJob, RowKept(t, job), NEW at \in Nat, at = t.devices[job.device].at,
         NEW a \in job.left, ValueKept(t, u, ValueRow(job, a, at))
  PROVE  LET then == [job EXCEPT !.left = @ \ {a}] IN
         /\ InBounds(u, time) /\ RowKept(u, then)
         /\ \A limit : AllTell(cfg, t, job, limit) => AllTell(cfg, u, then, limit)
<1>. DEFINE then == [job EXCEPT !.left = @ \ {a}]
<1>1. /\ then.step = "attributes" /\ then.device = job.device /\ then.row = job.row
      /\ then.left = job.left \ {a} /\ IsSaving(then)
  BY DEF AttributesJob, IsSaving
<1>2. job.step = "attributes" /\ job.device \in Devices /\ job.row \in DeviceRow /\ IsSaving(job)
  BY DEF AttributesJob, IsSaving
<1>. HIDE DEF then
<1>3. t.devices[job.device] # NoRow /\ t.devices[job.device].room = job.row.room
      /\ t.devices[job.device].attrs = job.row.attrs
  BY <1>2 DEF RowKept
<1>4. /\ ValueRow(job, a, at) \in Value /\ ValueRow(job, a, at).device = job.device
      /\ ValueRow(job, a, at).at = at /\ ValueRow(job, a, at).attribute = a
      /\ ValueRow(job, a, at).value = job.row.attrs[a]
  BY ValueTyped DEF ValueRow
<1>5. \A limit :
        /\ InBounds(u, time) /\ ValueTells(cfg, u, job.device, a)
        /\ \A d : SnapshotTells(cfg, t, d, limit) => SnapshotTells(cfg, u, d, limit)
        /\ \A d, b : ValueTells(cfg, t, d, b) => ValueTells(cfg, u, d, b)
  <2>. DEFINE row == ValueRow(job, a, at)
  <2>1. /\ row \in Value /\ row.device = job.device /\ row.attribute = a /\ ValueKept(t, u, row)
        /\ row.at = t.devices[row.device].at /\ t.devices[row.device] # NoRow
        /\ row.value = t.devices[row.device].attrs[row.attribute]
    BY <1>3, <1>4
  <2>. HIDE DEF row
  <2>. SUFFICES ASSUME NEW limit
                PROVE  /\ InBounds(u, time) /\ ValueTells(cfg, u, row.device, row.attribute)
                       /\ \A d : SnapshotTells(cfg, t, d, limit) => SnapshotTells(cfg, u, d, limit)
                       /\ \A d, b : ValueTells(cfg, t, d, b) => ValueTells(cfg, u, d, b)
    BY <2>1
  <2>. QED
    BY <2>1, ValueTold
<1>6. u.devices = t.devices
  BY DEF ValueKept, Only
<1>7. RowKept(u, then)
  BY <1>1, <1>2, <1>3, <1>6 DEF RowKept
<1>8. ASSUME NEW limit, AllTell(cfg, t, job, limit) PROVE AllTell(cfg, u, then, limit)
  <2>1. \A d \in Devices : d # job.device => Tells(cfg, u, d, limit)
    BY <1>5, <1>6, <1>8 DEF AllTell, Tells
  <2>2. SaveTells(cfg, u, then, limit)
    BY <1>1, <1>2, <1>5, <1>8 DEF AllTell, SaveTells
  <2>. QED
    BY <1>1, <2>1, <2>2 DEF AllTell
<1>. QED
  BY <1>5, <1>7, <1>8 DEF then

\* When nothing is left, the history tells the row that was saved.
LEMMA SaveEnds ==
  ASSUME NEW cfg, NEW t, NEW job \in AttributesJob, job.left = {}, RowKept(t, job), NEW other, ~IsSaving(other),
         NEW limit, AllTell(cfg, t, job, limit)
  PROVE  AllTell(cfg, t, other, limit)
<1>1. job.step = "attributes" /\ IsSaving(job)
  BY DEF AttributesJob, IsSaving
<1>2. Present(t.devices[job.device]) = Present(job.row)
  BY <1>1 DEF RowKept, Present
<1>3. \A d \in Devices : Tells(cfg, t, d, limit)
  BY <1>1, <1>2 DEF AllTell, SaveTells, Tells
<1>. QED
  BY <1>3 DEF AllTell, SaveTells, IsSaving

-----------------------------------------------------------------------------
\* The steps keep what the history tells, whichever store executes them

SameRows(t, u) ==
  /\ u.devices = t.devices /\ u.deviceHistory = t.deviceHistory
  /\ u.attributeHistory = t.attributeHistory

\* Calls that prune are issued with a cutoff that has been reached.
MayPrune(cfg, job, limit) ==
  job.step \in {"pruneDevices", "pruneAttributes"} => cfg.retention # Forever /\ job.cutoff <= limit

LEMMA PrunesSet ==
  ASSUME NEW cfg, NEW js, NEW ks, NEW c \in Callers, NEW job, NEW limit, JobsOK(js), Then(js, ks, c, job),
         PrunesInTime(cfg, js, limit), MayPrune(cfg, job, limit)
  PROVE  PrunesInTime(cfg, ks, limit)
  BY DEF PrunesInTime, MayPrune, Then, JobsOK

\* A step that is not of the save.
LEMMA ToldAside ==
  ASSUME NEW cfg, NEW t, NEW u, NEW js, NEW ks, NEW broken, NEW after, NEW time, NEW limit,
         Told(cfg, t, js, broken, time, limit), SameRows(t, u), PrunesInTime(cfg, ks, limit),
         ~after => ~broken,
         \/ ks[Worker] = js[Worker]
         \/ ~IsSaving(ks[Worker]) /\ (after \/ ~IsSaving(js[Worker]))
  PROVE  Told(cfg, u, ks, after, time, limit)
<1>1. /\ InBounds(u, time) <=> InBounds(t, time)
      /\ \A job : RowKept(u, job) <=> RowKept(t, job)
      /\ \A job : AllTell(cfg, u, job, limit) <=> AllTell(cfg, t, job, limit)
  BY TellsSame DEF SameRows
<1>2. RowKept(u, ks[Worker])
  BY <1>1 DEF Told, RowKept
<1>3. ASSUME cfg.enabled, ~after PROVE AllTell(cfg, u, ks[Worker], limit)
  <2>1. AllTell(cfg, t, js[Worker], limit)
    BY <1>3 DEF Told
  <2>. QED
    BY <1>1, <1>3, <2>1, TellsBetween
<1>. QED
  BY <1>1, <1>2, <1>3 DEF Told

LEMMA ToldBetween ==
  ASSUME NEW cfg, NEW t, NEW u, NEW js, NEW ks, NEW c \in Callers, NEW job, NEW broken, NEW after,
         NEW time, NEW limit, JobsOK(js), Then(js, ks, c, job),
         Told(cfg, t, js, broken, time, limit), SameRows(t, u), ~after => ~broken,
         ~IsSaving(job), after \/ ~IsSaving(js[c]), MayPrune(cfg, job, limit)
  PROVE  Told(cfg, u, ks, after, time, limit) /\ (IsSaving(ks[Worker]) => ks[Worker] = js[Worker])
<1>1. PrunesInTime(cfg, ks, limit)
  BY PrunesSet DEF Told
<1>2. IF c = Worker THEN ks[Worker] = job ELSE ks[Worker] = js[Worker]
  BY Callable DEF Then, JobsOK
<1>. QED
  BY <1>1, <1>2, ToldAside

\* Time passes.
LEMMA ToldLater ==
  ASSUME NEW cfg, NEW t, NEW js, NEW broken, DevicesOK(t), HistoryOK(t), JobsOK(js),
         NEW time \in Nat, NEW after \in Nat, time <= after, NEW limit, NEW later,
         cfg.retention # Forever => limit \in Int /\ later \in Int /\ limit <= later,
         Told(cfg, t, js, broken, time, limit)
  PROVE  Told(cfg, t, js, broken, after, later)
<1>1. InBounds(t, after)
  BY BoundsLater DEF Told
<1>2. PrunesInTime(cfg, js, later)
  <2>. SUFFICES ASSUME NEW c \in Callers, js[c].step \in {"pruneDevices", "pruneAttributes"}
                PROVE  cfg.retention # Forever /\ js[c].cutoff <= later
    BY DEF PrunesInTime
  <2>1. cfg.retention # Forever /\ js[c].cutoff <= limit
    BY DEF Told, PrunesInTime
  <2>2. js[c].cutoff \in Nat
    BY JobAt DEF JobsOK, PruneJob
  <2>. QED
    BY <2>1, <2>2
<1>3. ASSUME cfg.enabled, ~broken PROVE AllTell(cfg, t, js[Worker], later)
  <2>1. AllTell(cfg, t, js[Worker], limit) /\ RowKept(t, js[Worker])
    BY <1>3 DEF Told
  <2>2. CASE cfg.retention # Forever
    BY <2>1, <2>2, TellsLater
  <2>3. CASE cfg.retention = Forever
    <3>1. \A d : SnapshotTells(cfg, t, d, limit) => SnapshotTells(cfg, t, d, later)
      BY <2>3 DEF SnapshotTells
    <3>. QED
      BY <2>1, <3>1, TellsByParts
  <2>. QED
    BY <2>2, <2>3
<1>. QED
  BY <1>1, <1>2, <1>3 DEF Told

-----------------------------------------------------------------------------
\* The statements of a save and of a prune, in either store

SnapshotStatement(cfg, t, u, js, ks, c, at) ==
  /\ js[c].step = "snapshot"
  /\ IF js[c].prev # js[c].row /\ RecordsDevice(cfg.selection, js[c].device)
       THEN SnapshotKept(t, u, SnapshotRow(js[c], at)) ELSE u = t
  /\ Then(js, ks, c, Records(js[c].device, js[c].row, Changed(cfg.selection, js[c])))

ValueStatement(t, u, js, ks, c, at, a) ==
  /\ js[c].step = "attributes" /\ a \in js[c].left
  /\ ValueKept(t, u, ValueRow(js[c], a, at))
  /\ Then(js, ks, c, [js[c] EXCEPT !.left = @ \ {a}])

EndOfSave(cfg, t, u, js, ks, c, limit) ==
  /\ js[c].step = "attributes" /\ js[c].left = {} /\ u = t
  /\ \/ Then(js, ks, c, Idle)
     \/ cfg.retention # Forever /\ limit \in Int /\ Then(js, ks, c, Prunes("pruneDevices", limit))

PruneStatement(t, u, js, ks, c, cutoff) ==
  \/ /\ js[c].step = "pruneDevices"
     /\ Only(t, u, {"deviceHistory"}) /\ u.deviceHistory = Since(t.deviceHistory, cutoff)
     /\ Then(js, ks, c, Prunes("pruneAttributes", js[c].cutoff))
  \/ /\ js[c].step = "pruneAttributes"
     /\ Only(t, u, {"attributeHistory"}) /\ u.attributeHistory = Since(t.attributeHistory, cutoff)
     /\ Then(js, ks, c, Idle)

\* The save that is under way goes on with the row it was called with.
GoesOn(t, u, js, ks) ==
  /\ u.devices = t.devices
  /\ IsSaving(ks[Worker]) =>
       IsSaving(js[Worker]) /\ ks[Worker].device = js[Worker].device /\ ks[Worker].row = js[Worker].row

LEMMA SnapshotStatementTells ==
  ASSUME NEW cfg, NEW t, NEW u, NEW js, NEW ks, NEW c \in Callers, NEW broken, NEW time, NEW limit,
         DevicesOK(t), HistoryOK(t), JobsOK(js), NEW at \in Nat, at = t.devices[js[c].device].at,
         Told(cfg, t, js, broken, time, limit), SnapshotStatement(cfg, t, u, js, ks, c, at)
  PROVE  Told(cfg, u, ks, broken, time, limit) /\ GoesOn(t, u, js, ks)
<1>. DEFINE then == Records(js[c].device, js[c].row, Changed(cfg.selection, js[c]))
<1>1. c = Worker /\ js[c] \in SnapshotJob /\ IsSaving(js[c])
  BY JobAt DEF JobsOK, SnapshotStatement, IsSaving
<1>2. InBounds(u, time) /\ RowKept(u, then) /\ \A any : AllTell(cfg, t, js[c], any) => AllTell(cfg, u, then, any)
  <2>1. InBounds(t, time) /\ RowKept(t, js[c])
    BY <1>1 DEF Told
  <2>2. IF js[c].prev # js[c].row /\ RecordsDevice(cfg.selection, js[c].device)
          THEN SnapshotKept(t, u, SnapshotRow(js[c], at)) ELSE u = t
    BY DEF SnapshotStatement
  <2>. QED
    BY <1>1, <2>1, <2>2, SnapshotStep
<1>3. then.step = "attributes" /\ then.device = js[c].device /\ then.row = js[c].row
  BY DEF Records
<1>4. Then(js, ks, c, then)
  BY DEF SnapshotStatement
<1>. HIDE DEF then
<1>5. ks[Worker] = then
  BY <1>1, <1>4 DEF Then, JobsOK
<1>6. PrunesInTime(cfg, ks, limit)
  BY <1>3, <1>4, PrunesSet DEF Told, MayPrune
<1>7. u.devices = t.devices
  BY DEF SnapshotStatement, SnapshotKept, Only
<1>. QED
  BY <1>1, <1>2, <1>3, <1>5, <1>6, <1>7 DEF Told, GoesOn

LEMMA ValueStatementTells ==
  ASSUME NEW cfg, NEW t, NEW u, NEW js, NEW ks, NEW c \in Callers, NEW broken, NEW time, NEW limit,
         DevicesOK(t), HistoryOK(t), JobsOK(js), NEW at \in Nat, at = t.devices[js[c].device].at,
         Told(cfg, t, js, broken, time, limit), NEW a, ValueStatement(t, u, js, ks, c, at, a)
  PROVE  Told(cfg, u, ks, broken, time, limit) /\ GoesOn(t, u, js, ks)
<1>. DEFINE then == [js[c] EXCEPT !.left = @ \ {a}]
<1>1. c = Worker /\ js[c] \in AttributesJob /\ IsSaving(js[c])
  BY JobAt DEF JobsOK, ValueStatement, IsSaving
<1>2. InBounds(u, time) /\ RowKept(u, then) /\ \A any : AllTell(cfg, t, js[c], any) => AllTell(cfg, u, then, any)
  <2>1. InBounds(t, time) /\ RowKept(t, js[c])
    BY <1>1 DEF Told
  <2>2. a \in js[c].left /\ ValueKept(t, u, ValueRow(js[c], a, at))
    BY DEF ValueStatement
  <2>. QED
    BY <1>1, <2>1, <2>2, ValueStep
<1>3. then.step = "attributes" /\ then.device = js[c].device /\ then.row = js[c].row
  BY <1>1 DEF AttributesJob
<1>4. Then(js, ks, c, then)
  BY DEF ValueStatement
<1>. HIDE DEF then
<1>5. ks[Worker] = then
  BY <1>1, <1>4 DEF Then, JobsOK
<1>6. PrunesInTime(cfg, ks, limit)
  BY <1>3, <1>4, PrunesSet DEF Told, MayPrune
<1>7. u.devices = t.devices
  BY DEF ValueStatement, ValueKept, Only
<1>. QED
  BY <1>1, <1>2, <1>3, <1>5, <1>6, <1>7 DEF Told, GoesOn

LEMMA EndOfSaveTells ==
  ASSUME NEW cfg, NEW t, NEW u, NEW js, NEW ks, NEW c \in Callers, NEW broken, NEW time, NEW limit,
         JobsOK(js), Told(cfg, t, js, broken, time, limit), EndOfSave(cfg, t, u, js, ks, c, limit)
  PROVE  Told(cfg, u, ks, broken, time, limit) /\ GoesOn(t, u, js, ks)
<1>1. c = Worker /\ js[c] \in AttributesJob /\ js[c].left = {} /\ u = t
  BY JobAt DEF JobsOK, EndOfSave
<1>2. PICK job : Then(js, ks, c, job) /\ ~IsSaving(job) /\ MayPrune(cfg, job, limit)
  <2>1. ~IsSaving(Idle) /\ MayPrune(cfg, Idle, limit)
    BY DEF IsSaving, Idle, MayPrune
  <2>2. ~IsSaving(Prunes("pruneDevices", limit)) /\ Prunes("pruneDevices", limit).cutoff = limit
    BY DEF IsSaving, Prunes
  <2>. QED
    BY <2>1, <2>2 DEF EndOfSave, MayPrune
<1>3. PrunesInTime(cfg, ks, limit)
  BY <1>2, PrunesSet DEF Told
<1>4. ks[Worker] = job
  BY <1>1, <1>2 DEF Then, JobsOK
<1>5. ASSUME cfg.enabled, ~broken PROVE AllTell(cfg, t, job, limit)
  <2>1. AllTell(cfg, t, js[c], limit) /\ RowKept(t, js[c])
    BY <1>1, <1>5 DEF Told
  <2>. QED
    BY <1>1, <1>2, <2>1, SaveEnds
<1>. QED
  BY <1>1, <1>2, <1>3, <1>4, <1>5 DEF Told, GoesOn, RowKept

LEMMA PruneStatementTells ==
  ASSUME NEW cfg, NEW t, NEW u, NEW js, NEW ks, NEW c \in Callers, NEW broken, NEW time, NEW limit,
         DevicesOK(t), HistoryOK(t), JobsOK(js), cfg.retention # Forever => limit \in Int,
         NEW cutoff \in Int, cutoff <= js[c].cutoff,
         Told(cfg, t, js, broken, time, limit), PruneStatement(t, u, js, ks, c, cutoff)
  PROVE  Told(cfg, u, ks, broken, time, limit) /\ GoesOn(t, u, js, ks)
<1>1. js[c] \in PruneJob /\ js[c].cutoff \in Nat /\ ~IsSaving(js[c])
  BY JobAt DEF JobsOK, PruneStatement, PruneJob, IsSaving
<1>2. cfg.retention # Forever /\ js[c].cutoff <= limit /\ limit \in Int /\ cutoff <= limit
  <2>1. cfg.retention # Forever /\ js[c].cutoff <= limit
    BY DEF Told, PrunesInTime, PruneStatement
  <2>. QED
    BY <1>1, <2>1
<1>3. /\ InBounds(u, time) /\ u.devices = t.devices
      /\ \A d : SnapshotTells(cfg, t, d, limit) => SnapshotTells(cfg, u, d, limit)
      /\ \A d, a : ValueTells(cfg, t, d, a) => ValueTells(cfg, u, d, a)
  <2>1. InBounds(t, time)
    BY DEF Told
  <2>2. CASE Only(t, u, {"deviceHistory"}) /\ u.deviceHistory = Since(t.deviceHistory, cutoff)
    BY <1>2, <2>1, <2>2, SnapshotsPruned
  <2>3. CASE Only(t, u, {"attributeHistory"}) /\ u.attributeHistory = Since(t.attributeHistory, cutoff)
    BY <1>2, <2>1, <2>3, ValuesPruned
  <2>. QED
    BY <2>2, <2>3 DEF PruneStatement
<1>4. PICK job : Then(js, ks, c, job) /\ ~IsSaving(job) /\ MayPrune(cfg, job, limit)
  <2>1. ~IsSaving(Idle) /\ MayPrune(cfg, Idle, limit)
    BY DEF IsSaving, Idle, MayPrune
  <2>2. /\ ~IsSaving(Prunes("pruneAttributes", js[c].cutoff))
        /\ Prunes("pruneAttributes", js[c].cutoff).cutoff = js[c].cutoff
    BY DEF IsSaving, Prunes
  <2>. QED
    BY <1>2, <2>1, <2>2 DEF PruneStatement, MayPrune
<1>5. PrunesInTime(cfg, ks, limit)
  BY <1>4, PrunesSet DEF Told
<1>6. ks[Worker] = js[Worker] \/ (~IsSaving(ks[Worker]) /\ ~IsSaving(js[Worker]))
  BY <1>1, <1>4, Callable DEF Then, JobsOK
<1>7. RowKept(u, ks[Worker])
  BY <1>3, <1>6 DEF Told, RowKept
<1>8. ASSUME cfg.enabled, ~broken PROVE AllTell(cfg, u, ks[Worker], limit)
  <2>1. AllTell(cfg, t, js[Worker], limit) /\ RowKept(t, js[Worker])
    BY <1>8 DEF Told
  <2>2. AllTell(cfg, u, js[Worker], limit)
    BY <1>3, <2>1, TellsByParts
  <2>. QED
    BY <1>6, <2>2, TellsBetween
<1>. QED
  BY <1>3, <1>5, <1>6, <1>7, <1>8 DEF Told, GoesOn
-----------------------------------------------------------------------------
\* The history of each store over the steps of both

HistoryInv == SqliteHistory /\ PostgresHistory

LEMMA CutoffInt ==
  ASSUME TypeInv, config.retention # Forever
  PROVE  Cutoff \in Int
  BY CutoffTyped

\* A store whose save goes on or that does not save keeps the stamp of its row.
LEMMA SqliteGoesOn ==
  ASSUME SqliteHistory, UNCHANGED <<config, now>>, Told(config, tables', jobs', cut', now, Cutoff),
         \/ GoesOn(tables, tables', jobs, jobs')
         \/ tables'.devices = tables.devices /\ (IsSaving(jobs'[Worker]) => jobs'[Worker] = jobs[Worker])
  PROVE  SqliteHistory'
<1>1. Told(config', tables', jobs', cut', now', Cutoff')
  BY DEF Cutoff
<1>2. IsSaving(jobs'[Worker]) => tables'.devices[jobs'[Worker].device].at = jobs'[Worker].row.at
  BY DEF SqliteHistory, GoesOn
<1>. QED
  BY <1>1, <1>2 DEF SqliteHistory

LEMMA PostgresGoesOn ==
  ASSUME PostgresHistory, UNCHANGED <<config, now>>,
         Told(config, pgTables', pgJobs', pgCut', Micros(now), Cutoff),
         \/ GoesOn(pgTables, pgTables', pgJobs, pgJobs')
         \/ /\ pgTables'.devices = pgTables.devices
            /\ IsSaving(pgJobs'[Worker]) => pgJobs'[Worker] = pgJobs[Worker]
  PROVE  PostgresHistory'
<1>1. Told(config', pgTables', pgJobs', pgCut', Micros(now'), Cutoff')
  BY DEF Cutoff
<1>2. IsSaving(pgJobs'[Worker]) =>
        pgTables'.devices[pgJobs'[Worker].device].at = Micros(pgJobs'[Worker].row.at)
  BY DEF PostgresHistory, GoesOn
<1>. QED
  BY <1>1, <1>2 DEF PostgresHistory

\* A store that does nothing, while time may pass.
LEMMA SqliteRests ==
  ASSUME TypeInv, SqliteHistory, UNCHANGED <<config, sqlite>>, now' \in Nat, now <= now'
  PROVE  SqliteHistory'
<1>0. DevicesOK(tables) /\ HistoryOK(tables) /\ JobsOK(jobs) /\ now \in Nat
  BY DEF TypeInv, TablesOK
<1>1. config.retention # Forever => Cutoff \in Int /\ Cutoff' \in Int /\ Cutoff <= Cutoff'
  <2>1. config.retention # Forever => config.retention \in Nat
    BY MirrorAssumption DEF TypeInv
  <2>. QED
    BY <1>0, <2>1 DEF Cutoff
<1>2. Told(config, tables, jobs, cut, now', Cutoff')
  BY <1>0, <1>1, ToldLater DEF SqliteHistory
<1>3. UNCHANGED <<tables, jobs, cut>>
  BY DEF sqlite
<1>4. Told(config', tables', jobs', cut', now', Cutoff')
  BY <1>2, <1>3
<1>. QED
  BY <1>3, <1>4 DEF SqliteHistory

LEMMA PostgresRests ==
  ASSUME TypeInv, PostgresHistory, UNCHANGED <<config, postgres>>, now' \in Nat, now <= now'
  PROVE  PostgresHistory'
<1>0. DevicesOK(pgTables) /\ HistoryOK(pgTables) /\ JobsOK(pgJobs) /\ now \in Nat
  BY DEF TypeInv, TablesOK
<1>1. config.retention # Forever => Cutoff \in Int /\ Cutoff' \in Int /\ Cutoff <= Cutoff'
  <2>1. config.retention # Forever => config.retention \in Nat
    BY MirrorAssumption DEF TypeInv
  <2>. QED
    BY <1>0, <2>1 DEF Cutoff
<1>2. Micros(now) \in Nat /\ Micros(now') \in Nat /\ Micros(now) <= Micros(now')
  BY <1>0, MicrosNat, MicrosUp
<1>3. Told(config, pgTables, pgJobs, pgCut, Micros(now'), Cutoff')
  BY <1>0, <1>1, <1>2, ToldLater DEF PostgresHistory
<1>4. UNCHANGED <<pgTables, pgJobs, pgCut>>
  BY DEF postgres
<1>5. Told(config', pgTables', pgJobs', pgCut', Micros(now'), Cutoff')
  BY <1>3, <1>4
<1>. QED
  BY <1>4, <1>5 DEF PostgresHistory

\* A step of a store that leaves the devices and their history alone.
LEMMA SqliteAside ==
  ASSUME SqliteHistory, UNCHANGED <<config, now>>, SameRows(tables, tables'), ~cut' => ~cut,
         PrunesInTime(config, jobs', Cutoff),
         \/ jobs'[Worker] = jobs[Worker]
         \/ ~IsSaving(jobs'[Worker]) /\ (cut' \/ ~IsSaving(jobs[Worker]))
  PROVE  SqliteHistory'
<1>1. Told(config, tables', jobs', cut', now, Cutoff)
  BY ToldAside DEF SqliteHistory
<1>. QED
  BY <1>1, SqliteGoesOn DEF SameRows

LEMMA PostgresAside ==
  ASSUME PostgresHistory, UNCHANGED <<config, now>>, SameRows(pgTables, pgTables'), ~pgCut' => ~pgCut,
         PrunesInTime(config, pgJobs', Cutoff),
         \/ pgJobs'[Worker] = pgJobs[Worker]
         \/ ~IsSaving(pgJobs'[Worker]) /\ (pgCut' \/ ~IsSaving(pgJobs[Worker]))
  PROVE  PostgresHistory'
<1>1. Told(config, pgTables', pgJobs', pgCut', Micros(now), Cutoff)
  BY ToldAside DEF PostgresHistory
<1>. QED
  BY <1>1, PostgresGoesOn DEF SameRows

\* A step that sets one job to one that is no save and no prune.
LEMMA SqliteSets ==
  ASSUME TypeInv, SqliteHistory, UNCHANGED <<config, now>>, SameRows(tables, tables'),
         NEW c \in Callers, NEW job, Then(jobs, jobs', c, job), ~IsSaving(job),
         MayPrune(config, job, Cutoff), ~cut' => ~cut, cut' \/ ~IsSaving(jobs[c])
  PROVE  SqliteHistory'
<1>1. PrunesInTime(config, jobs', Cutoff)
  BY PrunesSet DEF SqliteHistory, Told, TypeInv
<1>2. IF c = Worker THEN jobs'[Worker] = job ELSE jobs'[Worker] = jobs[Worker]
  BY Callable DEF Then, JobsOK, TypeInv
<1>. QED
  BY <1>1, <1>2, SqliteAside

LEMMA PostgresSets ==
  ASSUME TypeInv, PostgresHistory, UNCHANGED <<config, now>>, SameRows(pgTables, pgTables'),
         NEW c \in Callers, NEW job, Then(pgJobs, pgJobs', c, job), ~IsSaving(job),
         MayPrune(config, job, Cutoff), ~pgCut' => ~pgCut, pgCut' \/ ~IsSaving(pgJobs[c])
  PROVE  PostgresHistory'
<1>1. PrunesInTime(config, pgJobs', Cutoff)
  BY PrunesSet DEF PostgresHistory, Told, TypeInv
<1>2. IF c = Worker THEN pgJobs'[Worker] = job ELSE pgJobs'[Worker] = pgJobs[Worker]
  BY Callable DEF Then, JobsOK, TypeInv
<1>. QED
  BY <1>1, <1>2, PostgresAside

LEMMA IdleJob == ~IsSaving(Idle) /\ \A cfg, limit : MayPrune(cfg, Idle, limit)
  BY DEF IsSaving, Idle, MayPrune

LEMMA SqliteStepTells ==
  ASSUME TypeInv, HistoryInv, NEW c \in Callers, SqliteStep(c)
  PROVE  HistoryInv'
<1>0. /\ Named(tables) /\ DevicesOK(tables) /\ HistoryOK(tables) /\ JobsOK(jobs) /\ cut \in BOOLEAN
      /\ UNCHANGED <<config, now, postgres>> /\ now \in Nat /\ SqliteHistory /\ PostgresHistory
      /\ jobs[c] \in Job
  BY DEF SqliteStep, TypeInv, TablesOK, HistoryInv, JobsOK
<1>1. PostgresHistory'
  BY <1>0, PostgresRests
<1>2. Told(config, tables, jobs, cut, now, Cutoff)
  BY <1>0 DEF SqliteHistory
<1>3. IsSaving(jobs[c]) => jobs[c].row.at \in Nat /\ jobs[c].row.at = tables.devices[jobs[c].device].at
  <2>1. IsSaving(jobs[c]) => c = Worker /\ jobs[c].row \in DeviceRow
    BY <1>0, JobAt DEF IsSaving, JobsOK, SnapshotJob, AttributesJob
  <2>. QED
    BY <1>0, <2>1 DEF SqliteHistory, DeviceRow
<1>. USE DEF SqliteGoes
<1>4. CASE S!RecordSnapshot(c)
  <2>1. SnapshotStatement(config, tables, tables', jobs, jobs', c, jobs[c].row.at) /\ cut' = cut
    BY <1>0, <1>4, SqliteHistoryStatements DEF SnapshotStatement
  <2>2. IsSaving(jobs[c])
    BY <2>1 DEF SnapshotStatement, IsSaving
  <2>3. Told(config, tables', jobs', cut, now, Cutoff) /\ GoesOn(tables, tables', jobs, jobs')
    BY <1>0, <1>2, <1>3, <2>1, <2>2, SnapshotStatementTells
  <2>. QED
    BY <1>0, <1>1, <2>1, <2>3, SqliteGoesOn DEF HistoryInv
<1>5. ASSUME NEW a \in Attributes, S!RecordAttribute(c, a) PROVE HistoryInv'
  <2>1. ValueStatement(tables, tables', jobs, jobs', c, jobs[c].row.at, a) /\ cut' = cut
    BY <1>0, <1>5, SqliteHistoryStatements DEF ValueStatement
  <2>2. IsSaving(jobs[c])
    BY <2>1 DEF ValueStatement, IsSaving
  <2>3. Told(config, tables', jobs', cut, now, Cutoff) /\ GoesOn(tables, tables', jobs, jobs')
    BY <1>0, <1>2, <1>3, <2>1, <2>2, ValueStatementTells
  <2>. QED
    BY <1>0, <1>1, <2>1, <2>3, SqliteGoesOn DEF HistoryInv
<1>6. CASE S!SavePrunes(c)
  <2>1. EndOfSave(config, tables, tables', jobs, jobs', c, Cutoff) /\ cut' = cut
    BY <1>0, <1>6, SqliteHistoryStatements, CutoffInt DEF EndOfSave
  <2>2. Told(config, tables', jobs', cut, now, Cutoff) /\ GoesOn(tables, tables', jobs, jobs')
    BY <1>0, <1>2, <2>1, EndOfSaveTells
  <2>. QED
    BY <1>0, <1>1, <2>1, <2>2, SqliteGoesOn DEF HistoryInv
<1>7. CASE S!PruneDevices(c) \/ S!PruneAttributes(c)
  <2>1. jobs[c].cutoff \in Nat
    <3>1. jobs[c].step \in {"pruneDevices", "pruneAttributes"}
      BY <1>0, <1>7, SqliteHistoryStatements
    <3>. QED
      BY <1>0, <3>1, JobAt DEF PruneJob
  <2>2. /\ S!Kept(tables.deviceHistory, jobs[c].cutoff) = Since(tables.deviceHistory, jobs[c].cutoff)
        /\ S!Kept(tables.attributeHistory, jobs[c].cutoff) = Since(tables.attributeHistory, jobs[c].cutoff)
    <3>1. /\ \A r \in tables.deviceHistory : r.at \in Nat
          /\ \A r \in tables.attributeHistory : r.at \in Nat
      BY <1>0 DEF HistoryOK, Snapshot, Value
    <3>2. \A t \in Nat : TextBefore(t, jobs[c].cutoff) <=> t < jobs[c].cutoff
      BY <2>1, TextOrder
    <3>3. \A rows : S!Kept(rows, jobs[c].cutoff) = {r \in rows : ~TextBefore(r.at, jobs[c].cutoff)}
      BY DEF S!Kept, S!TextBefore, TextBefore, S!SortsBefore, SortsBefore, S!Render, Render,
         S!Digits, Digits, S!Group, Group, S!Dot, Dot, S!Plus, Plus
    <3>. QED
      BY <2>1, <3>1, <3>2, <3>3 DEF Since
  <2>3. PruneStatement(tables, tables', jobs, jobs', c, jobs[c].cutoff) /\ cut' = cut
    BY <1>0, <1>7, <2>2, SqliteHistoryStatements DEF PruneStatement
  <2>4. Told(config, tables', jobs', cut, now, Cutoff) /\ GoesOn(tables, tables', jobs, jobs')
    <3>. DEFINE cutoff == jobs[c].cutoff
    <3>1. cutoff \in Int /\ cutoff <= jobs[c].cutoff
      BY <2>1
    <3>2. PruneStatement(tables, tables', jobs, jobs', c, cutoff)
      BY <2>3
    <3>. HIDE DEF cutoff
    <3>. QED
      BY <1>0, <1>2, <3>1, <3>2, PruneStatementTells, CutoffInt
  <2>. QED
    BY <1>0, <1>1, <2>3, <2>4, SqliteGoesOn DEF HistoryInv
<1>8. CASE S!ReadBackKey(c)
  <2>1. jobs[c].step = "readBack" /\ tables' = tables /\ Then(jobs, jobs', c, Idle) /\ cut' = cut
    BY <1>0, <1>8, SqliteOthers
  <2>2. SameRows(tables, tables') /\ ~IsSaving(jobs[c])
    BY <2>1 DEF SameRows, IsSaving
  <2>. QED
    BY <1>0, <1>1, <2>1, <2>2, SqliteSets, IdleJob DEF HistoryInv
<1>9. CASE S!InsertTracker(c)
  <2>1. jobs[c].step = "trackers" /\ SameRows(tables, tables') /\ ~IsSaving(jobs[c])
    BY <1>0, <1>9, SqliteOthers DEF SameRows, TrackerAdded, Only, IsSaving
  <2>2. PICK job : Then(jobs, jobs', c, job) /\ (job = Idle \/ job = [jobs[c] EXCEPT !.next = @ + 1]) /\ (~cut' => ~cut)
    BY <1>0, <1>9, SqliteOthers
  <2>3. job = Idle \/ job.step = "trackers"
    <3>1. [jobs[c] EXCEPT !.next = @ + 1].step = "trackers"
      BY <1>0, <2>1, JobAt DEF TrackersJob
    <3>. QED
      BY <2>2, <3>1
  <2>4. ~IsSaving(job) /\ MayPrune(config, job, Cutoff)
    BY <2>3, IdleJob DEF IsSaving, MayPrune
  <2>. QED
    BY <1>0, <1>1, <2>1, <2>2, <2>4, SqliteSets DEF HistoryInv
<1>. QED
  BY <1>4, <1>5, <1>6, <1>7, <1>8, <1>9 DEF SqliteStep

LEMMA PostgresStepTells ==
  ASSUME TypeInv, HistoryInv, NEW c \in Callers, PostgresStep(c)
  PROVE  HistoryInv'
<1>0. /\ Named(pgTables) /\ DevicesOK(pgTables) /\ HistoryOK(pgTables) /\ JobsOK(pgJobs) /\ pgCut \in BOOLEAN
      /\ UNCHANGED <<config, now, sqlite>> /\ now \in Nat /\ SqliteHistory /\ PostgresHistory
      /\ pgJobs[c] \in Job
  BY DEF PostgresStep, TypeInv, TablesOK, HistoryInv, JobsOK
<1>1. SqliteHistory'
  BY <1>0, SqliteRests
<1>2. Told(config, pgTables, pgJobs, pgCut, Micros(now), Cutoff)
  BY <1>0 DEF PostgresHistory
<1>3. IsSaving(pgJobs[c]) => /\ Micros(pgJobs[c].row.at) \in Nat
                             /\ Micros(pgJobs[c].row.at) = pgTables.devices[pgJobs[c].device].at
  <2>1. IsSaving(pgJobs[c]) => c = Worker /\ pgJobs[c].row \in DeviceRow
    BY <1>0, JobAt DEF IsSaving, JobsOK, SnapshotJob, AttributesJob
  <2>. QED
    BY <1>0, <2>1, MicrosNat DEF PostgresHistory, DeviceRow
<1>. USE DEF PostgresGoes
<1>4. CASE P!RecordSnapshot(c)
  <2>1. SnapshotStatement(config, pgTables, pgTables', pgJobs, pgJobs', c, Micros(pgJobs[c].row.at)) /\ pgCut' = pgCut
    BY <1>0, <1>4, PostgresHistoryStatements DEF SnapshotStatement
  <2>2. IsSaving(pgJobs[c])
    BY <2>1 DEF SnapshotStatement, IsSaving
  <2>3. Told(config, pgTables', pgJobs', pgCut, Micros(now), Cutoff) /\ GoesOn(pgTables, pgTables', pgJobs, pgJobs')
    <3>1. \A at \in Nat :
            at = pgTables.devices[pgJobs[c].device].at
              /\ SnapshotStatement(config, pgTables, pgTables', pgJobs, pgJobs', c, at)
            => /\ Told(config, pgTables', pgJobs', pgCut, Micros(now), Cutoff)
               /\ GoesOn(pgTables, pgTables', pgJobs, pgJobs')
      BY <1>0, <1>2, SnapshotStatementTells
    <3>. QED
      BY <1>3, <2>1, <2>2, <3>1
  <2>. QED
    BY <1>0, <1>1, <2>1, <2>3, PostgresGoesOn DEF HistoryInv
<1>5. ASSUME NEW a \in Attributes, P!RecordAttribute(c, a) PROVE HistoryInv'
  <2>1. ValueStatement(pgTables, pgTables', pgJobs, pgJobs', c, Micros(pgJobs[c].row.at), a) /\ pgCut' = pgCut
    BY <1>0, <1>5, PostgresHistoryStatements DEF ValueStatement
  <2>2. IsSaving(pgJobs[c])
    BY <2>1 DEF ValueStatement, IsSaving
  <2>3. Told(config, pgTables', pgJobs', pgCut, Micros(now), Cutoff) /\ GoesOn(pgTables, pgTables', pgJobs, pgJobs')
    <3>1. \A at \in Nat :
            at = pgTables.devices[pgJobs[c].device].at
              /\ ValueStatement(pgTables, pgTables', pgJobs, pgJobs', c, at, a)
            => /\ Told(config, pgTables', pgJobs', pgCut, Micros(now), Cutoff)
               /\ GoesOn(pgTables, pgTables', pgJobs, pgJobs')
      BY <1>0, <1>2, ValueStatementTells
    <3>. QED
      BY <1>3, <2>1, <2>2, <3>1
  <2>. QED
    BY <1>0, <1>1, <2>1, <2>3, PostgresGoesOn DEF HistoryInv
<1>6. CASE P!SaveEnds(c)
  <2>1. EndOfSave(config, pgTables, pgTables', pgJobs, pgJobs', c, Cutoff) /\ pgCut' = pgCut
    BY <1>0, <1>6, PostgresHistoryStatements DEF EndOfSave
  <2>2. Told(config, pgTables', pgJobs', pgCut, Micros(now), Cutoff) /\ GoesOn(pgTables, pgTables', pgJobs, pgJobs')
    BY <1>0, <1>2, <2>1, EndOfSaveTells
  <2>. QED
    BY <1>0, <1>1, <2>1, <2>2, PostgresGoesOn DEF HistoryInv
<1>7. CASE P!PruneDevices(c) \/ P!PruneAttributes(c)
  <2>. DEFINE cutoff == Micros(pgJobs[c].cutoff)
  <2>1. cutoff \in Int /\ cutoff <= pgJobs[c].cutoff
    <3>1. pgJobs[c].step \in {"pruneDevices", "pruneAttributes"}
      BY <1>0, <1>7, PostgresHistoryStatements
    <3>. QED
      BY <1>0, <3>1, JobAt, MicrosNat DEF PruneJob
  <2>2. \A rows : P!Kept(rows, pgJobs[c].cutoff) = Since(rows, cutoff)
    BY DEF P!Kept, Since, P!Micros, Micros
  <2>3. PruneStatement(pgTables, pgTables', pgJobs, pgJobs', c, cutoff) /\ pgCut' = pgCut
    BY <1>0, <1>7, <2>2, PostgresHistoryStatements DEF PruneStatement
  <2>4. Told(config, pgTables', pgJobs', pgCut, Micros(now), Cutoff) /\ GoesOn(pgTables, pgTables', pgJobs, pgJobs')
    <3>. HIDE DEF cutoff
    <3>. QED
      BY <1>0, <1>2, <2>1, <2>3, PruneStatementTells, CutoffInt
  <2>. QED
    BY <1>0, <1>1, <2>3, <2>4, PostgresGoesOn DEF HistoryInv
<1>9. CASE P!InsertTracker(c)
  <2>1. pgJobs[c].step = "trackers" /\ SameRows(pgTables, pgTables') /\ ~IsSaving(pgJobs[c])
    BY <1>0, <1>9, PostgresOthers DEF SameRows, TrackerAdded, Only, IsSaving
  <2>2. PICK job : /\ Then(pgJobs, pgJobs', c, job) /\ (~pgCut' => ~pgCut)
                   /\ job = Idle \/ job = [pgJobs[c] EXCEPT !.next = @ + 1]
    BY <1>0, <1>9, PostgresOthers
  <2>3. job = Idle \/ job.step = "trackers"
    <3>1. [pgJobs[c] EXCEPT !.next = @ + 1].step = "trackers"
      BY <1>0, <2>1, JobAt DEF TrackersJob
    <3>. QED
      BY <2>2, <3>1
  <2>4. ~IsSaving(job) /\ MayPrune(config, job, Cutoff)
    BY <2>3, IdleJob DEF IsSaving, MayPrune
  <2>. QED
    BY <1>0, <1>1, <2>1, <2>2, <2>4, PostgresSets DEF HistoryInv
<1>. QED
  BY <1>4, <1>5, <1>6, <1>7, <1>9 DEF PostgresStep
-----------------------------------------------------------------------------
\* The calls

\* A save begins in a store: what it keeps of the row is the row it compares.
Begins(cfg, t, u, js, ks, time, d, row, stored) ==
  /\ js[Worker] = Idle /\ d \in Devices /\ row \in DeviceRow /\ stored \in DeviceRow
  /\ stored.room = row.room /\ stored.attrs = row.attrs /\ DeviceSaved(t, u, d, stored)
  /\ stored.at = time \/ (t.devices[d] # NoRow /\ stored.at = t.devices[d].at)
  /\ t.devices[d] = row => stored = row
  /\ IF cfg.enabled THEN Then(js, ks, Worker, Saves(d, row, t.devices[d])) ELSE ks = js

LEMMA SaveBegins ==
  ASSUME NEW cfg, NEW t, NEW u, NEW js, NEW ks, NEW broken, NEW time \in Nat, NEW limit,
         DevicesOK(t), HistoryOK(t), JobsOK(js), Told(cfg, t, js, broken, time, limit),
         NEW d, NEW row, NEW stored, Begins(cfg, t, u, js, ks, time, d, row, stored)
  PROVE  /\ Told(cfg, u, ks, broken, time, limit)
         /\ IsSaving(ks[Worker]) =>
              ks[Worker].device = d /\ ks[Worker].row = row /\ u.devices[d] = stored
<1>0. /\ js[Worker] = Idle /\ d \in Devices /\ row \in DeviceRow /\ stored \in DeviceRow
      /\ stored.room = row.room /\ stored.attrs = row.attrs /\ DeviceSaved(t, u, d, stored)
      /\ stored.at = time \/ (t.devices[d] # NoRow /\ stored.at = t.devices[d].at)
      /\ t.devices[d] = row => stored = row
      /\ IF cfg.enabled THEN Then(js, ks, Worker, Saves(d, row, t.devices[d])) ELSE ks = js
  BY DEF Begins
<1>. DEFINE save == Saves(d, row, t.devices[d])
<1>1. InBounds(t, time)
  BY DEF Told
<1>2. /\ InBounds(u, time) /\ RowKept(u, save)
      /\ \A job, any : ~IsSaving(job) /\ AllTell(cfg, t, job, any) => AllTell(cfg, u, save, any)
  BY <1>0, <1>1, SaveStarts
<1>3. save.device = d /\ save.row = row /\ save.step = "snapshot"
  BY DEF Saves
<1>4. u.devices[d] = stored
  BY <1>0 DEF DeviceSaved, DevicesOK
<1>5. ~IsSaving(Idle)
  BY IdleJob
<1>. HIDE DEF save
<1>6. CASE cfg.enabled
  <2>1. Then(js, ks, Worker, save)
    BY <1>0, <1>6 DEF save
  <2>2. ks[Worker] = save
    BY <2>1, Callable DEF Then, JobsOK
  <2>3. PrunesInTime(cfg, ks, limit)
    BY <1>3, <2>1, PrunesSet, Callable DEF Told, MayPrune
  <2>. QED
    BY <1>0, <1>2, <1>3, <1>4, <1>5, <2>2, <2>3 DEF Told
<1>7. CASE ~cfg.enabled
  BY <1>0, <1>2, <1>5, <1>7 DEF Told, RowKept
<1>. QED
  BY <1>6, <1>7

LEMMA MicrosTwice == ASSUME NEW t \in Nat PROVE Micros(Micros(t)) = Micros(t)
<1>. DEFINE q == t \div Base
<1>1. q \in Nat /\ Micros(t) = Base * q /\ Micros(t) \in Nat
  BY MicrosNat, Division, BaseAssumption
<1>. HIDE DEF q
<1>2. Base \in Nat \ {0} /\ 0 < Base /\ Micros(t) = Base * q + 0
  BY <1>1, BaseAssumption
<1>3. Micros(t) \div Base = q
  BY <1>1, <1>2, DivUnique
<1>. QED
  BY <1>1, <1>3, MicrosNat

LEMMA SaveTold ==
  ASSUME TypeInv, MirrorInv, HistoryInv, UNCHANGED <<config, now, cut, pgCut>>, SaveCall
  PROVE  HistoryInv'
<1>0. /\ DevicesOK(tables) /\ HistoryOK(tables) /\ JobsOK(jobs)
      /\ DevicesOK(pgTables) /\ HistoryOK(pgTables) /\ JobsOK(pgJobs)
      /\ now \in Nat /\ Micros(now) \in Nat
  BY MicrosNat DEF TypeInv, TablesOK
<1>1. PICK d \in Devices, row \in DeviceRow :
    /\ row.at = now \/ (tables.devices[d] # NoRow /\ row.at = tables.devices[d].at)
    /\ BothFree(Worker)
    /\ DeviceSaved(tables, tables', d, row) /\ DeviceSaved(pgTables, pgTables', d, InMicros(row))
    /\ IF config.enabled THEN /\ SqliteGoes(Worker, Saves(d, row, tables.devices[d]))
                              /\ PostgresGoes(Worker, Saves(d, row, pgTables.devices[d]))
                         ELSE BothDone(Worker)
  BY DEF SaveCall
<1>2. /\ Told(config, tables, jobs, cut, now, Cutoff)
      /\ Told(config, pgTables, pgJobs, pgCut, Micros(now), Cutoff)
      /\ jobs[Worker] = Idle /\ pgJobs[Worker] = Idle
  BY <1>1 DEF HistoryInv, SqliteHistory, PostgresHistory, BothFree
<1>3. /\ IF config.enabled THEN Then(jobs, jobs', Worker, Saves(d, row, tables.devices[d])) ELSE jobs' = jobs
      /\ IF config.enabled THEN Then(pgJobs, pgJobs', Worker, Saves(d, row, pgTables.devices[d]))
                           ELSE pgJobs' = pgJobs
  BY <1>1 DEF SqliteGoes, PostgresGoes, BothDone, SqliteDone, PostgresDone
<1>4. SqliteHistory'
  <2>1. /\ Told(config, tables', jobs', cut, now, Cutoff)
        /\ IsSaving(jobs'[Worker]) =>
             jobs'[Worker].device = d /\ jobs'[Worker].row = row /\ tables'.devices[d] = row
    <3>1. Begins(config, tables, tables', jobs, jobs', now, d, row, row)
      BY <1>1, <1>2, <1>3 DEF Begins
    <3>. QED
      BY <1>0, <1>2, <3>1, SaveBegins
  <2>2. Told(config', tables', jobs', cut', now', Cutoff')
    BY <2>1 DEF Cutoff
  <2>. QED
    BY <2>1, <2>2 DEF SqliteHistory
<1>5. PostgresHistory'
  <2>. DEFINE stored == InMicros(row)
  <2>1. /\ stored \in DeviceRow /\ stored.room = row.room /\ stored.attrs = row.attrs
        /\ stored.at = Micros(row.at)
    BY MicrosTyped DEF InMicros, DeviceRow
  <2>2. /\ pgTables.devices[d] = Mirrored(tables.devices[d])
        /\ tables.devices[d] \in DeviceRow \cup {NoRow}
    BY <1>0 DEF MirrorInv, DevicesMirrored, DevicesOK
  <2>3. tables.devices[d] # NoRow =>
          /\ pgTables.devices[d] = InMicros(tables.devices[d]) /\ pgTables.devices[d] # NoRow
          /\ pgTables.devices[d].at = Micros(tables.devices[d].at)
    BY <2>2, MirroredRow, MicrosTyped, MarkersTold DEF InMicros, DeviceRow
  <2>4. stored.at = Micros(now) \/ (pgTables.devices[d] # NoRow /\ stored.at = pgTables.devices[d].at)
    BY <1>1, <2>1, <2>3
  <2>5. ASSUME pgTables.devices[d] = row PROVE stored = row
    <3>1. tables.devices[d] \in DeviceRow
      BY <2>2, <2>5, MirroredRow, MarkersTold
    <3>2. row = InMicros(tables.devices[d]) /\ tables.devices[d].at \in Nat
      BY <2>3, <2>5, <3>1, MarkersTold DEF DeviceRow
    <3>3. row.at = Micros(tables.devices[d].at)
      BY <3>1, <3>2 DEF InMicros, DeviceRow
    <3>4. Micros(row.at) = row.at
      BY <3>2, <3>3, MicrosTwice
    <3>. QED
      BY <3>4 DEF InMicros, DeviceRow
  <2>6. DeviceSaved(pgTables, pgTables', d, stored)
    BY <1>1
  <2>. HIDE DEF stored
  <2>7. /\ Told(config, pgTables', pgJobs', pgCut, Micros(now), Cutoff)
        /\ IsSaving(pgJobs'[Worker]) =>
             pgJobs'[Worker].device = d /\ pgJobs'[Worker].row = row /\ pgTables'.devices[d] = stored
    <3>1. Begins(config, pgTables, pgTables', pgJobs, pgJobs', Micros(now), d, row, stored)
      BY <1>2, <1>3, <2>1, <2>4, <2>5, <2>6 DEF Begins
    <3>. QED
      BY <1>0, <1>2, <3>1, SaveBegins
  <2>8. Told(config', pgTables', pgJobs', pgCut', Micros(now'), Cutoff')
    BY <2>7 DEF Cutoff
  <2>. QED
    BY <2>1, <2>7, <2>8 DEF PostgresHistory
<1>. QED
  BY <1>4, <1>5 DEF HistoryInv

\* The other calls of the worker end at once.
LEMMA TableTold ==
  ASSUME NEW cfg, NEW t, NEW u, NEW js, NEW broken, NEW time, NEW limit,
         DevicesOK(t), HistoryOK(t), Told(cfg, t, js, broken, time, limit), js[Worker] = Idle,
         \/ \E d \in Devices : DeviceDeleted(t, u, d)
         \/ \E r \in Rooms : RoomDeleted(t, u, r)
         \/ SameRows(t, u)
  PROVE  Told(cfg, u, js, broken, time, limit)
<1>1. ~IsSaving(js[Worker]) /\ InBounds(t, time)
  BY IdleJob DEF Told
<1>2. InBounds(u, time) /\ (AllTell(cfg, t, js[Worker], limit) => AllTell(cfg, u, js[Worker], limit))
  <2>1. CASE SameRows(t, u)
    BY <1>1, <2>1, TellsSame DEF SameRows
  <2>. QED
    BY <1>1, <2>1, DeviceGone, RoomGone
<1>. QED
  BY <1>1, <1>2 DEF Told, RowKept

LEMMA TableCallTells ==
  ASSUME TypeInv, HistoryInv, UNCHANGED <<config, now>>, TableCall
  PROVE  HistoryInv'
<1>0. /\ DevicesOK(tables) /\ HistoryOK(tables) /\ DevicesOK(pgTables) /\ HistoryOK(pgTables)
      /\ UNCHANGED <<jobs, pgJobs, cut, pgCut>> /\ jobs[Worker] = Idle /\ pgJobs[Worker] = Idle
      /\ ~IsSaving(Idle)
  BY IdleJob DEF TypeInv, TablesOK, TableCall, BothDone, SqliteDone, PostgresDone
<1>1. /\ \/ \E d \in Devices : DeviceDeleted(tables, tables', d)
         \/ \E r \in Rooms : RoomDeleted(tables, tables', r)
         \/ SameRows(tables, tables')
      /\ \/ \E d \in Devices : DeviceDeleted(pgTables, pgTables', d)
         \/ \E r \in Rooms : RoomDeleted(pgTables, pgTables', r)
         \/ SameRows(pgTables, pgTables')
  <2>1. \A t, u : (\E r \in Rooms : RoomSaved(t, u, r)) => SameRows(t, u)
    BY DEF RoomSaved, SameRows, Only
  <2>2. \A t, u : (\E g \in Groups, list \in Ordered(Devices) : GroupSaved(t, u, g, list)) => SameRows(t, u)
    BY DEF GroupSaved, SameRows, Only
  <2>3. \A t, u : (\E g \in Groups : GroupDeleted(t, u, g)) => SameRows(t, u)
    BY DEF GroupDeleted, SameRows, Only
  <2>. QED
    BY <2>1, <2>2, <2>3 DEF TableCall
<1>2. /\ Told(config, tables, jobs, cut, now, Cutoff)
      /\ Told(config, pgTables, pgJobs, pgCut, Micros(now), Cutoff)
  BY DEF HistoryInv, SqliteHistory, PostgresHistory
<1>3. /\ Told(config, tables', jobs, cut, now, Cutoff)
      /\ Told(config, pgTables', pgJobs, pgCut, Micros(now), Cutoff)
  BY <1>0, <1>1, <1>2, TableTold
<1>4. /\ Told(config', tables', jobs', cut', now', Cutoff')
      /\ Told(config', pgTables', pgJobs', pgCut', Micros(now'), Cutoff')
  BY <1>0, <1>3 DEF Cutoff
<1>. QED
  BY <1>0, <1>4 DEF HistoryInv, SqliteHistory, PostgresHistory

\* A call that leaves the devices and their history alone, and one that sets
\* the caller's job to no save.
LEMMA CallAside ==
  ASSUME TypeInv, HistoryInv, UNCHANGED <<config, now, cut, pgCut>>,
         SameRows(tables, tables'), SameRows(pgTables, pgTables'), NEW c \in Callers, BothFree(c),
         NEW job, ~IsSaving(job), MayPrune(config, job, Cutoff),
         jobs' = jobs \/ Then(jobs, jobs', c, job), pgJobs' = pgJobs \/ Then(pgJobs, pgJobs', c, job)
  PROVE  HistoryInv'
<1>1. ~IsSaving(jobs[c]) /\ ~IsSaving(pgJobs[c])
  BY IdleJob DEF BothFree
<1>2. /\ PrunesInTime(config, jobs, Cutoff) /\ PrunesInTime(config, pgJobs, Cutoff)
      /\ SqliteHistory /\ PostgresHistory
  BY DEF HistoryInv, SqliteHistory, PostgresHistory, Told
<1>3. SqliteHistory'
  <2>1. CASE jobs' = jobs
    BY <1>2, <2>1, SqliteAside
  <2>2. CASE Then(jobs, jobs', c, job)
    BY <1>1, <1>2, <2>2, SqliteSets
  <2>. QED
    BY <2>1, <2>2
<1>4. PostgresHistory'
  <2>1. CASE pgJobs' = pgJobs
    BY <1>2, <2>1, PostgresAside
  <2>2. CASE Then(pgJobs, pgJobs', c, job)
    BY <1>1, <1>2, <2>2, PostgresSets
  <2>. QED
    BY <2>1, <2>2
<1>. QED
  BY <1>3, <1>4 DEF HistoryInv

LEMMA CallTells ==
  ASSUME TypeInv, MirrorInv, HistoryInv, CallDevices \/ CallHistory \/ CallJournals \/ CallPersons
  PROVE  HistoryInv'
<1>0. /\ SaveCall \/ TableCall \/ PruneCall \/ StateCall \/ PersonCall
      /\ UNCHANGED <<config, now, cut, pgCut>>
  BY WorkerCalls, JournalCalls, PersonCalls, CallOK
<1>. USE DEF BothGo, SqliteGoes, PostgresGoes, BothDone, SqliteDone, PostgresDone
<1>1. CASE SaveCall
  BY <1>0, <1>1, SaveTold
<1>2. CASE TableCall
  BY <1>0, <1>2, TableCallTells
<1>3. CASE PruneCall
  <2>. DEFINE job == Prunes("pruneDevices", Cutoff)
  <2>1. /\ BothFree(Pruner) /\ config.retention # Forever /\ UNCHANGED <<tables, pgTables>>
        /\ Then(jobs, jobs', Pruner, job) /\ Then(pgJobs, pgJobs', Pruner, job)
    BY <1>3 DEF PruneCall
  <2>2. job.step = "pruneDevices" /\ job.cutoff = Cutoff /\ Cutoff \in Int
    BY <2>1, CutoffInt DEF Prunes
  <2>. HIDE DEF job
  <2>3. ~IsSaving(job) /\ MayPrune(config, job, Cutoff)
    BY <2>1, <2>2 DEF IsSaving, MayPrune
  <2>4. SameRows(tables, tables') /\ SameRows(pgTables, pgTables')
    BY <2>1 DEF SameRows
  <2>. QED
    BY <1>0, <2>1, <2>3, <2>4, CallAside, Callable
<1>4. CASE StateCall
  <2>1. SameRows(tables, tables') /\ SameRows(pgTables, pgTables')
    BY <1>4 DEF StateCall, StateSaved, SameRows, Only
  <2>2. BothFree(TheRequest) /\ jobs' = jobs /\ pgJobs' = pgJobs
    BY <1>4 DEF StateCall, BothFree
  <2>. QED
    BY <1>0, <2>1, <2>2, CallAside, Callable, IdleJob
<1>5. CASE PersonCall
  <2>1. SameRows(tables, tables') /\ SameRows(pgTables, pgTables')
    <3>1. ASSUME NEW t, NEW u,
                 \/ \E p, row : PersonSaved(t, u, p, row)
                 \/ \E p : PersonDeleted(t, u, p) \/ TrackersCleared(t, u, p)
                 \/ \E z, row : ZoneSaved(t, u, z, row)
                 \/ Only(t, u, Journals)
          PROVE  SameRows(t, u)
      BY <3>1 DEF PersonSaved, PersonDeleted, TrackersCleared, ZoneSaved, SameRows, Only
    <3>. QED
      BY <1>5, <3>1 DEF PersonCall
  <2>2. PICK c, job : /\ c \in Callers /\ BothFree(c) /\ ~IsSaving(job) /\ MayPrune(config, job, Cutoff)
                      /\ jobs' = jobs \/ Then(jobs, jobs', c, job)
                      /\ pgJobs' = pgJobs \/ Then(pgJobs, pgJobs', c, job)
    <3>1. CASE \E c \in Callers : BothDone(c)
      BY <3>1, IdleJob DEF BothFree
    <3>2. ASSUME NEW p, NEW list, BothFree(TheRequest),
                 BothGo(TheRequest, IF list = <<>> THEN Idle ELSE Tracks(p, list, 1))
          PROVE  \E job : /\ ~IsSaving(job) /\ MayPrune(config, job, Cutoff)
                          /\ Then(jobs, jobs', TheRequest, job) /\ Then(pgJobs, pgJobs', TheRequest, job)
      <4>1. ~IsSaving(Tracks(p, list, 1)) /\ MayPrune(config, Tracks(p, list, 1), Cutoff)
        BY DEF IsSaving, MayPrune, Tracks
      <4>. QED
        BY <3>2, <4>1, IdleJob
    <3>3. CASE BothDone(TheRequest)
      BY <3>1, <3>3, Callable
    <3>4. \/ BothDone(TheRequest) \/ \E c \in Callers : BothDone(c)
          \/ \E p, list : /\ BothFree(TheRequest)
                          /\ BothGo(TheRequest, IF list = <<>> THEN Idle ELSE Tracks(p, list, 1))
      <4>. HIDE DEF BothGo, SqliteGoes, PostgresGoes, BothDone, SqliteDone, PostgresDone
      <4>. QED
        BY <1>5 DEF PersonCall
    <3>. QED
      BY <3>1, <3>2, <3>3, <3>4, Callable
  <2>. QED
    BY <1>0, <2>1, <2>2, CallAside
<1>. QED
  BY <1>0, <1>1, <1>2, <1>3, <1>4, <1>5

LEMMA KeysTell ==
  ASSUME TypeInv, HistoryInv, CallKeys
  PROVE  HistoryInv'
<1>0. UNCHANGED <<config, now>> /\ (CreateCall \/ KeyCall \/ NoCall)
  BY KeyCalls
<1>1. CASE CreateCall
  <2>1. PICK c \in Requests, hash \in Hashes, role \in Roles, p \in Persons \cup {Nobody} :
          /\ BothFree(c) /\ UNCHANGED <<cut, pgJobs, pgCut>>
          /\ KeyCreated(tables, tables', hash, role, p) /\ KeyCreated(pgTables, pgTables', hash, role, p)
          /\ Then(jobs, jobs', c, ReadsBack(tables.lastKey + 1, hash))
    BY <1>1 DEF CreateCall, SqliteGoes
  <2>2. SameRows(tables, tables') /\ SameRows(pgTables, pgTables')
    BY <2>1 DEF KeyCreated, SameRows, Only
  <2>. DEFINE job == ReadsBack(tables.lastKey + 1, hash)
  <2>3. ~IsSaving(job) /\ MayPrune(config, job, Cutoff)
    BY DEF IsSaving, MayPrune, ReadsBack
  <2>4. c \in Callers /\ Then(jobs, jobs', c, job)
    BY <2>1, Callable
  <2>. HIDE DEF job
  <2>. QED
    BY <1>0, <2>1, <2>2, <2>3, <2>4, CallAside
<1>2. CASE KeyCall
  <2>1. PICK c, id :
          /\ c \in Requests /\ BothDone(c)
          /\ \/ KeyRevoked(tables, tables', id) /\ KeyRevoked(pgTables, pgTables', id)
             \/ KeyTouched(tables, tables', id, now) /\ KeyTouched(pgTables, pgTables', id, Micros(now))
    BY <1>2 DEF KeyCall
  <2>2. SameRows(tables, tables') /\ SameRows(pgTables, pgTables')
    BY <2>1 DEF KeyRevoked, KeyTouched, SameRows, Only
  <2>3. BothFree(c) /\ UNCHANGED <<jobs, pgJobs, cut, pgCut>> /\ c \in Callers
    BY <2>1, Callable DEF BothDone, SqliteDone, PostgresDone, BothFree
  <2>. QED
    BY <1>0, <2>2, <2>3, CallAside, IdleJob
<1>3. CASE NoCall
  <2>1. now \in Nat
    BY DEF TypeInv
  <2>. QED
    BY <1>0, <1>3, <2>1, SqliteRests, PostgresRests DEF NoCall, HistoryInv
<1>. QED
  BY <1>0, <1>1, <1>2, <1>3
\* A fault ends the calls of one store and cuts one of them short.
LEMMA FaultTells ==
  ASSUME TypeInv, HistoryInv, Fault
  PROVE  HistoryInv'
<1>0. /\ UNCHANGED <<config, now, tables, pgTables>> /\ Named(tables) /\ Named(pgTables)
      /\ cut \in BOOLEAN /\ pgCut \in BOOLEAN /\ now \in Nat /\ SqliteHistory /\ PostgresHistory
  BY FaultOK DEF TypeInv, TablesOK, HistoryInv
<1>1. SameRows(tables, tables') /\ SameRows(pgTables, pgTables')
  BY <1>0 DEF SameRows
<1>2. \A cfg, limit : PrunesInTime(cfg, [c \in Callers |-> Idle], limit)
  BY DEF PrunesInTime, Idle
<1>3. CASE UNCHANGED postgres /\ \E c \in Callers : S!Fail(c)
  <2>1. PICK c \in Callers : Then(jobs, jobs', c, Idle) /\ cut' = TRUE
    BY <1>0, <1>3, SqliteOthers
  <2>. QED
    BY <1>0, <1>1, <1>3, <2>1, SqliteSets, PostgresRests, IdleJob DEF HistoryInv
<1>4. CASE UNCHANGED postgres /\ S!Crash /\ cut' # cut
  <2>1. jobs' = [c \in Callers |-> Idle] /\ cut'
    BY <1>0, <1>4, SqliteOthers
  <2>. QED
    BY <1>0, <1>1, <1>2, <1>4, <2>1, SqliteAside, PostgresRests, IdleJob, Callable DEF HistoryInv
<1>5. CASE UNCHANGED sqlite /\ \E c \in Callers : P!Fail(c)
  <2>1. PICK c \in Callers : Then(pgJobs, pgJobs', c, Idle) /\ pgCut' = TRUE
    BY <1>0, <1>5, PostgresOthers
  <2>. QED
    BY <1>0, <1>1, <1>5, <2>1, PostgresSets, SqliteRests, IdleJob DEF HistoryInv
<1>6. CASE UNCHANGED sqlite /\ P!Crash /\ pgCut' # pgCut
  <2>1. pgJobs' = [c \in Callers |-> Idle] /\ pgCut'
    BY <1>0, <1>6, PostgresOthers
  <2>. QED
    BY <1>0, <1>1, <1>2, <1>6, <2>1, PostgresAside, SqliteRests, IdleJob, Callable DEF HistoryInv
<1>. QED
  BY <1>3, <1>4, <1>5, <1>6 DEF Fault

LEMMA HistoryStep ==
  ASSUME TypeInv, MirrorInv, HistoryInv, [Next]_vars
  PROVE  HistoryInv'
<1>1. ASSUME UNCHANGED <<config, sqlite, postgres>>, now' \in Nat, now <= now' PROVE HistoryInv'
  BY <1>1, SqliteRests, PostgresRests DEF HistoryInv
<1>2. now \in Nat
  BY DEF TypeInv
<1>3. CASE Migrate \/ StopMigrating \/ UNCHANGED vars
  BY <1>1, <1>2, <1>3 DEF Migrate, StopMigrating, vars
<1>4. CASE Tick
  BY <1>1, <1>2, <1>4, MirrorAssumption DEF Tick
<1>5. CASE Fault
  BY <1>5, FaultTells
<1>6. CASE CallDevices \/ CallHistory \/ CallJournals \/ CallKeys \/ CallPersons
  BY <1>6, CallTells, KeysTell
<1>7. CASE \E c \in Callers : SqliteStep(c) \/ PostgresStep(c)
  BY <1>7, SqliteStepTells, PostgresStepTells
<1>. QED
  BY <1>3, <1>4, <1>5, <1>6, <1>7 DEF Next

LEMMA HistoryStart == Init => HistoryInv
<1>. SUFFICES ASSUME Init PROVE HistoryInv
  OBVIOUS
<1>1. /\ tables = EmptyTables /\ pgTables = EmptyTables
      /\ jobs = [c \in Callers |-> Idle] /\ pgJobs = [c \in Callers |-> Idle]
  BY DEF Init, S!Init, P!Init, EmptyTables, S!EmptyTables, P!EmptyTables, Callers, S!Callers,
         P!Callers, Idle, S!Idle, P!Idle
<1>2. \A time : InBounds(EmptyTables, time)
  BY DEF InBounds, Bounded, EmptyTables
<1>3. \A cfg, d, limit : d \in Devices => Tells(cfg, EmptyTables, d, limit)
  BY DEF Tells, EmptyTables
<1>4. jobs[Worker] = Idle /\ pgJobs[Worker] = Idle /\ ~IsSaving(Idle)
  BY <1>1, Callable, IdleJob
<1>5. \A cfg, limit : AllTell(cfg, EmptyTables, Idle, limit)
  BY <1>3, <1>4 DEF AllTell, SaveTells, IsSaving
<1>6. \A cfg, limit : PrunesInTime(cfg, jobs, limit) /\ PrunesInTime(cfg, pgJobs, limit)
  BY <1>1 DEF PrunesInTime, Idle
<1>. QED
  BY <1>1, <1>2, <1>4, <1>5, <1>6 DEF HistoryInv, SqliteHistory, PostgresHistory, Told, RowKept

LEMMA HistoryInvAlways == Spec => []HistoryInv
  BY HistoryStart, HistoryStep, TypeAlways, MirrorAlways, PTL DEF Spec

LEMMA TailTold ==
  ASSUME NEW t, NEW d, Tells(config, t, d, Cutoff)
  PROVE  TailTells(t, d)
<1>1. SnapshotTells(config, t, d, Cutoff) =>
        LET snapshots == {r \in t.deviceHistory : r.device = d} IN
        \/ \E r \in {r \in snapshots : \A s \in snapshots : s.at <= r.at} :
             /\ r.at = t.devices[d].at /\ r.snapshot.attrs = t.devices[d].attrs
             /\ t.devices[d].room \in {r.snapshot.room, NoRoom}
        \/ config.retention # Forever /\ t.devices[d].at < Cutoff
  BY DEF SnapshotTells, Latest, SnapshotsOf
<1>2. \A a : ValueTells(config, t, d, a) =>
        LET rows == {r \in t.attributeHistory : r.device = d /\ r.attribute = a} IN
        IF rows = {} THEN config.retention # Forever
                     ELSE \A r \in {r \in rows : \A s \in rows : s.at <= r.at} : r.value = t.devices[d].attrs[a]
  BY DEF ValueTells, Latest, ValuesOf
<1>. QED
  BY <1>1, <1>2 DEF Tells, TailTells

\* Between two saves the newest rows of the history of every device tell its
\* present state in both databases, however saves, prunes and the passing of
\* time interleave, unless a call was cut short.
THEOREM HistoryTellsAlways == Spec => []HistoryTells
<1>1. HistoryInv => HistoryTells
  <2>. SUFFICES ASSUME HistoryInv, config.enabled, NEW d \in Devices
                PROVE  /\ ~cut /\ jobs[Worker] = Idle => TailTells(tables, d)
                       /\ ~pgCut /\ pgJobs[Worker] = Idle => TailTells(pgTables, d)
    BY DEF HistoryTells
  <2>1. ~cut /\ jobs[Worker] = Idle => Tells(config, tables, d, Cutoff)
    BY IdleJob DEF HistoryInv, SqliteHistory, Told, AllTell
  <2>2. ~pgCut /\ pgJobs[Worker] = Idle => Tells(config, pgTables, d, Cutoff)
    BY IdleJob DEF HistoryInv, PostgresHistory, Told, AllTell
  <2>. QED
    BY <2>1, <2>2, TailTold
<1>. QED
  BY <1>1, HistoryInvAlways, PTL
=============================================================================
