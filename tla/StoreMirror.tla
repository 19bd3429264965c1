---------------------------- MODULE StoreMirror ----------------------------
(***************************************************************************)
(* The two stores given the same calls.  A server uses one of them         *)
(* (create_device_store of crates/api/src/startup.rs); postgres.rs says    *)
(* that it mirrors sqlite.rs, and the API promises the same whichever is   *)
(* configured.  A caller issues its next call when its last one has ended  *)
(* in both; the statements of the two interleave freely, a statement of    *)
(* either may fail and either server may crash.                            *)
(*                                                                         *)
(* Calls of different families touch different tables, so a behaviour      *)
(* keeps to the family of its first call.                                  *)
(***************************************************************************)
EXTENDS StoreData, SequencesExt

CONSTANTS
  Families,    (* among "devices", "history", "journals", "keys", "persons" *)
  Configs,     (* the configurations of the history to start with           *)
  Clock,       (* the instants of the clock                                 *)
  Timed,       (* bound: the families between whose calls time passes       *)
  MaxCalls,    (* bound: calls issued, for each family                      *)
  MaxFaults    (* bound: statements that fail and crashes                   *)

ASSUME MirrorAssumption ==
  /\ Devices # {} /\ IsFiniteSet(Devices) /\ Requests # {}
  /\ Pruner # Worker /\ {Worker, Pruner} \cap Requests = {}
  /\ Clock \subseteq Nat /\ Clock # {}
  /\ \A c \in Configs : c.enabled \in BOOLEAN /\ c.retention \in Nat \cup {Forever}

VARIABLES
  tables, jobs, answers, cut,                       (* SQLite               *)
  pgTables, pgJobs, pgAnswers, pgCut,               (* PostgreSQL           *)
  objects, version, phase, next,                    (* the SQLite schema    *)
  pgObjects, pgVersion, pgPhase, pgNext,            (* the PostgreSQL one   *)
  family,      (* the family of the calls, "any" before the first           *)
  looked,      (* records a lookup returned and that are to be touched      *)
  spent,       (* hashes of the tokens drawn so far                         *)
  calls, faults

S == INSTANCE SqliteStore
P == INSTANCE PostgresStore WITH
       tables <- pgTables, jobs <- pgJobs, answers <- pgAnswers, cut <- pgCut
SqliteMigrations   == INSTANCE SqliteSchema
PostgresMigrations == INSTANCE PostgresSchema
SM == INSTANCE SchemaMigration WITH Script <- SqliteMigrations!Script, Tolerant <- FALSE
PM == INSTANCE SchemaMigration WITH Script <- PostgresMigrations!Script, Tolerant <- TRUE,
       objects <- pgObjects, version <- pgVersion, phase <- pgPhase, next <- pgNext

ASSUME ScriptsWellFormed == SM!WellFormed /\ PM!WellFormed

sqlite   == <<tables, jobs, answers, cut>>
postgres == <<pgTables, pgJobs, pgAnswers, pgCut>>
schemas  == <<objects, version, phase, next, pgObjects, pgVersion, pgPhase, pgNext>>
client   == <<family, looked, spent, calls>>
vars     == <<config, now, sqlite, postgres, schemas, client, faults>>

Init ==
  /\ S!Init /\ P!Init
  /\ SM!Init /\ PM!Init /\ pgVersion = version
  /\ config \in Configs
  /\ now = CHOOSE t \in Clock : \A u \in Clock : t <= u
  /\ family = "any"
  /\ looked = {} /\ spent = {}
  /\ calls = 0 /\ faults = 0

-----------------------------------------------------------------------------
\* The start of the servers

Migrate ==
  /\ \/ SM!Step /\ UNCHANGED <<pgObjects, pgVersion, pgPhase, pgNext>>
     \/ PM!Step /\ UNCHANGED <<objects, version, phase, next>>
  /\ UNCHANGED <<config, now, sqlite, postgres, client, faults>>

StopMigrating ==
  /\ faults < MaxFaults /\ faults' = faults + 1
  /\ \/ phase = "migrating" /\ SM!Stop /\ UNCHANGED <<pgObjects, pgVersion, pgPhase, pgNext>>
     \/ pgPhase = "migrating" /\ PM!Stop /\ UNCHANGED <<objects, version, phase, next>>
  /\ UNCHANGED <<config, now, sqlite, postgres, client>>

-----------------------------------------------------------------------------
\* Calls

\* A call of a caller whose last one has ended in both stores.
Issue(f) ==
  /\ phase = "serving" /\ pgPhase = "serving"
  /\ family \in {f, "any"} /\ f \in Families /\ family' = f
  /\ calls < MaxCalls[f] /\ calls' = calls + 1
  /\ UNCHANGED <<config, now, schemas, faults>>

\* A row as the registry has it: what a report changes is stamped with the
\* time, what an assignment or the removal of a room changes is not.
Rowed(d) ==
  {row \in [room : Rooms \cup {NoRoom}, attrs : [Attributes -> Values \cup {Absent}],
            at : {now} \cup (IF tables.devices[d] = NoRow THEN {}
                             ELSE {tables.devices[d].at})] :
     row.at < now => row.attrs = tables.devices[d].attrs}

CallDevices ==
  /\ Issue("devices")
  /\ \/ \E d \in Devices, r \in Rooms \cup {NoRoom} :
          LET row == [room |-> r, attrs |-> [a \in Attributes |-> Absent], at |-> now] IN
          S!SaveDevice(Worker, d, row) /\ P!SaveDevice(Worker, d, row)
     \/ \E d \in Devices : S!DeleteDevice(Worker, d) /\ P!DeleteDevice(Worker, d)
     \/ \E r \in Rooms :
          \/ S!SaveRoom(Worker, r) /\ P!SaveRoom(Worker, r)
          \/ S!DeleteRoom(Worker, r) /\ P!DeleteRoom(Worker, r)
     \/ \E g \in Groups :
          \/ \E m \in Ordered(Devices) :
               S!SaveGroup(Worker, g, m) /\ P!SaveGroup(Worker, g, m)
          \/ S!DeleteGroup(Worker, g) /\ P!DeleteGroup(Worker, g)
  /\ UNCHANGED <<looked, spent>>

\* One device, saved again and again, and the hourly task.
CallHistory ==
  /\ Issue("history")
  /\ LET d == CHOOSE d \in Devices : TRUE IN
     \/ \E row \in Rowed(d) : S!SaveDevice(Worker, d, row) /\ P!SaveDevice(Worker, d, row)
     \/ S!DeleteDevice(Worker, d) /\ P!DeleteDevice(Worker, d)
     \/ \E r \in Rooms :
          \/ S!SaveRoom(Worker, r) /\ P!SaveRoom(Worker, r)
          \/ S!DeleteRoom(Worker, r) /\ P!DeleteRoom(Worker, r)
     \/ S!PruneHistory(Pruner) /\ P!PruneHistory(Pruner)
  /\ UNCHANGED <<looked, spent>>

\* A row is stamped before the call that saves it.
Stamps == {now - 1, now}

CallJournals ==
  /\ Issue("journals")
  /\ LET c == CHOOSE c \in Requests : TRUE IN \E t \in Stamps :
     \/ \E d \in Devices, a \in Attributes :
          LET e == [at |-> t, device |-> d, capability |-> a] IN
          S!SaveCommandAudit(c, e) /\ P!SaveCommandAudit(c, e)
     \/ \E targets \in SUBSET Devices :
          LET e == [at |-> t, targets |-> targets] IN
          S!SaveSceneExecution(c, e) /\ P!SaveSceneExecution(c, e)
     \/ \E p \in Payload, targets \in SUBSET Devices :
          LET e == [at |-> t, payload |-> p, targets |-> targets] IN
          S!SaveAutomationExecution(c, e) /\ P!SaveAutomationExecution(c, e)
     \/ \E a \in Automations, fired \in {Absent, t} :
          LET state == [at |-> t, scheduled |-> fired] IN
          S!SaveRuntimeState(c, a, state) /\ P!SaveRuntimeState(c, a, state)
  /\ UNCHANGED <<looked, spent>>

\* authenticate_token looks a hash up and touches the record in a task of its
\* own, which may run any time later.
CallKeys ==
  /\ Issue("keys")
  /\ \E c \in Requests :
     \/ \E hash \in Hashes \ spent, role \in Roles, p \in Persons \cup {Nobody} :
          /\ S!CreateKey(c, hash, role, p) /\ P!CreateKey(c, hash, role, p)
          /\ spent' = spent \cup {hash}
          /\ UNCHANGED looked
     \/ \E k \in tables.apiKeys :
          /\ S!RevokeKey(c, k.id) /\ P!RevokeKey(c, k.id)
          /\ UNCHANGED <<looked, spent>>
     \/ \E hash \in Hashes :
          /\ S!LookupKey(hash) # {}
          /\ looked' = looked \cup S!LookupKey(hash)
          /\ UNCHANGED <<sqlite, postgres, spent>>
     \/ \E k \in looked :
          /\ S!TouchKey(c, k) /\ P!TouchKey(c, k)
          /\ looked' = looked \ {k}
          /\ UNCHANGED spent

CallPersons ==
  /\ Issue("persons")
  /\ LET c == CHOOSE c \in Requests : TRUE IN
     \/ \E p \in Persons, row \in Places :
          S!UpsertPerson(c, p, row) /\ P!UpsertPerson(c, p, row)
     \/ \E p \in Persons : S!DeletePerson(c, p) /\ P!DeletePerson(c, p)
     \/ \E p \in Persons, list \in Ordered(Devices) :
          S!UpdateTrackers(c, p, list) /\ P!UpdateTrackers(c, p, list)
     \/ \E z \in Places, row \in Values :
          S!UpsertZone(c, z, row) /\ P!UpsertZone(c, z, row)
     \/ \E z \in Places : S!DeleteZone(c, z) /\ P!DeleteZone(c, z)
     \/ \E p \in Persons, t \in Stamps :
          LET e == [person |-> p, at |-> t] IN
          S!RecordPersonHistory(c, e) /\ P!RecordPersonHistory(c, e)
     \/ S!PrunePersonHistory(Pruner) /\ P!PrunePersonHistory(Pruner)
  /\ UNCHANGED <<looked, spent>>

-----------------------------------------------------------------------------
\* The statements of the calls under way, time and faults

SqliteStep(c) ==
  /\ \/ S!RecordSnapshot(c) \/ S!SavePrunes(c) \/ S!PruneDevices(c) \/ S!PruneAttributes(c)
     \/ \E a \in Attributes : S!RecordAttribute(c, a)
     \/ S!ReadBackKey(c) \/ S!InsertTracker(c)
  /\ UNCHANGED <<config, now, postgres, schemas, client, faults>>

PostgresStep(c) ==
  /\ \/ P!RecordSnapshot(c) \/ P!SaveEnds(c) \/ P!PruneDevices(c) \/ P!PruneAttributes(c)
     \/ \E a \in Attributes : P!RecordAttribute(c, a)
     \/ P!InsertTracker(c)
  /\ UNCHANGED <<config, now, sqlite, schemas, client, faults>>

Tick ==
  /\ family \in Timed /\ calls < MaxCalls[family]
  /\ now' \in {t \in Clock : t > now}
  /\ UNCHANGED <<config, sqlite, postgres, schemas, client, faults>>

Fault ==
  /\ faults < MaxFaults /\ faults' = faults + 1
  /\ \/ (\E c \in Callers : S!Fail(c)) /\ UNCHANGED postgres
     \/ S!Crash /\ cut' # cut /\ UNCHANGED postgres
     \/ (\E c \in Callers : P!Fail(c)) /\ UNCHANGED sqlite
     \/ P!Crash /\ pgCut' # pgCut /\ UNCHANGED sqlite
  /\ UNCHANGED <<config, now, schemas, client>>

Next ==
  \/ Migrate \/ StopMigrating
  \/ CallDevices \/ CallHistory \/ CallJournals \/ CallKeys \/ CallPersons
  \/ \E c \in Callers : SqliteStep(c) \/ PostgresStep(c)
  \/ Tick \/ Fault

Spec == Init /\ [][Next]_vars

-----------------------------------------------------------------------------
\* Properties

Serving == phase = "serving" /\ pgPhase = "serving"
Quiet   == Serving /\ \A c \in Callers : jobs[c] = Idle /\ pgJobs[c] = Idle
Stamped(x) == [x EXCEPT !.at = Micros(@)]

StoreTypeOK ==
  /\ SM!SchemaTypeOK /\ PM!SchemaTypeOK
  /\ \A t \in {tables, pgTables} :
       /\ t.rooms \subseteq Rooms /\ t.groups \subseteq Groups
       /\ \A d \in Devices : t.devices[d] \in DeviceRow \cup {NoRow}
       /\ \A d \in Devices : t.devices[d] # NoRow => t.devices[d].room \in t.rooms \cup {NoRoom}
       /\ \A m \in t.members : m.group \in t.groups /\ t.devices[m.device] # NoRow
       /\ \A k, l \in t.apiKeys : k.id = l.id \/ k.hash = l.hash => k = l
       /\ \A p \in t.trackers : t.persons[p.person] # NoRow
  /\ \A j \in {jobs, pgJobs}, c \in Callers :
       j[c].step \in {"idle", "snapshot", "attributes", "pruneDevices", "pruneAttributes",
                      "readBack", "trackers"}

\* The recorded version never runs ahead of the schema, in either database and
\* whichever version it started from: a start that was cut off is made good.
VersionsMeanSchemas == SM!VersionMeansSchema /\ PM!VersionMeansSchema

\* "Mirrors store-sql/sqlite.rs" (postgres.rs:3): whatever was called, and
\* although calls fail half-way, both stores load the same devices, rooms and
\* groups at the next start, the same keys, zones and runtime states, and if no
\* call was cut short the same persons; instants to the microsecond.
SameState ==
  Quiet =>
    /\ {[x EXCEPT !.row = Stamped(@)] : x \in S!LoadAllDevices} = P!LoadAllDevices
    /\ S!LoadAllRooms = P!LoadAllRooms
    /\ S!LoadAllGroups = P!LoadAllGroups
    /\ \A a \in Automations :
         LET state == S!LoadRuntimeState(a) IN
         P!LoadRuntimeState(a) =
           IF state = NoRow THEN NoRow
           ELSE [Stamped(state) EXCEPT !.scheduled = MicrosIfAny(@)]
    /\ {[k EXCEPT !.used = MicrosIfAny(@)] : k \in S!ListKeys} = P!ListKeys
    /\ \A p \in Persons : Cardinality(S!ListKeysOfPerson(p)) = Cardinality(P!ListKeysOfPerson(p))
    /\ S!LoadAllZones = P!LoadAllZones
    /\ ~cut /\ ~pgCut => S!LoadAllPersons = P!LoadAllPersons

\* The bounds of a query, at the edges of a microsecond.
Starts == {Unbounded} \cup {t \in Clock : t % Base = 0}
Ends   == {Unbounded} \cup {t \in Clock : t % Base = Base - 1}
InForce(start) == config.retention # Forever => start # Unbounded /\ start >= Cutoff

\* The answers of the two to a query with a limit, unless two rows share a
\* microsecond, whose order PostgreSQL cannot tell.
Same(Sq(_), Pg(_), Seen(_)) ==
  LET all  == Sq(calls)
      told(answer) == [i \in DOMAIN answer |-> Seen(answer[i])]
  IN  (\A i, j \in DOMAIN all : Micros(all[i].at) = Micros(all[j].at) => i = j)
        => told(Pg(calls)) = told(all) /\ told(Pg(1)) = told(Sq(1))

SeenRow(r)      == Stamped(r)
SeenSnapshot(r) == [at |-> Micros(r.at), attrs |-> r.snapshot.attrs]

\* A query over any window that has not been pruned, with any limit, answers
\* the same rows newest first from both, though one compares texts and prunes at
\* every save and the other compares microseconds and prunes by the hour.  The
\* room in a snapshot is left out: when a room is deleted SQLite does not record
\* the devices that lose it, PostgreSQL does if their updated_at has nanoseconds.
SameHistory ==
  Quiet /\ ~cut /\ ~pgCut =>
    \A s \in {s \in Starts : InForce(s)}, e \in Ends :
      /\ \A d \in Devices :
           /\ Same(LAMBDA n : S!LoadDeviceHistory(d, s, e, n),
                   LAMBDA n : P!LoadDeviceHistory(d, s, e, n), SeenSnapshot)
           /\ \A a \in Attributes :
                Same(LAMBDA n : S!LoadAttributeHistory(d, a, s, e, n),
                     LAMBDA n : P!LoadAttributeHistory(d, a, s, e, n), SeenRow)
      /\ Same(LAMBDA n : S!LoadCommandAudit(s, e, n),
              LAMBDA n : P!LoadCommandAudit(s, e, n), SeenRow)
      /\ Same(LAMBDA n : S!LoadSceneHistory(s, e, n),
              LAMBDA n : P!LoadSceneHistory(s, e, n), SeenRow)
      /\ Same(LAMBDA n : S!LoadAutomationHistory(s, e, n),
              LAMBDA n : P!LoadAutomationHistory(s, e, n), SeenRow)
      /\ \A p \in Persons :
           Same(LAMBDA n : S!LoadPersonHistory(p, s, e, n),
                LAMBDA n : P!LoadPersonHistory(p, s, e, n), SeenRow)

\* The newest rows of a device's history tell its present state: its snapshot
\* has its attributes and no room it is not in, and the newest row of each
\* attribute has its value, or all were pruned.
TailTells(t, device) ==
  LET row       == t.devices[device]
      snapshots == {r \in t.deviceHistory : r.device = device}
      last(S_)  == {r \in S_ : \A s \in S_ : s.at <= r.at}
  IN  row # NoRow =>
        /\ RecordsDevice(config.selection, device) =>
             \/ \E r \in last(snapshots) :
                  /\ r.at = row.at /\ r.snapshot.attrs = row.attrs
                  /\ row.room \in {r.snapshot.room, NoRoom}
             \/ config.retention # Forever /\ row.at < Cutoff
        /\ \A a \in Present(row) :
             LET rows == {r \in t.attributeHistory : r.device = device /\ r.attribute = a} IN
             RecordsAttribute(config.selection, device, a) =>
               IF rows = {} THEN config.retention # Forever
                            ELSE \A r \in last(rows) : r.value = row.attrs[a]

\* In both stores the history ends with the present, unless a save was cut
\* short: it is not made good by saving the same device again.
HistoryTells ==
  config.enabled =>
    \A d \in Devices :
      /\ ~cut /\ jobs[Worker] = Idle => TailTells(tables, d)
      /\ ~pgCut /\ pgJobs[Worker] = Idle => TailTells(pgTables, d)

\* create_api_key answers with the record of the token it was called for,
\* whatever other requests create and revoke between its two statements.
OwnRecordBack == \A a \in answers \cup pgAnswers : a.record.hash = a.hash

\* A token that is not accepted any more is never accepted again, although the
\* touch of an earlier request is still to come.
RevokedStays ==
  [][\A hash \in spent :
       /\ S!LookupKey(hash) = {} => \A k \in tables'.apiKeys : k.hash # hash
       /\ P!LookupKey(hash) = {} => \A k \in pgTables'.apiKeys : k.hash # hash]_vars

\* Each store implements the trait's promise about devices, rooms and groups.
SqliteGroups   == [g \in Groups |-> IF g \in tables.groups THEN S!LoadAllGroups[g] ELSE NoRow]
PostgresGroups == [g \in Groups |-> IF g \in pgTables.groups THEN P!LoadAllGroups[g] ELSE NoRow]
SC == INSTANCE StoreContract WITH
        rooms <- tables.rooms, devices <- tables.devices, groups <- SqliteGroups
PC == INSTANCE StoreContract WITH
        rooms <- pgTables.rooms, devices <- pgTables.devices, groups <- PostgresGroups
ContractKept == SC!Spec /\ PC!Spec

=============================================================================
