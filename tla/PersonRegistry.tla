--------------------------- MODULE PersonRegistry ---------------------------
(***************************************************************************)
(* Persons, zones and where persons are                                    *)
(* (crates/core/src/person_registry.rs), the requests that change them     *)
(* (crates/api/src/handlers/persons.rs), the tables behind them            *)
(* (crates/store-sql/src/sqlite.rs) and the start of the process.          *)
(*                                                                         *)
(* All state is behind one RwLock, held for no await; a derivation of a    *)
(* person's state holds derive_lock from its read to its last event.  A    *)
(* request is a sequence of steps, one per lock section and one per store  *)
(* call, and the steps of several requests interleave.  A store call may   *)
(* fail, the server may drop the future of a request whose client has gone *)
(* away, and the process may die.                                          *)
(*                                                                         *)
(* A coordinate is a position and a zone is the set of positions it        *)
(* covers: empty if it is passive.  Every tracker snapshot is a GPS one:   *)
(* handle_device_state_changed has one caller, ingest_location, which      *)
(* always reports tracker.type = "gps" and a coordinate, so that the cases *)
(* for stationary and BLE trackers are never taken.                        *)
(***************************************************************************)
EXTENDS Naturals, FiniteSets, SequencesExt

CONSTANTS
  Callers,      (* requests in flight, and the startup                        *)
  Persons, Devices, Positions,
  Zones, Home,  (* zone identifiers; Home is HOME_ZONE_ID                     *)
  HomeArea,     (* the home zone of the configuration's [locale]              *)
  Areas,        (* what a zone of a request may cover                         *)
  Links,        (* <<person, device>>: who carries which device               *)
  Overlapping,  (* kinds of requests that may overlap with one another        *)
  Absent, None, (* no entry in a map or table; no caller, device or position  *)
  MaxCalls,     (* bound: requests                                            *)
  MaxFaults     (* bound: store errors, dropped requests and restarts         *)

AllKinds == {"ingest", "link", "unlink", "create", "update", "remove",
             "createZone", "updateZone", "removeZone", "start"}

ASSUME PersonAssumption ==
  /\ IsFiniteSet(Devices)
  /\ Home \in Zones /\ HomeArea \subseteq Positions
  /\ Areas \subseteq SUBSET Positions
  /\ Links \subseteq Persons \X Devices
  /\ Overlapping \subseteq AllKinds
  /\ None \notin Callers \cup Devices \cup Positions
  /\ MaxCalls \in Nat /\ MaxFaults \in Nat

VARIABLES
  persons, zones,           (* Inner.persons, Inner.zones                     *)
  fixes,                    (* Inner.trackers: the latest fix of a device     *)
  lock,                     (* the caller that holds derive_lock              *)
  db,                       (* tables persons, person_trackers, zones         *)
  call,                     (* per caller: the step its request is at         *)
  clock,                    (* the time of the latest fix: times are compared
                               between fixes, and with rows that become fixes *)
  begun, faults,            (* requests and faults so far                     *)
  said, crowd,              (* what the bus has told: a person's state, and
                               the last of AnyPersonHome and AllPersonsAway   *)
  behind, cut               (* persons not derived since a zone was created, a
                               report missed them or a request was dropped;
                               persons whose last change was cut short        *)

memory   == <<persons, zones, fixes>>
told     == <<said, crowd>>
ghosts   == <<behind, cut>>
personVars == <<memory, lock, db, call, clock, begun, faults, told, ghosts>>

-----------------------------------------------------------------------------
\* Data

State == {"unknown", "away", "home"} \cup (Zones \ {Home})

\* A person's row: state, state_source, latitude and longitude, updated_at.
Row == [state : State, source : Devices \cup {None},
        pos : Positions \cup {None}, at : Nat]

Person == [trackers : Seq(Devices), row : Row]

Fix == [pos : Positions, at : Nat]

\* No entry is told from every entry there can be.
ASSUME AbsentAssumption == Absent \notin Row /\ Absent \notin Person

NewRow == [state |-> "unknown", source |-> None, pos |-> None, at |-> 0]

Present     == {p \in Persons : persons[p] # Absent}
StateOf(p)  == persons[p].row.state
TrackersOf(p) == Range(persons[p].trackers)
LinkedTo(d) == {p \in Present : d \in TrackersOf(p)}      \* device_to_persons
AtHome      == {p \in Present : StateOf(p) = "home"}

\* detect_zone: the home zone first, the others in the order of a hash map.
Covers(z, x) == zones[z] # Absent /\ x \in zones[z]
StatesAt(x) ==
  IF Covers(Home, x) THEN {"home"}
  ELSE LET others == {z \in Zones \ {Home} : Covers(z, x)}
       IN  IF others = {} THEN {"away"} ELSE others

\* derive_person_state: where the latest fix of the person's trackers is.
Derived(p) ==
  LET known  == {d \in TrackersOf(p) : fixes[d] # Absent}
      latest == {d \in known : \A e \in known : fixes[e].at <= fixes[d].at}
  IN  IF known = {} THEN {[NewRow EXCEPT !.at = clock]}
      ELSE UNION {[state : StatesAt(fixes[d].pos), source : {d},
                   pos : {fixes[d].pos}, at : {clock}] : d \in latest}

-----------------------------------------------------------------------------
\* Steps of a request

Idle == [kind |-> "none", step |-> "idle"]

\* A request arrives.  One of a kind that may not overlap has no other beside it.
Begin(c, kind) ==
  /\ call[c] = Idle
  /\ \A o \in Callers : call[o] = Idle \/ {kind, call[o].kind} \subseteq Overlapping
  /\ begun < MaxCalls
  /\ begun' = begun + 1
  /\ UNCHANGED faults

At(c, step) == call[c].step = step /\ UNCHANGED <<begun, faults>>

GoTo(c, k) == call' = [call EXCEPT ![c] = k]

\* The persons left to derive, or nothing more to do.
DeriveNext(c, todo) ==
  GoTo(c, IF todo = {} THEN Idle
          ELSE [kind |-> call[c].kind, step |-> "derive", todo |-> todo])

\* Steps that change only what they say.
KeepMemory == UNCHANGED memory
KeepRest   == UNCHANGED <<lock, clock, told, ghosts>>

-----------------------------------------------------------------------------
\* Tracker links

\* ingest_location: the person must exist ...
IngestLooks(c, p, d, x) ==
  /\ Begin(c, "ingest")
  /\ p \in Present
  /\ GoTo(c, [kind |-> "ingest", who |-> p, dev |-> d, pos |-> x, step |-> "isLinked"])
  /\ KeepMemory /\ KeepRest /\ UNCHANGED db

\* ... is the device linked?
IngestLinked(c) ==
  /\ At(c, "isLinked")
  /\ LET k == call[c]
         linked == k.who \in Present /\ k.dev \in TrackersOf(k.who)
     IN  GoTo(c, [k EXCEPT !.step = IF linked THEN "handle" ELSE "readLinks"])
  /\ KeepMemory /\ KeepRest /\ UNCHANGED db

\* Rewrite the person's tracker rows, then the list in memory.
Rewriting(k, list) ==
  [kind |-> k.kind, step |-> "clearRows", who |-> k.who, dev |-> k.dev,
   pos |-> k.pos, list |-> list, left |-> list]

\* ... it was not: the list is read a second time and the device appended.
IngestReadsLinks(c) ==
  /\ At(c, "readLinks")
  /\ LET k == call[c]
     IN  GoTo(c, Rewriting(k, Append(IF k.who \in Present
                                       THEN persons[k.who].trackers ELSE <<>>,
                                     k.dev)))
  /\ KeepMemory /\ KeepRest /\ UNCHANGED db

\* link_tracker, unlink_tracker: the list is read and a new one made of it.
Relink(c, kind, p, d, list) ==
  /\ Begin(c, kind)
  /\ GoTo(c, Rewriting([kind |-> kind, who |-> p, dev |-> d, pos |-> None], list))
  /\ KeepMemory /\ KeepRest /\ UNCHANGED db

LinkReads(c, p, d) ==
  /\ p \in Present /\ d \notin TrackersOf(p)
  /\ Relink(c, "link", p, d, Append(persons[p].trackers, d))

\* What a list is without the device: the others in their order.
Without(list, d) ==
  LET Others == {i \in DOMAIN list : list[i] # d}
      InOrder(s) == \A i, j \in DOMAIN s : i < j => s[i] < s[j]
  IN  {[i \in DOMAIN s |-> list[s[i]]] : s \in {t \in SetToSeqs(Others) : InOrder(t)}}

UnlinkReads(c, p, d) ==
  /\ p \in Present
  /\ \E list \in Without(persons[p].trackers, d) : Relink(c, "unlink", p, d, list)

\* update_person_trackers: delete the rows ...
ClearRows(c) ==
  /\ At(c, "clearRows")
  /\ db' = [db EXCEPT !.links[call[c].who] = {}]
  /\ GoTo(c, [call[c] EXCEPT !.step = "insertRows"])
  /\ KeepMemory /\ KeepRest

\* ... and insert the new ones, a statement each, without a transaction: the
\* person must have a row and the device no link.
InsertRow(c) ==
  /\ At(c, "insertRows")
  /\ LET k == call[c]
         d == Head(k.left)
     IN  \/ /\ k.left = <<>>
            /\ GoTo(c, [k EXCEPT !.step = "linkWrite"])
            /\ UNCHANGED db
         \/ /\ k.left # <<>>
            /\ db.persons[k.who] # Absent /\ d \notin db.links[k.who]
            /\ db' = [db EXCEPT !.links[k.who] = @ \cup {d}]
            /\ GoTo(c, [k EXCEPT !.left = Tail(@)])
         \/ /\ k.left # <<>>
            /\ db.persons[k.who] = Absent \/ d \in db.links[k.who]
            /\ GoTo(c, Idle)
            /\ UNCHANGED db
  /\ KeepMemory /\ KeepRest

\* The list in memory.  set_person_trackers goes on to derive, ingest_location
\* to the fix.
LinkWrite(c) ==
  /\ At(c, "linkWrite")
  /\ LET k == call[c]
     IN  /\ IF k.who \in Present
              THEN persons' = [persons EXCEPT ![k.who].trackers = k.list]
              ELSE UNCHANGED persons
         /\ IF k.kind = "ingest"
              THEN GoTo(c, [kind |-> "ingest", step |-> "handle", who |-> k.who,
                            dev |-> k.dev, pos |-> k.pos])
              ELSE DeriveNext(c, {k.who} \cap Present)
  /\ KeepRest /\ UNCHANGED <<zones, fixes, db>>

-----------------------------------------------------------------------------
\* A fix: handle_device_state_changed, called with the time of the report

HandleReads(c) ==
  /\ At(c, "handle")
  /\ LET k == call[c]
         affected == LinkedTo(k.dev)
     IN  \/ /\ affected = {}
            /\ GoTo(c, Idle)
            /\ UNCHANGED clock
         \/ /\ affected # {}
            /\ clock' = clock + 1
            /\ GoTo(c, [kind |-> "ingest", step |-> "fixWrite", dev |-> k.dev,
                        fix |-> [pos |-> k.pos, at |-> clock + 1], todo |-> affected])
  /\ KeepMemory /\ UNCHANGED <<lock, db, told, ghosts>>

FixWrite(c) ==
  /\ At(c, "fixWrite")
  /\ fixes' = [fixes EXCEPT ![call[c].dev] = call[c].fix]
  /\ behind' = behind \cup (LinkedTo(call[c].dev) \ call[c].todo)
  /\ DeriveNext(c, call[c].todo)
  /\ UNCHANGED <<persons, zones, lock, db, clock, told, cut>>

-----------------------------------------------------------------------------
\* re_derive_person

\* The steps of a derivation that holds derive_lock.
LockSteps == {"drift", "stateWrite", "rowRead", "rowWrite", "history", "crowd"}

\* A derivation under the lock: of whom, from which state, to which row.
Deriving(k, step, p, new) ==
  [kind |-> k.kind, step |-> step, todo |-> k.todo, who |-> p,
   old |-> StateOf(p), new |-> new, row |-> new]

\* Faulty variant: derive_lock is not taken.
DeriveReads_NoLock(c) ==
  /\ At(c, "derive")
  /\ \E p \in call[c].todo :
       IF p \notin Present
         THEN DeriveNext(c, call[c].todo \ {p}) /\ UNCHANGED behind
         ELSE \E new \in Derived(p) :
                /\ behind' = behind \ {p}
                /\ GoTo(c, Deriving(call[c], IF new.state # StateOf(p)
                                               THEN "stateWrite" ELSE "drift", p, new))
  /\ KeepMemory /\ UNCHANGED <<lock, db, clock, told, cut>>

\* The derivation takes derive_lock and reads what it needs in one section.
DeriveReads(c) ==
  /\ At(c, "derive") /\ lock = None
  /\ \E p \in call[c].todo :
       IF p \notin Present
         THEN /\ DeriveNext(c, call[c].todo \ {p})
              /\ UNCHANGED <<lock, behind>>
         ELSE \E new \in Derived(p) :
                /\ lock' = c
                /\ behind' = behind \ {p}
                /\ GoTo(c, Deriving(call[c], IF new.state # StateOf(p)
                                               THEN "stateWrite" ELSE "drift", p, new))
  /\ KeepMemory /\ UNCHANGED <<db, clock, told, cut>>

\* The derivation ends, well or with an error that is logged.
Release(c) ==
  /\ lock' = None
  /\ DeriveNext(c, call[c].todo \ {call[c].who})

\* The state is what it was: only the coordinate is kept, and not stored.
Drift(c) ==
  /\ At(c, "drift")
  /\ LET p == call[c].who
         new == call[c].new
     IN  IF new.pos # None /\ p \in Present
           THEN persons' = [persons EXCEPT ![p].row.pos = new.pos, ![p].row.at = new.at]
           ELSE UNCHANGED persons
  /\ Release(c)
  /\ UNCHANGED <<zones, fixes, db, clock, told, ghosts>>

StateWrite(c) ==
  /\ At(c, "stateWrite")
  /\ LET p == call[c].who
     IN  IF p \in Present THEN persons' = [persons EXCEPT ![p].row = call[c].new]
         ELSE UNCHANGED persons
  /\ GoTo(c, [call[c] EXCEPT !.step = "rowRead"])
  /\ cut' = cut \ {call[c].who}
  /\ UNCHANGED <<zones, fixes, lock, db, clock, told, behind>>

\* get_person, then upsert_person of what it returned.
RowRead(c) ==
  /\ At(c, "rowRead")
  /\ LET k == call[c]
     IN  GoTo(c, IF k.who \in Present
                   THEN [k EXCEPT !.step = "rowWrite", !.row = persons[k.who].row]
                   ELSE [k EXCEPT !.step = "history"])
  /\ KeepMemory /\ KeepRest /\ UNCHANGED db

RowWrite(c) ==
  /\ At(c, "rowWrite")
  /\ db' = [db EXCEPT !.persons[call[c].who] = call[c].row]
  /\ GoTo(c, [call[c] EXCEPT !.step = "history"])
  /\ KeepMemory /\ KeepRest

\* Faulty variant: moves between zones away from home are not announced.
Announce_CrossingOnly(c) ==
  /\ At(c, "history")
  /\ LET k == call[c]
     IN  IF "home" \in {k.old, k.new.state}
           THEN /\ said' = [said EXCEPT ![k.who] = k.new.state]
                /\ GoTo(c, [k EXCEPT !.step = "crowd"])
                /\ UNCHANGED lock
           ELSE Release(c) /\ UNCHANGED said
  /\ KeepMemory /\ UNCHANGED <<db, clock, crowd, ghosts>>

\* The history has its row, which nothing reads back: PersonStateChanged; then, if
\* the person came home or left it, one more event.
Announce(c) ==
  /\ At(c, "history")
  /\ LET k == call[c]
     IN  /\ said' = [said EXCEPT ![k.who] = k.new.state]
         /\ IF "home" \in {k.old, k.new.state}
              THEN GoTo(c, [k EXCEPT !.step = "crowd"]) /\ UNCHANGED lock
              ELSE Release(c)
  /\ KeepMemory /\ UNCHANGED <<db, clock, crowd, ghosts>>

\* Faulty variant: the person itself is counted.
Crowd_CountsSelf(c) ==
  /\ At(c, "crowd")
  /\ crowd' = IF AtHome # {} THEN crowd
              ELSE IF call[c].new.state = "home" THEN "home" ELSE "away"
  /\ Release(c)
  /\ KeepMemory /\ UNCHANGED <<db, clock, said, ghosts>>

\* AnyPersonHome or AllPersonsAway, if nobody else is home.
Crowd(c) ==
  /\ At(c, "crowd")
  /\ crowd' = IF AtHome \ {call[c].who} # {} THEN crowd
              ELSE IF call[c].new.state = "home" THEN "home" ELSE "away"
  /\ Release(c)
  /\ KeepMemory /\ UNCHANGED <<db, clock, said, ghosts>>

-----------------------------------------------------------------------------
\* Persons

\* create_person makes a new record, whether or not the person exists;
\* update_person changes name or picture of the one it has read.
SavePerson(c, kind, p, rec) ==
  /\ Begin(c, kind)
  /\ GoTo(c, [kind |-> kind, step |-> "saveRow", who |-> p, rec |-> rec])
  /\ KeepMemory /\ KeepRest /\ UNCHANGED db

CreatePerson(c, p) ==
  SavePerson(c, "create", p, [trackers |-> <<>>, row |-> [NewRow EXCEPT !.at = clock]])

UpdatePerson(c, p) == p \in Present /\ SavePerson(c, "update", p, persons[p])

SaveRow(c) ==
  /\ At(c, "saveRow")
  /\ db' = [db EXCEPT !.persons[call[c].who] = call[c].rec.row]
  /\ GoTo(c, [call[c] EXCEPT !.step = "putPerson"])
  /\ KeepMemory /\ KeepRest

PutPerson(c) ==
  /\ At(c, "putPerson")
  /\ persons' = [persons EXCEPT ![call[c].who] = call[c].rec]
  /\ GoTo(c, [call[c] EXCEPT !.step = "tell"])
  /\ KeepRest /\ UNCHANGED <<zones, fixes, db>>

\* PersonAdded and PersonUpdated carry the record.
Tell(c) ==
  /\ At(c, "tell")
  /\ said' = [said EXCEPT ![call[c].who] = call[c].rec.row.state]
  /\ GoTo(c, Idle)
  /\ KeepMemory /\ UNCHANGED <<lock, db, clock, crowd, ghosts>>

\* remove_person: the row and, by ON DELETE CASCADE, its links; then the memory.
RemoveRow(c, p) ==
  /\ Begin(c, "remove")
  /\ db.persons[p] # Absent
  /\ db' = [db EXCEPT !.persons[p] = Absent, !.links[p] = {}]
  /\ GoTo(c, [kind |-> "remove", step |-> "dropPerson", who |-> p])
  /\ KeepMemory /\ KeepRest

DropPerson(c) ==
  /\ At(c, "dropPerson")
  /\ persons' = [persons EXCEPT ![call[c].who] = Absent]
  /\ GoTo(c, [call[c] EXCEPT !.step = "tellRemoved"])
  /\ KeepRest /\ UNCHANGED <<zones, fixes, db>>

TellRemoved(c) ==
  /\ At(c, "tellRemoved")
  /\ said' = [said EXCEPT ![call[c].who] = Absent]
  /\ GoTo(c, Idle)
  /\ KeepMemory /\ UNCHANGED <<lock, db, clock, crowd, ghosts>>

-----------------------------------------------------------------------------
\* Zones

SaveZone(c, kind, z, area) ==
  /\ Begin(c, kind)
  /\ GoTo(c, [kind |-> kind, step |-> "zoneRow", zone |-> z, area |-> area])
  /\ KeepMemory /\ KeepRest /\ UNCHANGED db

\* create_zone refuses the home zone, and no other that exists.
CreateZone(c, z, area) == z # Home /\ SaveZone(c, "createZone", z, area)
UpdateZone(c, z, area) == zones[z] # Absent /\ SaveZone(c, "updateZone", z, area)

ZoneRow(c) ==
  /\ At(c, "zoneRow")
  /\ db' = [db EXCEPT !.zones[call[c].zone] = call[c].area]
  /\ GoTo(c, [call[c] EXCEPT !.step = "putZone"])
  /\ KeepMemory /\ KeepRest

\* Faulty variant: update_zone derives nobody.
PutZone_NoDerive(c) ==
  /\ At(c, "putZone")
  /\ zones' = [zones EXCEPT ![call[c].zone] = call[c].area]
  /\ GoTo(c, Idle)
  /\ behind' = IF call[c].kind = "createZone" THEN Persons ELSE behind
  /\ UNCHANGED <<persons, fixes, lock, db, clock, told, cut>>

\* update_zone derives everybody again, add_zone nobody.
PutZone(c) ==
  /\ At(c, "putZone")
  /\ zones' = [zones EXCEPT ![call[c].zone] = call[c].area]
  /\ IF call[c].kind = "createZone"
       THEN GoTo(c, Idle) /\ behind' = Persons
       ELSE GoTo(c, [kind |-> call[c].kind, step |-> "deriveAll"]) /\ UNCHANGED behind
  /\ UNCHANGED <<persons, fixes, lock, db, clock, told, cut>>

RemoveZone(c, z) ==
  /\ Begin(c, "removeZone")
  /\ z # Home /\ db.zones[z] # Absent
  /\ db' = [db EXCEPT !.zones[z] = Absent]
  /\ GoTo(c, [kind |-> "removeZone", step |-> "dropZone", zone |-> z])
  /\ KeepMemory /\ KeepRest

DropZone(c) ==
  /\ At(c, "dropZone")
  /\ zones' = [zones EXCEPT ![call[c].zone] = Absent]
  /\ GoTo(c, [kind |-> "removeZone", step |-> "deriveAll"])
  /\ KeepRest /\ UNCHANGED <<persons, fixes, db>>

\* re_derive_all_persons: the persons there are now.
DeriveAll(c) ==
  /\ At(c, "deriveAll")
  /\ DeriveNext(c, Present)
  /\ KeepMemory /\ KeepRest /\ UNCHANGED db

-----------------------------------------------------------------------------
\* Faults

Fault(c) ==
  /\ call[c] # Idle
  /\ faults < MaxFaults /\ faults' = faults + 1
  /\ UNCHANGED begun

\* The persons a request has not come to derive, and whose change it left half.
Owes(k) ==
  CASE k.step = "deriveAll"  -> Persons
    [] k.step = "handle"     -> {k.who}
    [] k.step \in {"fixWrite", "derive"} \cup LockSteps -> k.todo
    [] OTHER                 -> {}

Halves(k) == IF "who" \in DOMAIN k THEN {k.who} ELSE {}

StoreSteps == {"clearRows", "insertRows", "rowWrite", "history", "saveRow", "zoneRow"}

\* A store call fails: the request ends with the error, but a derivation of
\* several persons goes on with the next.
StoreFails(c) ==
  /\ Fault(c)
  /\ call[c].step \in StoreSteps
  /\ cut' = cut \cup Halves(call[c])
  /\ IF lock = c THEN Release(c) ELSE GoTo(c, Idle) /\ UNCHANGED lock
  /\ KeepMemory /\ UNCHANGED <<db, clock, told, behind>>

\* The client goes away and its request's future is dropped where it waits.
Dropped(c) ==
  /\ Fault(c)
  /\ call[c].kind # "start"
  /\ behind' = behind \cup Owes(call[c])
  /\ cut' = cut \cup Halves(call[c])
  /\ lock' = IF lock = c THEN None ELSE lock
  /\ GoTo(c, Idle)
  /\ KeepMemory /\ UNCHANGED <<db, clock, told>>

\* PersonRegistry::new seeds a fix of each person's last stored coordinate.
Seeds(p) ==
  LET row == db.persons[p]
  IN  IF row # Absent /\ row.pos # None /\ row.source \in db.links[p]
        THEN {[dev |-> row.source, fix |-> [pos |-> row.pos, at |-> row.at]]}
        ELSE {}

\* The process dies and starts again: the tables are loaded, the home zone is
\* that of the configuration, and everybody is derived.  Whoever listens to the
\* bus starts again too, from what the registry holds.
Restart(c) ==
  /\ faults < MaxFaults /\ faults' = faults + 1
  /\ db' = [db EXCEPT !.zones[Home] = HomeArea]
  /\ zones' = db'.zones
  /\ \E list \in [Persons -> UNION {SetToSeqs(db.links[p]) : p \in Persons}] :
       /\ \A p \in Persons : list[p] \in SetToSeqs(db.links[p])
       /\ persons' = [p \in Persons |->
            IF db.persons[p] = Absent THEN Absent
            ELSE [trackers |-> list[p], row |-> db.persons[p]]]
  /\ LET seeds == UNION {Seeds(p) : p \in Persons}
         From(d) == {s.fix : s \in {t \in seeds : t.dev = d}}
     IN  \E fix \in [Devices -> {s.fix : s \in seeds} \cup {Absent}] :
           /\ \A d \in Devices : fix[d] \in IF From(d) = {} THEN {Absent} ELSE From(d)
           /\ fixes' = fix
  /\ lock' = None
  /\ call' = [o \in Callers |->
       IF o = c THEN [kind |-> "start", step |-> "deriveAll"] ELSE Idle]
  /\ said' = [p \in Persons |-> IF db.persons[p] = Absent THEN Absent
                                ELSE db.persons[p].state]
  /\ crowd' = IF \E p \in Persons : said'[p] = "home" THEN "home" ELSE "none"
  /\ behind' = {} /\ cut' = {}
  /\ UNCHANGED <<clock, begun>>

-----------------------------------------------------------------------------

\* The process has started with persons that have no tracker yet.
Init ==
  /\ persons = [p \in Persons |-> [trackers |-> <<>>, row |-> NewRow]]
  /\ zones = [z \in Zones |-> IF z = Home THEN HomeArea ELSE Absent]
  /\ fixes = [d \in Devices |-> Absent]
  /\ lock = None
  /\ db = [persons |-> [p \in Persons |-> NewRow],
           links |-> [p \in Persons |-> {}], zones |-> zones]
  /\ call = [c \in Callers |-> Idle]
  /\ clock = 0 /\ begun = 0 /\ faults = 0
  /\ said = [p \in Persons |-> "unknown"] /\ crowd = "none"
  /\ behind = {} /\ cut = {}

Request(c) ==
  \/ \E link \in Links :
       \/ \E x \in Positions : IngestLooks(c, link[1], link[2], x)
       \/ LinkReads(c, link[1], link[2])
       \/ UnlinkReads(c, link[1], link[2])
  \/ \E p \in Persons : CreatePerson(c, p) \/ UpdatePerson(c, p) \/ RemoveRow(c, p)
  \/ \E z \in Zones : RemoveZone(c, z) \/ \E area \in Areas :
       CreateZone(c, z, area) \/ UpdateZone(c, z, area)

Continue(c) ==
  \/ IngestLinked(c) \/ IngestReadsLinks(c) \/ ClearRows(c) \/ InsertRow(c) \/ LinkWrite(c)
  \/ HandleReads(c) \/ FixWrite(c)
  \/ DeriveReads(c) \/ Drift(c) \/ StateWrite(c) \/ RowRead(c) \/ RowWrite(c)
  \/ Announce(c) \/ Crowd(c)
  \/ SaveRow(c) \/ PutPerson(c) \/ Tell(c) \/ DropPerson(c) \/ TellRemoved(c)
  \/ ZoneRow(c) \/ PutZone(c) \/ DropZone(c) \/ DeriveAll(c)

Next ==
  \E c \in Callers :
    Request(c) \/ Continue(c) \/ StoreFails(c) \/ Dropped(c) \/ Restart(c)

Spec == Init /\ [][Next]_personVars

-----------------------------------------------------------------------------
\* Properties

Quiet == \A c \in Callers : call[c] = Idle

\* The maps and tables hold whole records, a snapshot has a coordinate, and the
\* derive lock is held by whoever is in a derivation and by nobody else.
PersonsTypeOK ==
  /\ persons \in [Persons -> Person \cup {Absent}]
  /\ zones \in [Zones -> (SUBSET Positions) \cup {Absent}]
  /\ fixes \in [Devices -> Fix \cup {Absent}]
  /\ db.persons \in [Persons -> Row \cup {Absent}]
  /\ db.links \in [Persons -> SUBSET Devices]
  /\ db.zones \in [Zones -> (SUBSET Positions) \cup {Absent}]
  /\ \A c \in Callers : lock = c <=> call[c].step \in LockSteps
  /\ said \in [Persons -> State \cup {Absent}]
  /\ crowd \in {"none", "home", "away"}

\* When no request is under way, every person is where the latest fix of its
\* trackers is, in the zones as they are: a fix, a link or a zone that changed
\* while the person was being derived is not lost.  (Creating a zone derives
\* nobody, a report misses a person linked since it looked for them, and a dropped
\* request may not have come to it.)
Settled ==
  Quiet => \A p \in Present \ behind :
    StateOf(p) \in {row.state : row \in Derived(p)}

\* The last state the bus told of a person is the person's state: changes are
\* announced in the order they were made, none twice and none left out, unless
\* a store error or a dropped request cut one short.
Told ==
  Quiet => \A p \in Present \ cut : said[p] = StateOf(p)

\* As long as somebody is home, AnyPersonHome was the last word: it is published
\* for the first to arrive, and AllPersonsAway never while one has stayed.  (An
\* arrival that a fault cut short is missed for good: the next to arrive finds
\* somebody home.)
CrowdTrue ==
  Quiet /\ faults = 0 => (AtHome # {} => crowd = "home")

\* The row of a person that a restart would load holds its state and the tracker
\* the state came from.
RowCurrent ==
  Quiet => \A p \in Present \ cut :
    /\ db.persons[p] # Absent
    /\ db.persons[p].state = StateOf(p)
    /\ db.persons[p].source = persons[p].row.source

\* A report that was accepted leaves its device linked: when the request has
\* ended well and nobody unlinked the device, it is among the trackers.
LinkKept ==
  [][\A c \in Callers :
       call[c].step = "handle" /\ call'[c].step # "handle"
         => call[c].dev \in TrackersOf(call[c].who)]_personVars

=============================================================================
