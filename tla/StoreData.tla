----------------------------- MODULE StoreData -----------------------------
(***************************************************************************)
(* What the two stores have in common: the rows they keep, the callers     *)
(* that use them and the configuration of the history                      *)
(* (crates/core/src/store.rs, the SqliteHistoryConfig of sqlite.rs).       *)
(*                                                                         *)
(* A device's row is its room, its attributes and updated_at; kind and     *)
(* metadata are compared as the room is and are left out, and so are       *)
(* last_seen, which the history never compares, and names.                 *)
(***************************************************************************)
EXTENDS Instants, HistoryFilter, SequencesExt, Integers

CONSTANTS
  Rooms, Groups, Values, Automations, Persons, Places, Hashes, Roles,
  Worker,       (* the persistence worker                                   *)
  Pruner,       (* the hourly task                                          *)
  Requests,     (* API requests and the runners of scenes and automations   *)
  NoRow, NoRoom, Absent, Nobody, Unbounded, Forever

VARIABLES
  config,       (* the [persistence.history] section, fixed for a process   *)
  now           (* Utc::now()                                               *)

Callers == {Worker, Pruner} \cup Requests
Idle    == [step |-> "idle"]

DeviceRow == [room : Rooms \cup {NoRoom}, attrs : [Attributes -> Values \cup {Absent}], at : Nat]
StateRow  == [at : Int, scheduled : Int \cup {Absent}]

ASSUME MarkersApart ==
  /\ NoRow \notin DeviceRow \cup StateRow \cup Places \cup Values \cup Seq(Devices)
  /\ NoRoom \notin Rooms /\ Absent \notin Values /\ Nobody \notin Persons
  /\ {Unbounded, Forever, Absent} \cap Int = {}

Present(row) == {a \in Attributes : row.attrs[a] # Absent}

\* An instant that may be missing, as a TIMESTAMPTZ column keeps it.
MicrosIfAny(t) == IF t = Absent THEN t ELSE Micros(t)

Ordered(S) == {s \in UNION {[1..n -> S] : n \in 0..Cardinality(S)} : IsInjective(s)}

Cutoff == IF now > config.retention THEN now - config.retention ELSE 0

\* ORDER BY ... LIMIT n
Newest(rows, Later(_, _), n) ==
  LET s == SetToSortSeq(rows, Later)
  IN  IF n < Len(s) THEN SubSeq(s, 1, n) ELSE s

\* The tables before anything is saved.
EmptyTables ==
  [rooms |-> {}, devices |-> [d \in Devices |-> NoRow], groups |-> {}, members |-> {},
   deviceHistory |-> {}, attributeHistory |-> {},
   audit |-> <<>>, sceneHistory |-> <<>>, automationHistory |-> <<>>,
   runtimeState |-> [a \in Automations |-> NoRow], apiKeys |-> {}, lastKey |-> 0,
   persons |-> [p \in Persons |-> NoRow], trackers |-> {}, zones |-> [z \in Places |-> NoRow],
   personHistory |-> {}, lastEntry |-> 0]

=============================================================================
