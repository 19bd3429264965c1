-------------------------- MODULE SchemaMigration --------------------------
(***************************************************************************)
(* initialize() of a store: the schema is created or brought up to date    *)
(* one statement at a time when the process starts, and each statement     *)
(* commits alone (crates/store-sql/src/sqlite.rs; postgres.rs follows the  *)
(* same order).  The process may end between any two of them.              *)
(*                                                                         *)
(* A script is the statements of all migrations in their order.  A         *)
(* statement creates a table or an index that does not exist, adds a       *)
(* column, or writes the version its migration ends with.                  *)
(***************************************************************************)
EXTENDS Naturals, Sequences

CONSTANTS
  Script,     (* the statements of every migration, oldest first            *)
  Tolerant    (* columns are added with IF NOT EXISTS                       *)

VARIABLES
  objects,    (* the tables, indexes and columns of the database            *)
  version,    (* schema_metadata's schema_version                           *)
  phase,      (* "down", "migrating", "serving", or "refused": initialize   *)
              (* returned an error and the process ends                     *)
  next        (* the statement to execute next                              *)

schemaVars == <<objects, version, phase, next>>

Statement == [does : {"create", "add", "stamp"}, what : STRING, v : Nat]

\* Migrations in the order of their versions, each stamped at its end.
WellFormed ==
  /\ Tolerant \in BOOLEAN
  /\ Script \in Seq(Statement)
  /\ \A i, j \in DOMAIN Script : i <= j => Script[i].v <= Script[j].v
  /\ \A i, j \in DOMAIN Script :
       Script[i].does = "stamp" /\ i < j => Script[i].v < Script[j].v

\* What the database of an installation at a version holds.
ObjectsAt(v) == {Script[i].what : i \in {i \in DOMAIN Script :
                                           Script[i].does # "stamp" /\ Script[i].v <= v}}

\* A database left by a finished migration, or none.
Init ==
  /\ version \in {0} \cup {Script[i].v : i \in DOMAIN Script}
  /\ objects = ObjectsAt(version)
  /\ phase = "down"
  /\ next = 1

\* The version is read once; a migration runs when it is above it.
Start ==
  /\ phase = "down"
  /\ phase' = "migrating"
  /\ \E i \in 1..(Len(Script) + 1) :
       /\ \A j \in DOMAIN Script : j < i <=> Script[j].v <= version
       /\ next' = i
  /\ UNCHANGED <<objects, version>>

Running(does) ==
  /\ phase = "migrating"
  /\ next \in DOMAIN Script
  /\ Script[next].does = does

\* CREATE TABLE IF NOT EXISTS, CREATE INDEX IF NOT EXISTS
RunCreate ==
  /\ Running("create")
  /\ objects' = objects \cup {Script[next].what}
  /\ next' = next + 1
  /\ UNCHANGED <<version, phase>>

\* ALTER TABLE ... ADD COLUMN
RunAdd ==
  /\ Running("add")
  /\ IF Tolerant \/ Script[next].what \notin objects
       THEN /\ objects' = objects \cup {Script[next].what}
            /\ next' = next + 1
            /\ UNCHANGED phase
       ELSE /\ phase' = "refused"
            /\ UNCHANGED <<objects, next>>
  /\ UNCHANGED version

\* Faulty variant: every migration writes CURRENT_SCHEMA_VERSION.
RunStamp_Current ==
  /\ Running("stamp")
  /\ version' = Script[Len(Script)].v
  /\ next' = next + 1
  /\ UNCHANGED <<objects, phase>>

\* Each migration ends with its own version.
RunStamp ==
  /\ Running("stamp")
  /\ version' = Script[next].v
  /\ next' = next + 1
  /\ UNCHANGED <<objects, phase>>

Serve ==
  /\ phase = "migrating"
  /\ next \notin DOMAIN Script
  /\ phase' = "serving"
  /\ UNCHANGED <<objects, version, next>>

\* The process ends: killed, or after a statement the database failed.
Stop ==
  /\ phase \in {"migrating", "serving"}
  /\ phase' = "down"
  /\ UNCHANGED <<objects, version, next>>

Step == Start \/ RunCreate \/ RunAdd \/ RunStamp \/ Serve

Next == Step \/ Stop

Spec == Init /\ [][Next]_schemaVars

-----------------------------------------------------------------------------

SchemaTypeOK ==
  /\ objects \subseteq {Script[i].what : i \in DOMAIN Script}
  /\ version \in Nat
  /\ phase \in {"down", "migrating", "serving", "refused"}
  /\ next \in Nat \ {0}

\* The recorded version never runs ahead of the schema: everything a migration
\* up to it creates or adds is there, whatever ended the process when.
VersionMeansSchema == ObjectsAt(version) \subseteq objects

\* initialize() never fails for something it did itself in an earlier start:
\* the version gate makes each migration safe to run ("this migration only runs
\* once (version-gated), so it is safe without it", sqlite.rs:556-557).
StartsAgain == phase # "refused"

=============================================================================
