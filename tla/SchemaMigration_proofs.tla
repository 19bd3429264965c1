----------------------- MODULE SchemaMigration_proofs -----------------------
(***************************************************************************)
(* What holds of SchemaMigration for every script that is well formed,     *)
(* wherever it is cut off and however often it is begun again.             *)
(***************************************************************************)
EXTENDS SchemaMigration, SequenceTheorems, TLAPS

\* The statements behind the one to execute next have left what they make.
Done ==
  phase = "migrating" =>
    \A i \in DOMAIN Script : i < next /\ Script[i].does # "stamp" => Script[i].what \in objects

MigrationInv == SchemaTypeOK /\ VersionMeansSchema /\ Done

\* What an object of a version is.
LEMMA AtVersion ==
  ASSUME NEW v, NEW o
  PROVE  o \in ObjectsAt(v) <=>
           \E i \in DOMAIN Script :
             Script[i].does # "stamp" /\ Script[i].v <= v /\ Script[i].what = o
  BY DEF ObjectsAt

LEMMA StatementTyped ==
  ASSUME WellFormed, NEW i \in DOMAIN Script
  PROVE  Script[i] \in Statement /\ Script[i].v \in Nat /\ i \in Nat
<1>1. Script \in Seq(Statement)
  BY DEF WellFormed
<1>2. Script[i] \in Statement
  BY <1>1, ElementOfSeq
<1>3. i \in Nat
  BY <1>1, LenProperties
<1>. QED
  BY <1>2, <1>3 DEF Statement

LEMMA MigrationInit ==
  ASSUME WellFormed
  PROVE  Init => MigrationInv
<1>. SUFFICES ASSUME Init PROVE MigrationInv
  OBVIOUS
<1>1. SchemaTypeOK
  BY StatementTyped DEF Init, SchemaTypeOK, ObjectsAt
<1>. QED
  BY <1>1 DEF Init, MigrationInv, VersionMeansSchema, Done

\* A statement that creates or adds leaves its object, and nothing is lost.
LEMMA ObjectMade ==
  ASSUME WellFormed, MigrationInv, next \in DOMAIN Script, phase = "migrating",
         objects' = objects \cup {Script[next].what}, next' = next + 1,
         UNCHANGED <<version, phase>>
  PROVE  MigrationInv'
<1>1. SchemaTypeOK'
  BY DEF MigrationInv, SchemaTypeOK
<1>2. VersionMeansSchema'
  BY DEF MigrationInv, VersionMeansSchema, ObjectsAt
<1>3. Done'
  BY StatementTyped DEF MigrationInv, Done, SchemaTypeOK
<1>. QED
  BY <1>1, <1>2, <1>3 DEF MigrationInv

LEMMA MigrationStep ==
  ASSUME WellFormed
  PROVE  MigrationInv /\ [Next]_schemaVars => MigrationInv'
<1>. SUFFICES ASSUME MigrationInv, [Next]_schemaVars PROVE MigrationInv'
  OBVIOUS
<1>1. CASE Start
  <2>1. PICK n \in 1..(Len(Script) + 1) :
          /\ \A j \in DOMAIN Script : j < n <=> Script[j].v <= version
          /\ next' = n
    BY <1>1 DEF Start
  <2>2. SchemaTypeOK'
    BY <1>1, <2>1 DEF Start, MigrationInv, SchemaTypeOK, WellFormed
  <2>3. VersionMeansSchema'
    BY <1>1 DEF Start, MigrationInv, VersionMeansSchema, ObjectsAt
  <2>4. ASSUME NEW i \in DOMAIN Script, i < n, Script[i].does # "stamp"
        PROVE  Script[i].what \in objects
    BY <2>1, <2>4, AtVersion DEF MigrationInv, VersionMeansSchema
  <2>. QED
    BY <1>1, <2>1, <2>2, <2>3, <2>4 DEF Start, MigrationInv, Done
<1>2. CASE RunCreate
  BY <1>2, ObjectMade DEF RunCreate, Running
<1>3. CASE RunAdd
  <2>1. CASE Tolerant \/ Script[next].what \notin objects
    BY <1>3, <2>1, ObjectMade DEF RunAdd, Running
  <2>2. CASE ~(Tolerant \/ Script[next].what \notin objects)
    BY <1>3, <2>2 DEF RunAdd, Running, MigrationInv, SchemaTypeOK, VersionMeansSchema, ObjectsAt,
                      Done
  <2>. QED
    BY <2>1, <2>2
\* The statements of the versions up to the one that is written are behind it.
<1>4. CASE RunStamp
  <2>1. next \in DOMAIN Script /\ Script[next].does = "stamp" /\ phase = "migrating"
    BY <1>4 DEF RunStamp, Running
  <2>2. SchemaTypeOK'
    BY <1>4, <2>1, StatementTyped DEF RunStamp, MigrationInv, SchemaTypeOK
  <2>3. ASSUME NEW i \in DOMAIN Script, Script[i].does # "stamp", Script[i].v <= Script[next].v
        PROVE  Script[i].what \in objects
    <3>1. ~(next < i)
      BY <2>1, <2>3, StatementTyped DEF WellFormed
    <3>2. i # next
      BY <2>1, <2>3
    <3>3. i < next
      BY <3>1, <3>2, <2>1, StatementTyped
    <3>. QED
      BY <3>3, <2>1, <2>3 DEF MigrationInv, Done
  <2>4. VersionMeansSchema'
    BY <1>4, <2>3 DEF RunStamp, VersionMeansSchema, ObjectsAt
  <2>5. Done'
    BY <1>4, <2>1, StatementTyped DEF RunStamp, MigrationInv, Done, SchemaTypeOK
  <2>. QED
    BY <2>2, <2>4, <2>5 DEF MigrationInv
<1>5. CASE Serve
  BY <1>5 DEF Serve, MigrationInv, SchemaTypeOK, VersionMeansSchema, ObjectsAt, Done
<1>6. CASE Stop
  BY <1>6 DEF Stop, MigrationInv, SchemaTypeOK, VersionMeansSchema, ObjectsAt, Done
<1>7. CASE UNCHANGED schemaVars
  BY <1>7 DEF schemaVars, MigrationInv, SchemaTypeOK, VersionMeansSchema, ObjectsAt, Done
<1>. QED
  BY <1>1, <1>2, <1>3, <1>4, <1>5, <1>6, <1>7 DEF Next, Step

\* The version is written last of its migration, so that whatever ends the
\* process, between any two statements and in any number of starts, what a
\* migration up to the recorded version makes is there.
THEOREM VersionHonest ==
  ASSUME WellFormed
  PROVE  Spec => []VersionMeansSchema
<1>1. Init => MigrationInv
  BY MigrationInit
<1>2. MigrationInv /\ [Next]_schemaVars => MigrationInv'
  BY MigrationStep
<1>3. MigrationInv => VersionMeansSchema
  BY DEF MigrationInv
<1>. QED
  BY <1>1, <1>2, <1>3, PTL DEF Spec

\* Columns that are added IF NOT EXISTS, as postgres.rs adds them, make every
\* start succeed, whatever an earlier one left.
THEOREM TolerantStarts ==
  ASSUME Tolerant
  PROVE  Spec => []StartsAgain
<1>1. Init => StartsAgain
  BY DEF Init, StartsAgain
<1>2. StartsAgain /\ [Next]_schemaVars => StartsAgain'
  BY DEF StartsAgain, schemaVars, Next, Step, Start, RunCreate, RunAdd, RunStamp, Serve, Stop,
         Running
<1>. QED
  BY <1>1, <1>2, PTL DEF Spec
=============================================================================
