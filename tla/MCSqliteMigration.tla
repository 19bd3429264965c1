------------------------- MODULE MCSqliteMigration -------------------------
(* The migrations of the SQLite store, whose columns are added without     *)
(* IF NOT EXISTS.                                                          *)
EXTENDS SqliteSchema

VARIABLES objects, version, phase, next

M == INSTANCE SchemaMigration WITH Tolerant <- FALSE

\* initialize() never fails for something it did itself in an earlier start:
\* "this migration only runs once (version-gated), so it is safe without it"
\* (sqlite.rs:556-557).
StartsAgain == M!StartsAgain

Spec == M!Spec
=============================================================================
