--------------------------- MODULE MCPersistence ---------------------------
(* Model-checking instance of Persistence: symmetry of the identifiers.     *)
EXTENDS Persistence

Symmetry ==
  Permutations(Devices) \cup Permutations(Rooms) \cup Permutations(Groups)
    \cup Permutations(Values)
=============================================================================
