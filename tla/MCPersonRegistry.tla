-------------------------- MODULE MCPersonRegistry --------------------------
(* A small instance: who may carry which device, and what overlaps.        *)
EXTENDS PersonRegistry, TLC

CONSTANTS p1, p2, d1, d2, x1, x2

Shared    == {<<p1, d1>>, <<p2, d1>>}
OnePerson == {<<p1, d1>>, <<p1, d2>>}
HomeAt    == {x1}
SomeAreas == {{}, {x2}}
Overlaps  == {"ingest", "link", "unlink", "updateZone", "remove", "removeZone"}
Symmetry  == {s @@ t : s \in Permutations({p1, p2}), t \in Permutations(Callers)}
=============================================================================
