--------------------------- MODULE StoreContract ---------------------------
(***************************************************************************)
(* What the DeviceStore trait promises of devices, rooms and groups        *)
(* (crates/core/src/store.rs): each call takes effect at once and whole,   *)
(* or fails and changes nothing; no device is in a room that is not saved, *)
(* no group has a member that is not saved, and a group keeps the order    *)
(* its members were saved in.                                              *)
(***************************************************************************)
EXTENDS Naturals, Sequences

CONSTANTS Devices, Rooms, Groups, NoRow, NoRoom

VARIABLES rooms, devices, groups

contractVars == <<rooms, devices, groups>>

Init ==
  /\ rooms = {}
  /\ devices = [d \in Devices |-> NoRow]
  /\ groups = [g \in Groups |-> NoRow]

Members(list) == {list[i] : i \in DOMAIN list}

\* A device may be saved in a room that is saved.
SaveDevice(d) ==
  /\ devices'[d] # NoRow
  /\ devices'[d].room \in rooms \cup {NoRoom}
  /\ devices' = [devices EXCEPT ![d] = devices'[d]]
  /\ UNCHANGED <<rooms, groups>>

\* The device leaves every group, and the order of the others stays.
DeleteDevice(d) ==
  /\ devices' = [devices EXCEPT ![d] = NoRow]
  /\ groups' = [g \in Groups |->
       IF groups[g] = NoRow THEN NoRow ELSE SelectSeq(groups[g], LAMBDA m : m # d)]
  /\ UNCHANGED rooms

SaveRoom(r) == rooms' = rooms \cup {r} /\ UNCHANGED <<devices, groups>>

DeleteRoom(r) ==
  /\ rooms' = rooms \ {r}
  /\ devices' = [d \in Devices |->
       IF devices[d] # NoRow /\ devices[d].room = r
         THEN [devices[d] EXCEPT !.room = NoRoom] ELSE devices[d]]
  /\ UNCHANGED groups

\* The list must have no device twice: the caller has checked it.
SaveGroup(g, list) ==
  /\ \A d \in Members(list) : devices[d] # NoRow
  /\ groups' = [groups EXCEPT ![g] = list]
  /\ UNCHANGED <<rooms, devices>>

DeleteGroup(g) == groups' = [groups EXCEPT ![g] = NoRow] /\ UNCHANGED <<rooms, devices>>

Next ==
  \/ \E d \in Devices : SaveDevice(d) \/ DeleteDevice(d)
  \/ \E r \in Rooms : SaveRoom(r) \/ DeleteRoom(r)
  \/ \E g \in Groups : groups'[g] # NoRow /\ SaveGroup(g, groups'[g])
  \/ \E g \in Groups : DeleteGroup(g)

Spec == Init /\ [][Next]_contractVars

=============================================================================
