--------------------------- MODULE DeviceRegistry ---------------------------
(***************************************************************************)
(* The in-memory registry of devices, rooms and groups                     *)
(* (crates/core/src/registry.rs) under concurrent callers.                 *)
(*                                                                         *)
(* Each of the three maps has a lock of its own.  An operation takes the   *)
(* locks it needs one after another, never two at once, and publishes its  *)
(* event after the last lock is released; the handlers that call it run on *)
(* a multi-threaded runtime.  So an operation is a sequence of steps, one  *)
(* per lock section and one per published event, and the steps of several  *)
(* callers interleave.                                                     *)
(***************************************************************************)
EXTENDS EventBus, FiniteSets, SequencesExt

CONSTANTS
  Callers,      (* tasks that call the registry: HTTP handlers, adapters    *)
  Devices, Rooms, Groups,                               (* identifiers      *)
  Values,       (* a device's reported state: kind, attributes, metadata    *)
  NoRoom,       (* room_id = None                                           *)
  Absent,       (* the identifier is not a key of the map                   *)
  Ops,          (* the operations the callers use                           *)
  MaxRepeat,    (* how often a request may name one device in a group       *)
  MaxCalls      (* bound: calls that change something                       *)

AllOps == {"ingest", "tracker", "remove", "addRoom", "removeRoom",
           "addGroup", "removeGroup", "setMembers", "assign"}

ASSUME RegistryAssumption ==
  /\ IsFiniteSet(Devices) /\ IsFiniteSet(Groups)
  /\ NoRoom \notin Rooms /\ Absent \notin Rooms \cup {NoRoom}
  /\ Ops \subseteq AllOps
  /\ MaxRepeat \in Nat /\ MaxCalls \in Nat
  /\ Absent \notin [room : Rooms \cup {NoRoom}, val : Values]
  /\ Absent \notin [Devices -> 0..MaxRepeat]

VARIABLES
  rooms,        (* keys of the rooms map                                    *)
  devices,      (* the devices map                                          *)
  groups,       (* the groups map: a group is its members                   *)
  bus,          (* the bus, seen from the receiver of interest              *)
  call,         (* per caller: the lock section its operation is at         *)
  out,          (* per caller: events of finished sections, unpublished     *)
  begun         (* calls begun so far                                       *)

regVars == <<rooms, devices, groups, bus, call, out, begun>>

-----------------------------------------------------------------------------
\* Data

Device  == [room : Rooms \cup {NoRoom}, val : Values]

\* A member list, up to its order: how often each device occurs in it.
Members == [Devices -> 0..MaxRepeat]

Registered  == {d \in Devices : devices[d] # Absent}
RoomOf(d)   == IF devices[d] = Absent THEN Absent ELSE devices[d].room
Ids(m)      == {d \in Devices : m[d] > 0}
Deduped(m)  == [d \in Devices |-> IF m[d] > 0 THEN 1 ELSE 0]
Without(m, d) == [m EXCEPT ![d] = 0]

\* The events the registry publishes, with the payload that is read back.
DeviceAdded(d, rec)   == [type |-> "DeviceAdded", dev |-> d, rec |-> rec]
DeviceChanged(d)      == [type |-> "DeviceStateChanged", dev |-> d]
DeviceSeen(d)         == [type |-> "DeviceSeen", dev |-> d]
DeviceRoomChanged(d)  == [type |-> "DeviceRoomChanged", dev |-> d]
DeviceRemoved(d)      == [type |-> "DeviceRemoved", dev |-> d]
RoomSaved(r)          == [type |-> "RoomSaved", room |-> r]
RoomRemoved(r)        == [type |-> "RoomRemoved", room |-> r]
GroupSaved(g, m)      == [type |-> "GroupSaved", group |-> g, members |-> m]
GroupMembersChanged(g) == [type |-> "GroupMembersChanged", group |-> g]
GroupRemoved(g)       == [type |-> "GroupRemoved", group |-> g]

Event ==
  [type : {"DeviceAdded"}, dev : Devices, rec : Device]
  \cup [type : {"DeviceStateChanged", "DeviceSeen", "DeviceRoomChanged",
                "DeviceRemoved"}, dev : Devices]
  \cup [type : {"RoomSaved", "RoomRemoved"}, room : Rooms]
  \cup [type : {"GroupSaved"}, group : Groups, members : Members]
  \cup [type : {"GroupMembersChanged", "GroupRemoved"}, group : Groups]

Idle == [step |-> "idle"]

Call ==
  {Idle}
  \cup [step : {"upsertCheck", "upsertWrite"},
        dev : Devices, room : Rooms \cup {NoRoom}, val : Values]
  \cup [step : {"prune"}, dev : Devices]
  \cup [step : {"clearRoom"}, room : Rooms]
  \cup [step : {"groupWrite", "membersWrite"}, group : Groups, members : Members]
  \cup [step : {"assignWrite"}, dev : Devices, room : Rooms \cup {NoRoom}]

-----------------------------------------------------------------------------
\* Steps of a call

\* A caller that is in no operation starts one.
Begin(c, op) ==
  /\ op \in Ops
  /\ call[c] = Idle /\ out[c] = <<>>
  /\ begun < MaxCalls
  /\ begun' = begun + 1

\* A caller is at a lock section and has published what came before it.
At(c, step) ==
  /\ call[c].step = step /\ out[c] = <<>>
  /\ UNCHANGED begun

\* The caller goes on to its next lock section.
GoTo(c, k) ==
  /\ call' = [call EXCEPT ![c] = k]
  /\ UNCHANGED <<out, bus>>

\* The caller's last section leaves events to publish.
Leave(c, events) ==
  /\ call' = [call EXCEPT ![c] = Idle]
  /\ out' = [out EXCEPT ![c] = events]
  /\ UNCHANGED bus

\* bus.publish(event), outside every lock.
Publish(c) ==
  /\ out[c] # <<>>
  /\ bus' = Published(bus, Head(out[c]))
  /\ out' = [out EXCEPT ![c] = Tail(@)]
  /\ UNCHANGED <<rooms, devices, groups, call, begun>>

-----------------------------------------------------------------------------
\* Devices

\* ingest_devices / apply_device_update read the room the device is in ...
IngestRead(c, d, v) ==
  /\ Begin(c, "ingest")
  /\ GoTo(c, [step |-> "upsertCheck", dev |-> d, val |-> v,
              room |-> IF d \in Registered THEN RoomOf(d) ELSE NoRoom])
  /\ UNCHANGED <<rooms, devices, groups>>

\* ... ingest_location does not: its tracker device has no room.
TrackerUpsert(c, d, v) ==
  /\ Begin(c, "tracker")
  /\ GoTo(c, [step |-> "upsertCheck", dev |-> d, val |-> v, room |-> NoRoom])
  /\ UNCHANGED <<rooms, devices, groups>>

\* upsert(): validate_room_assignment under the rooms lock, or bail.
UpsertCheck(c) ==
  /\ At(c, "upsertCheck")
  /\ GoTo(c, IF call[c].room \in rooms \cup {NoRoom}
               THEN [call[c] EXCEPT !.step = "upsertWrite"]
               ELSE Idle)
  /\ UNCHANGED <<rooms, devices, groups>>

\* upsert(): insert, replace or touch under the devices lock.
UpsertWrite(c) ==
  /\ At(c, "upsertWrite")
  /\ LET d   == call[c].dev
         rec == [room |-> call[c].room, val |-> call[c].val]
     IN  \/ /\ devices[d] = Absent
            /\ devices' = [devices EXCEPT ![d] = rec]
            /\ Leave(c, <<DeviceAdded(d, rec)>>)
         \/ /\ devices[d] # Absent /\ devices[d].val # rec.val
            /\ devices' = [devices EXCEPT ![d] = rec]
            /\ Leave(c, <<DeviceChanged(d)>>)
         \/ /\ devices[d] # Absent /\ devices[d].val = rec.val
            /\ UNCHANGED devices                    \* only last_seen
            /\ \E evs \in {<<>>, <<DeviceSeen(d)>>} : Leave(c, evs)
  /\ UNCHANGED <<rooms, groups>>

\* remove(): the devices section ...
RemoveDevice(c, d) ==
  /\ Begin(c, "remove")
  /\ devices[d] # Absent
  /\ devices' = [devices EXCEPT ![d] = Absent]
  /\ call' = [call EXCEPT ![c] = [step |-> "prune", dev |-> d]]
  /\ out' = [out EXCEPT ![c] = <<DeviceRemoved(d)>>]
  /\ UNCHANGED <<rooms, groups, bus>>

\* Faulty variant: only the first occurrence of the device is taken out.
PruneGroups_FirstOnly(c) ==
  /\ At(c, "prune")
  /\ LET d == call[c].dev
     IN  groups' = [g \in Groups |->
           IF groups[g] # Absent /\ groups[g][d] > 0
             THEN [groups[g] EXCEPT ![d] = @ - 1] ELSE groups[g]]
  /\ Leave(c, <<>>)
  /\ UNCHANGED <<rooms, devices>>

\* ... and, after its event is out, the groups section.
PruneGroups(c) ==
  /\ At(c, "prune")
  /\ LET d       == call[c].dev
         changed == {g \in Groups : groups[g] # Absent /\ groups[g][d] > 0}
     IN  /\ groups' = [g \in Groups |->
                         IF g \in changed THEN Without(groups[g], d) ELSE groups[g]]
         /\ \E order \in SetToSeqs(changed) :
              Leave(c, [i \in DOMAIN order |-> GroupMembersChanged(order[i])])
  /\ UNCHANGED <<rooms, devices>>

\* Faulty variant: the room is not looked up.
AssignCheck_NoLookup(c, d, r) ==
  /\ Begin(c, "assign")
  /\ GoTo(c, [step |-> "assignWrite", dev |-> d, room |-> r])
  /\ UNCHANGED <<rooms, devices, groups>>

\* assign_device_to_room(): the room is looked up under the rooms lock ...
AssignCheck(c, d, r) ==
  /\ Begin(c, "assign")
  /\ r \in rooms \cup {NoRoom}
  /\ GoTo(c, [step |-> "assignWrite", dev |-> d, room |-> r])
  /\ UNCHANGED <<rooms, devices, groups>>

\* ... and assigned under the devices lock.
AssignWrite(c) ==
  /\ At(c, "assignWrite")
  /\ LET d == call[c].dev
         r == call[c].room
     IN  \/ /\ RoomOf(d) \in {Absent, r}
            /\ GoTo(c, Idle)
            /\ UNCHANGED devices
         \/ /\ RoomOf(d) \notin {Absent, r}
            /\ devices' = [devices EXCEPT ![d].room = r]
            /\ Leave(c, <<DeviceRoomChanged(d)>>)
  /\ UNCHANGED <<rooms, groups>>

-----------------------------------------------------------------------------
\* Rooms

\* upsert_room(): RoomAdded or RoomUpdated, both carry the room.
UpsertRoom(c, r) ==
  /\ Begin(c, "addRoom")
  /\ rooms' = rooms \cup {r}
  /\ Leave(c, <<RoomSaved(r)>>)
  /\ UNCHANGED <<devices, groups>>

\* remove_room(): the rooms section ...
RemoveRoom(c, r) ==
  /\ Begin(c, "removeRoom")
  /\ r \in rooms
  /\ rooms' = rooms \ {r}
  /\ GoTo(c, [step |-> "clearRoom", room |-> r])
  /\ UNCHANGED <<devices, groups>>

\* ... then the devices section, then all the events.
ClearRoom(c) ==
  /\ At(c, "clearRoom")
  /\ LET r       == call[c].room
         changed == {d \in Devices : RoomOf(d) = r}
     IN  /\ devices' = [d \in Devices |->
                          IF d \in changed THEN [devices[d] EXCEPT !.room = NoRoom]
                                           ELSE devices[d]]
         /\ \E order \in SetToSeqs(changed) :
              Leave(c, <<RoomRemoved(r)>> \o
                       [i \in DOMAIN order |-> DeviceRoomChanged(order[i])])
  /\ UNCHANGED <<rooms, groups>>

-----------------------------------------------------------------------------
\* Groups

\* upsert_group(): every member is known under the devices lock ...
UpsertGroupCheck(c, g, m) ==
  /\ Begin(c, "addGroup")
  /\ Ids(m) \subseteq Registered
  /\ GoTo(c, [step |-> "groupWrite", group |-> g, members |-> m])
  /\ UNCHANGED <<rooms, devices, groups>>

\* ... and the list is stored, as it came, under the groups lock.
UpsertGroupWrite(c) ==
  /\ At(c, "groupWrite")
  /\ groups' = [groups EXCEPT ![call[c].group] = call[c].members]
  /\ Leave(c, <<GroupSaved(call[c].group, call[c].members)>>)
  /\ UNCHANGED <<rooms, devices>>

RemoveGroup(c, g) ==
  /\ Begin(c, "removeGroup")
  /\ groups[g] # Absent
  /\ groups' = [groups EXCEPT ![g] = Absent]
  /\ Leave(c, <<GroupRemoved(g)>>)
  /\ UNCHANGED <<rooms, devices>>

\* set_group_members(): the list is deduplicated and checked ...
SetMembersCheck(c, g, m) ==
  /\ Begin(c, "setMembers")
  /\ Ids(m) \subseteq Registered
  /\ GoTo(c, [step |-> "membersWrite", group |-> g, members |-> Deduped(m)])
  /\ UNCHANGED <<rooms, devices, groups>>

\* ... and stored under the groups lock if the group exists and differs.
SetMembersWrite(c) ==
  /\ At(c, "membersWrite")
  /\ LET g == call[c].group
         m == call[c].members
     IN  \/ /\ groups[g] \in {Absent, m}
            /\ GoTo(c, Idle)
            /\ UNCHANGED groups
         \/ /\ groups[g] \notin {Absent, m}
            /\ groups' = [groups EXCEPT ![g] = m]
            /\ Leave(c, <<GroupMembersChanged(g)>>)
  /\ UNCHANGED <<rooms, devices>>

-----------------------------------------------------------------------------
\* The registry alone: the receiver never reads.

Init ==
  /\ rooms = {}
  /\ devices = [d \in Devices |-> Absent]
  /\ groups = [g \in Groups |-> Absent]
  /\ bus = Subscribed
  /\ call = [c \in Callers |-> Idle]
  /\ out = [c \in Callers |-> <<>>]
  /\ begun = 0

CallStep(c) ==
  \/ Publish(c)
  \/ UpsertCheck(c) \/ UpsertWrite(c) \/ PruneGroups(c)
  \/ AssignWrite(c) \/ ClearRoom(c)
  \/ UpsertGroupWrite(c) \/ SetMembersWrite(c)

CallBegins(c) ==
  \/ \E d \in Devices, v \in Values : IngestRead(c, d, v) \/ TrackerUpsert(c, d, v)
  \/ \E d \in Devices : RemoveDevice(c, d)
  \/ \E d \in Devices, r \in Rooms \cup {NoRoom} : AssignCheck(c, d, r)
  \/ \E r \in Rooms : UpsertRoom(c, r) \/ RemoveRoom(c, r)
  \/ \E g \in Groups : RemoveGroup(c, g)
  \/ \E g \in Groups, m \in Members : UpsertGroupCheck(c, g, m) \/ SetMembersCheck(c, g, m)

Next == \E c \in Callers : CallStep(c) \/ CallBegins(c)

Spec == Init /\ [][Next]_regVars

-----------------------------------------------------------------------------
\* Properties

\* Every map, call and pending event has its type.
TypeOK ==
  /\ rooms \subseteq Rooms
  /\ devices \in [Devices -> Device \cup {Absent}]
  /\ groups \in [Groups -> Members \cup {Absent}]
  /\ bus \in Receiver(Event)
  /\ Len(bus.buf) <= Capacity
  /\ call \in [Callers -> Call]
  /\ out \in [Callers -> Seq(Event)]
  /\ begun \in 0..MaxCalls

\* A device is in a room that exists: remove_room clears the room of every
\* device in it, and no assignment or upsert brings a removed room back.  Only
\* between the two lock sections of remove_room may a device still name it.
RoomsIntact ==
  \A d \in Registered :
    \/ devices[d].room \in rooms \cup {NoRoom}
    \/ \E c \in Callers : call[c] = [step |-> "clearRoom", room |-> devices[d].room]

\* A group's members are registered devices: remove() takes the device out of
\* every group, and no group is written with a device that is gone.  Only
\* between the two lock sections of remove() may a group still name it.
MembersIntact ==
  \A g \in Groups :
    groups[g] # Absent =>
      \A d \in Ids(groups[g]) \ Registered :
        \E c \in Callers : call[c] = [step |-> "prune", dev |-> d]

\* A device report keeps the room: the room of a device that stays registered
\* changes only by an assignment to that device or because its room is removed.
ReportsKeepRoom ==
  [][\A d \in Devices :
       (devices[d] # Absent /\ devices'[d] # Absent /\ devices'[d].room # devices[d].room)
       => \E c \in Callers :
            \/ call[c].step = "assignWrite" /\ call[c].dev = d
            \/ call[c].step = "clearRoom" /\ call[c].room = devices[d].room]_regVars

=============================================================================
