------------------------- MODULE Persistence_proofs -------------------------
(***************************************************************************)
(* Proofs about DeviceRegistry and Persistence, for all sets of            *)
(* identifiers and values, every capacity of the bus and any number of     *)
(* store errors, shutdowns and crashes.                                    *)
(*                                                                         *)
(* The first part is about the registry alone: type correctness, and, for  *)
(* callers that do not overlap, that rooms and members stay intact.  The   *)
(* second adds the worker and the tables: type correctness, what a         *)
(* reconciliation leaves, and, for callers that do not overlap, that the   *)
(* database does not silently part from the registry.                      *)
(***************************************************************************)
EXTENDS Persistence, FiniteSetTheorems, SequenceTheorems, TLAPS

-----------------------------------------------------------------------------
\* Data

\* The kinds of call, each told by its step.
UpsertCall  == [step : {"upsertCheck", "upsertWrite"},
                dev : Devices, room : Rooms \cup {NoRoom}, val : Values]
PruneCall   == [step : {"prune"}, dev : Devices]
ClearCall   == [step : {"clearRoom"}, room : Rooms]
MembersCall == [step : {"groupWrite", "membersWrite"}, group : Groups, members : Members]
AssignCall  == [step : {"assignWrite"}, dev : Devices, room : Rooms \cup {NoRoom}]

LEMMA CallIsUnion ==
  Call = {Idle} \cup UpsertCall \cup PruneCall \cup ClearCall \cup MembersCall \cup AssignCall
  BY DEF Call, UpsertCall, PruneCall, ClearCall, MembersCall, AssignCall

\* What a caller holds is told by the step it is at.
LEMMA CallAtStep ==
  ASSUME NEW k \in Call
  PROVE  /\ k.step \in {"upsertCheck", "upsertWrite"} => k \in UpsertCall
         /\ k.step = "prune" => k \in PruneCall
         /\ k.step = "clearRoom" => k \in ClearCall
         /\ k.step \in {"groupWrite", "membersWrite"} => k \in MembersCall
         /\ k.step = "assignWrite" => k \in AssignCall
<1>1. CASE k = Idle
  BY <1>1 DEF Idle
<1>2. CASE k \in UpsertCall
  BY <1>2 DEF UpsertCall
<1>3. CASE k \in PruneCall
  BY <1>3 DEF PruneCall
<1>4. CASE k \in ClearCall
  BY <1>4 DEF ClearCall
<1>5. CASE k \in MembersCall
  BY <1>5 DEF MembersCall
<1>6. CASE k \in AssignCall
  BY <1>6 DEF AssignCall
<1>. QED
  BY <1>1, <1>2, <1>3, <1>4, <1>5, <1>6, CallIsUnion

\* The registry publishes events of its own types.
LEMMA EventTypes ==
  /\ \A d \in Devices, rec \in Device : DeviceAdded(d, rec) \in Event
  /\ \A d \in Devices : /\ DeviceChanged(d) \in Event /\ DeviceSeen(d) \in Event
                        /\ DeviceRoomChanged(d) \in Event /\ DeviceRemoved(d) \in Event
  /\ \A r \in Rooms : RoomSaved(r) \in Event /\ RoomRemoved(r) \in Event
  /\ \A g \in Groups, m \in Members : GroupSaved(g, m) \in Event
  /\ \A g \in Groups : GroupMembersChanged(g) \in Event /\ GroupRemoved(g) \in Event
<1>1. ASSUME NEW d \in Devices, NEW rec \in Device
      PROVE  DeviceAdded(d, rec) \in Event
  BY DEF DeviceAdded, Event
<1>2. ASSUME NEW d \in Devices
      PROVE  /\ DeviceChanged(d) \in Event /\ DeviceSeen(d) \in Event
             /\ DeviceRoomChanged(d) \in Event /\ DeviceRemoved(d) \in Event
  BY DEF DeviceChanged, DeviceSeen, DeviceRoomChanged, DeviceRemoved, Event
<1>3. ASSUME NEW r \in Rooms
      PROVE  RoomSaved(r) \in Event /\ RoomRemoved(r) \in Event
  BY DEF RoomSaved, RoomRemoved, Event
<1>4. ASSUME NEW g \in Groups, NEW m \in Members
      PROVE  GroupSaved(g, m) \in Event
  BY DEF GroupSaved, Event
<1>5. ASSUME NEW g \in Groups
      PROVE  GroupMembersChanged(g) \in Event /\ GroupRemoved(g) \in Event
  BY DEF GroupMembersChanged, GroupRemoved, Event
<1>. QED
  BY <1>1, <1>2, <1>3, <1>4, <1>5

\* The orders in which the events of a set of changes may be published.
LEMMA Orders ==
  ASSUME NEW S, IsFiniteSet(S), NEW order \in SetToSeqs(S)
  PROVE  \E n \in Nat : /\ DOMAIN order = 1 .. n
                        /\ \A i \in 1 .. n : order[i] \in S
                        /\ \A x \in S : \E i \in 1 .. n : order[i] = x
<1>. DEFINE n == Cardinality(S)
<1>1. n \in Nat
  BY FS_CardinalityType
<1>2. order \in [1 .. n -> S]
  BY DEF SetToSeqs
<1>3. order \in Injection(1 .. n, S)
  BY <1>2 DEF SetToSeqs, Injection, IsInjective
<1>4. IsFiniteSet(1 .. n) /\ Cardinality(1 .. n) = n
  BY <1>1, FS_Interval
<1>. HIDE DEF n
<1>5. order \in Surjection(1 .. n, S)
  BY <1>3, <1>4, FS_Injection DEF n
<1>. QED
  BY <1>1, <1>2, <1>5 DEF Surjection

\* A receiver keeps its type and its bound when an event is published.
LEMMA PublishedType ==
  ASSUME NEW rx \in Receiver(Event), Len(rx.buf) <= Capacity, NEW e \in Event
  PROVE  Published(rx, e) \in Receiver(Event) /\ Len(Published(rx, e).buf) <= Capacity
<1>1. rx.buf \in Seq(Event) /\ rx.lagged \in BOOLEAN /\ Len(rx.buf) \in Nat
  BY DEF Receiver
<1>2. Capacity \in Nat /\ Capacity > 0
  BY CapacityAssumption DEF CapacityAssumption
<1>3. CASE Len(rx.buf) < Capacity
  <2>1. Published(rx, e) = [buf |-> Append(rx.buf, e), lagged |-> rx.lagged]
    BY <1>3 DEF Published, Receiver
  <2>. QED
    BY <1>1, <1>2, <1>3, <2>1 DEF Receiver
<1>4. CASE ~(Len(rx.buf) < Capacity)
  <2>1. Published(rx, e) = [buf |-> Append(Tail(rx.buf), e), lagged |-> TRUE]
    BY <1>4 DEF Published
  <2>2. rx.buf # <<>>
    BY <1>1, <1>2, <1>4
  <2>3. Tail(rx.buf) \in Seq(Event) /\ Len(Tail(rx.buf)) = Len(rx.buf) - 1
    BY <1>1, <2>2
  <2>. QED
    BY <1>1, <1>2, <1>4, <2>1, <2>3 DEF Receiver
<1>. QED
  BY <1>3, <1>4

-----------------------------------------------------------------------------
\* Type correctness

\* The maps' part of TypeOK, and the part the steps of a call share.
MapsOK ==
  /\ rooms \subseteq Rooms
  /\ devices \in [Devices -> Device \cup {Absent}]
  /\ groups \in [Groups -> Members \cup {Absent}]

CallsOK ==
  /\ bus \in Receiver(Event)
  /\ Len(bus.buf) <= Capacity
  /\ call \in [Callers -> Call]
  /\ out \in [Callers -> Seq(Event)]
  /\ begun \in 0..MaxCalls

LEMMA BegunType ==
  ASSUME CallsOK, NEW c \in Callers, NEW op, Begin(c, op)
  PROVE  begun' \in 0..MaxCalls
  BY RegistryAssumption DEF CallsOK, Begin, RegistryAssumption

LEMMA GoToType ==
  ASSUME CallsOK, NEW c \in Callers, NEW k \in Call, GoTo(c, k), begun' \in 0..MaxCalls
  PROVE  CallsOK'
  BY DEF CallsOK, GoTo

LEMMA LeaveType ==
  ASSUME CallsOK, NEW c \in Callers, NEW events \in Seq(Event), Leave(c, events),
         begun' \in 0..MaxCalls
  PROVE  CallsOK'
<1>1. Idle \in Call
  BY DEF Call
<1>. QED
  BY <1>1 DEF CallsOK, Leave

LEMMA AtType ==
  ASSUME CallsOK, NEW c \in Callers, NEW step, At(c, step)
  PROVE  call[c] \in Call /\ call[c].step = step /\ begun' \in 0..MaxCalls
  BY DEF CallsOK, At

LEMMA TypeInit == Init => TypeOK
<1>. SUFFICES ASSUME Init PROVE TypeOK
  OBVIOUS
<1>1. MapsOK
  BY DEF Init, MapsOK
<1>2. bus \in Receiver(Event) /\ Len(bus.buf) <= Capacity
  <2>1. Capacity \in Nat
    BY CapacityAssumption DEF CapacityAssumption
  <2>. QED
    BY <2>1 DEF Init, Subscribed, Receiver
<1>3. call \in [Callers -> Call] /\ out \in [Callers -> Seq(Event)]
  BY DEF Init, Call
<1>4. begun \in 0..MaxCalls
  BY RegistryAssumption DEF Init, RegistryAssumption
<1>. QED
  BY <1>1, <1>2, <1>3, <1>4 DEF TypeOK, MapsOK

\* A device's room is a room or none.
LEMMA RoomOfType ==
  ASSUME MapsOK, NEW d \in Devices
  PROVE  /\ devices[d] # Absent => devices[d] \in Device
         /\ RoomOf(d) # Absent <=> devices[d] # Absent
         /\ devices[d] # Absent => RoomOf(d) = devices[d].room /\ RoomOf(d) \in Rooms \cup {NoRoom}
<1>1. devices[d] \in Device \cup {Absent}
  BY DEF MapsOK
<1>2. Absent \notin Rooms \cup {NoRoom}
  BY RegistryAssumption DEF RegistryAssumption
<1>. QED
  BY <1>1, <1>2 DEF RoomOf, Device

LEMMA DedupedType ==
  ASSUME NEW m \in Members
  PROVE  Deduped(m) \in Members /\ Ids(Deduped(m)) = Ids(m)
<1>1. \A d \in Devices : m[d] \in 0 .. MaxRepeat /\ MaxRepeat \in Nat
  BY RegistryAssumption DEF Members, RegistryAssumption
<1>2. \A d \in Devices : (IF m[d] > 0 THEN 1 ELSE 0) \in 0 .. MaxRepeat
  BY <1>1
<1>. QED
  BY <1>1, <1>2 DEF Deduped, Members, Ids

LEMMA PublishType ==
  ASSUME MapsOK, CallsOK, NEW c \in Callers, Publish(c)
  PROVE  MapsOK' /\ CallsOK'
<1>. USE DEF Publish
<1>1. MapsOK'
  BY DEF MapsOK
<1>2. out[c] \in Seq(Event) /\ out[c] # <<>>
  BY DEF CallsOK
<1>3. Head(out[c]) \in Event /\ Tail(out[c]) \in Seq(Event)
  BY <1>2
<1>4. CallsOK'
  BY <1>3, PublishedType DEF CallsOK
<1>. QED
  BY <1>1, <1>4

LEMMA UpsertCheckType ==
  ASSUME MapsOK, CallsOK, NEW c \in Callers, UpsertCheck(c)
  PROVE  MapsOK' /\ CallsOK'
<1>1. call[c] \in Call /\ call[c].step = "upsertCheck" /\ begun' \in 0..MaxCalls
  BY AtType DEF UpsertCheck
<1>2. call[c] \in UpsertCall
  BY <1>1, CallAtStep
<1>3. [call[c] EXCEPT !.step = "upsertWrite"] \in Call /\ Idle \in Call
  BY <1>2 DEF UpsertCall, Call
<1>4. CallsOK'
  BY <1>1, <1>3, GoToType DEF UpsertCheck
<1>. QED
  BY <1>4 DEF UpsertCheck, MapsOK

LEMMA UpsertWriteType ==
  ASSUME MapsOK, CallsOK, NEW c \in Callers, UpsertWrite(c)
  PROVE  MapsOK' /\ CallsOK'
<1>. USE DEF UpsertWrite
<1>. DEFINE d   == call[c].dev
            rec == [room |-> call[c].room, val |-> call[c].val]
<1>1. call[c] \in Call /\ begun' \in 0..MaxCalls
  BY AtType
<1>2. d \in Devices /\ rec \in Device
  BY <1>1, AtType, CallAtStep DEF UpsertCall, Device
<1>3. MapsOK'
  BY <1>1, <1>2 DEF MapsOK
<1>4. DeviceSeen(d) \in Event /\ DeviceChanged(d) \in Event /\ DeviceAdded(d, rec) \in Event
  BY <1>2, EventTypes
<1>5. \/ Leave(c, <<>>)
      \/ Leave(c, <<DeviceSeen(d)>>)
      \/ Leave(c, <<DeviceChanged(d)>>)
      \/ Leave(c, <<DeviceAdded(d, rec)>>)
  BY Zenon
<1>6. CASE Leave(c, <<>>)
  <2>1. <<>> \in Seq(Event)
    OBVIOUS
  <2>. QED
    BY <1>1, <1>3, <1>6, <2>1, LeaveType
<1>7. ASSUME NEW e \in Event, Leave(c, <<e>>)
      PROVE  CallsOK'
  <2>1. <<e>> \in Seq(Event)
    BY <1>7
  <2>. QED
    BY <1>1, <1>7, <2>1, LeaveType
<1>. QED
  BY <1>3, <1>4, <1>5, <1>6, <1>7

LEMMA PruneGroupsType ==
  ASSUME MapsOK, CallsOK, NEW c \in Callers, PruneGroups(c)
  PROVE  MapsOK' /\ CallsOK'
<1>. USE DEF PruneGroups
<1>. DEFINE d == call[c].dev
            changed == {g \in Groups : groups[g] # Absent /\ groups[g][d] > 0}
<1>1. call[c] \in Call /\ begun' \in 0..MaxCalls
  BY AtType
<1>2. d \in Devices
  BY <1>1, AtType, CallAtStep DEF PruneCall
<1>3. \A m \in Members : Without(m, d) \in Members
  <2>1. 0 \in 0 .. MaxRepeat
    BY RegistryAssumption DEF RegistryAssumption
  <2>. QED
    BY <2>1 DEF Without, Members
<1>4. MapsOK'
  BY <1>1, <1>3 DEF MapsOK
<1>5. IsFiniteSet(changed)
  BY RegistryAssumption, FS_Subset DEF RegistryAssumption
<1>6. PICK order \in SetToSeqs(changed) :
        Leave(c, [i \in DOMAIN order |-> GroupMembersChanged(order[i])])
  OBVIOUS
<1>7. [i \in DOMAIN order |-> GroupMembersChanged(order[i])] \in Seq(Event)
  <2>1. PICK n \in Nat : DOMAIN order = 1 .. n /\ \A i \in 1 .. n : order[i] \in changed
    BY <1>5, <1>6, Orders
  <2>2. \A i \in 1 .. n : GroupMembersChanged(order[i]) \in Event
    BY <2>1, EventTypes
  <2>. QED
    BY <2>1, <2>2
<1>. QED
  BY <1>1, <1>4, <1>6, <1>7, LeaveType

LEMMA AssignWriteType ==
  ASSUME MapsOK, CallsOK, NEW c \in Callers, AssignWrite(c)
  PROVE  MapsOK' /\ CallsOK'
<1>. USE DEF AssignWrite
<1>. DEFINE d == call[c].dev
            r == call[c].room
<1>1. call[c] \in Call /\ begun' \in 0..MaxCalls
  BY AtType
<1>2. d \in Devices /\ r \in Rooms \cup {NoRoom}
  BY <1>1, AtType, CallAtStep DEF AssignCall
<1>3. CASE RoomOf(d) \in {Absent, r} /\ GoTo(c, Idle) /\ UNCHANGED devices
  BY <1>1, <1>3, GoToType DEF MapsOK, Call
<1>4. CASE /\ RoomOf(d) \notin {Absent, r}
           /\ devices' = [devices EXCEPT ![d].room = r]
           /\ Leave(c, <<DeviceRoomChanged(d)>>)
  <2>1. devices[d] \in Device
    BY <1>1, <1>2, <1>4, RoomOfType
  <2>2. MapsOK'
    BY <1>1, <1>2, <1>4, <2>1 DEF MapsOK, Device
  <2>3. <<DeviceRoomChanged(d)>> \in Seq(Event)
    BY <1>2, EventTypes
  <2>. QED
    BY <1>1, <1>4, <2>2, <2>3, LeaveType
<1>. QED
  BY <1>3, <1>4

LEMMA ClearRoomType ==
  ASSUME MapsOK, CallsOK, NEW c \in Callers, ClearRoom(c)
  PROVE  MapsOK' /\ CallsOK'
<1>. USE DEF ClearRoom
<1>. DEFINE r == call[c].room
            changed == {d \in Devices : RoomOf(d) = r}
<1>1. call[c] \in Call /\ begun' \in 0..MaxCalls
  BY AtType
<1>2. r \in Rooms
  BY <1>1, AtType, CallAtStep DEF ClearCall
<1>3. \A d \in changed : devices[d] \in Device
  BY <1>1, <1>2, RoomOfType, RegistryAssumption DEF RegistryAssumption
<1>4. MapsOK'
  BY <1>1, <1>3 DEF MapsOK, Device
<1>5. IsFiniteSet(changed)
  BY RegistryAssumption, FS_Subset DEF RegistryAssumption
<1>6. PICK order \in SetToSeqs(changed) :
        Leave(c, <<RoomRemoved(r)>> \o [i \in DOMAIN order |-> DeviceRoomChanged(order[i])])
  OBVIOUS
<1>7. [i \in DOMAIN order |-> DeviceRoomChanged(order[i])] \in Seq(Event)
  <2>1. PICK n \in Nat : DOMAIN order = 1 .. n /\ \A i \in 1 .. n : order[i] \in changed
    BY <1>5, <1>6, Orders
  <2>2. \A i \in 1 .. n : DeviceRoomChanged(order[i]) \in Event
    BY <2>1, EventTypes
  <2>. QED
    BY <2>1, <2>2
<1>8. <<RoomRemoved(r)>> \in Seq(Event)
  BY <1>2, EventTypes
<1>9. <<RoomRemoved(r)>> \o [i \in DOMAIN order |-> DeviceRoomChanged(order[i])] \in Seq(Event)
  BY <1>7, <1>8, ConcatProperties
<1>. QED
  BY <1>1, <1>4, <1>6, <1>9, LeaveType

LEMMA GroupWritesType ==
  ASSUME MapsOK, CallsOK, NEW c \in Callers, UpsertGroupWrite(c) \/ SetMembersWrite(c)
  PROVE  MapsOK' /\ CallsOK'
<1>. DEFINE g == call[c].group
            m == call[c].members
<1>1. call[c] \in Call /\ begun' \in 0..MaxCalls
      /\ call[c].step \in {"groupWrite", "membersWrite"}
  BY AtType DEF UpsertGroupWrite, SetMembersWrite
<1>2. g \in Groups /\ m \in Members
  BY <1>1, CallAtStep DEF MembersCall
<1>3. CASE UNCHANGED <<rooms, devices, groups>> /\ GoTo(c, Idle)
  BY <1>1, <1>3, GoToType DEF MapsOK, Call
<1>4. CASE /\ UNCHANGED <<rooms, devices>>
           /\ groups' = [groups EXCEPT ![g] = m]
           /\ \E e \in {GroupSaved(g, m), GroupMembersChanged(g)} : Leave(c, <<e>>)
  <2>1. MapsOK'
    BY <1>1, <1>2, <1>4 DEF MapsOK
  <2>2. PICK e \in {GroupSaved(g, m), GroupMembersChanged(g)} : Leave(c, <<e>>)
    BY <1>4
  <2>3. <<e>> \in Seq(Event)
    BY <1>2, EventTypes
  <2>. QED
    BY <1>1, <2>1, <2>2, <2>3, LeaveType
<1>. QED
  BY <1>3, <1>4 DEF UpsertGroupWrite, SetMembersWrite

\* The first sections, which look something up and go on.
LEMMA BeginsType ==
  ASSUME MapsOK, CallsOK, NEW c \in Callers, CallBegins(c)
  PROVE  MapsOK' /\ CallsOK'
<1>1. ASSUME NEW k \in Call, NEW op, Begin(c, op), GoTo(c, k)
      PROVE  CallsOK'
  BY <1>1, BegunType, GoToType
<1>2. ASSUME NEW e \in Event, NEW op, Begin(c, op), Leave(c, <<e>>)
      PROVE  CallsOK'
  <2>1. <<e>> \in Seq(Event)
    BY <1>2
  <2>. QED
    BY <1>2, <2>1, BegunType, LeaveType
<1>3. ASSUME NEW d \in Devices, NEW v \in Values, IngestRead(c, d, v)
      PROVE  MapsOK' /\ CallsOK'
  <2>. DEFINE k == [step |-> "upsertCheck", dev |-> d, val |-> v,
                    room |-> IF d \in Registered THEN RoomOf(d) ELSE NoRoom]
  <2>1. k \in Call
    BY RoomOfType DEF Call, Registered
  <2>2. Begin(c, "ingest") /\ GoTo(c, k) /\ UNCHANGED <<rooms, devices, groups>>
    BY <1>3 DEF IngestRead
  <2>. QED
    BY <1>1, <2>1, <2>2 DEF MapsOK
<1>4. ASSUME NEW d \in Devices, NEW v \in Values, TrackerUpsert(c, d, v)
      PROVE  MapsOK' /\ CallsOK'
  <2>. DEFINE k == [step |-> "upsertCheck", dev |-> d, val |-> v, room |-> NoRoom]
  <2>1. k \in Call
    BY DEF Call
  <2>2. Begin(c, "tracker") /\ GoTo(c, k) /\ UNCHANGED <<rooms, devices, groups>>
    BY <1>4 DEF TrackerUpsert
  <2>. QED
    BY <1>1, <2>1, <2>2 DEF MapsOK
<1>5. ASSUME NEW d \in Devices, RemoveDevice(c, d)
      PROVE  MapsOK' /\ CallsOK'
  <2>1. MapsOK'
    BY <1>5 DEF RemoveDevice, MapsOK
  <2>2. [step |-> "prune", dev |-> d] \in Call
    BY DEF Call
  <2>3. <<DeviceRemoved(d)>> \in Seq(Event)
    BY EventTypes
  <2>4. begun' \in 0..MaxCalls
    BY <1>5, BegunType DEF RemoveDevice
  <2>. QED
    BY <1>5, <2>1, <2>2, <2>3, <2>4 DEF RemoveDevice, CallsOK
<1>6. ASSUME NEW d \in Devices, NEW r \in Rooms \cup {NoRoom}, AssignCheck(c, d, r)
      PROVE  MapsOK' /\ CallsOK'
  <2>. DEFINE k == [step |-> "assignWrite", dev |-> d, room |-> r]
  <2>1. k \in Call
    BY DEF Call
  <2>2. Begin(c, "assign") /\ GoTo(c, k) /\ UNCHANGED <<rooms, devices, groups>>
    BY <1>6 DEF AssignCheck
  <2>. QED
    BY <1>1, <2>1, <2>2 DEF MapsOK
<1>7. ASSUME NEW r \in Rooms, UpsertRoom(c, r) \/ RemoveRoom(c, r)
      PROVE  MapsOK' /\ CallsOK'
  <2>1. MapsOK'
    BY <1>7 DEF UpsertRoom, RemoveRoom, MapsOK
  <2>2. RoomSaved(r) \in Event /\ [step |-> "clearRoom", room |-> r] \in Call
    BY EventTypes DEF Call
  <2>. QED
    BY <1>1, <1>2, <1>7, <2>1, <2>2 DEF UpsertRoom, RemoveRoom
<1>8. ASSUME NEW g \in Groups, RemoveGroup(c, g)
      PROVE  MapsOK' /\ CallsOK'
  <2>1. MapsOK'
    BY <1>8 DEF RemoveGroup, MapsOK
  <2>2. GroupRemoved(g) \in Event
    BY EventTypes
  <2>. QED
    BY <1>2, <1>8, <2>1, <2>2 DEF RemoveGroup
<1>9. ASSUME NEW g \in Groups, NEW m \in Members,
             UpsertGroupCheck(c, g, m) \/ SetMembersCheck(c, g, m)
      PROVE  MapsOK' /\ CallsOK'
  <2>1. m \in Members /\ Deduped(m) \in Members
    BY DedupedType
  <2>2. \A n \in Members : /\ [step |-> "groupWrite", group |-> g, members |-> n] \in Call
                           /\ [step |-> "membersWrite", group |-> g, members |-> n] \in Call
    BY DEF Call
  <2>. QED
    BY <1>1, <1>9, <2>1, <2>2 DEF UpsertGroupCheck, SetMembersCheck, MapsOK
<1>. QED
  BY <1>3, <1>4, <1>5, <1>6, <1>7, <1>8, <1>9 DEF CallBegins

LEMMA TypeNext == TypeOK /\ [Next]_regVars => TypeOK'
<1>. SUFFICES ASSUME MapsOK, CallsOK, [Next]_regVars
              PROVE  MapsOK' /\ CallsOK'
  BY DEF TypeOK, MapsOK, CallsOK
<1>1. CASE UNCHANGED regVars
  BY <1>1 DEF regVars, MapsOK, CallsOK
<1>2. ASSUME NEW c \in Callers, CallStep(c)
      PROVE  MapsOK' /\ CallsOK'
  <2>1. CASE UpsertCheck(c)
    BY <2>1, UpsertCheckType
  <2>. QED
    BY <1>2, <2>1, PublishType, UpsertWriteType, PruneGroupsType, AssignWriteType,
       ClearRoomType, GroupWritesType DEF CallStep
<1>. QED
  BY <1>1, <1>2, BeginsType DEF Next

\* Every reachable state is well typed, whatever the callers interleave: the
\* registry's maps hold whole records, and the events not yet published and
\* those a receiver can read are events of the bus, at most Capacity of them.
THEOREM TypeCorrect == Spec => []TypeOK
<1>. QED
  BY TypeInit, TypeNext, PTL DEF Spec

-----------------------------------------------------------------------------
\* Rooms and members stay intact when no two calls overlap

\* One caller is enough to express it: the next call begins when the last is
\* over, and whoever makes it makes no difference.
OneCaller == \A a, b \in Callers : a = b

\* RoomsIntact is not inductive: what a call has looked up must still hold when
\* it writes.
RoomsInv ==
  /\ RoomsIntact
  /\ \A c \in Callers :
       call[c].step \in {"upsertWrite", "assignWrite"} => call[c].room \in rooms \cup {NoRoom}

MembersInv ==
  /\ MembersIntact
  /\ \A c \in Callers :
       call[c].step \in {"groupWrite", "membersWrite"} => Ids(call[c].members) \subseteq Registered

Clearing(r) == [step |-> "clearRoom", room |-> r]
Pruning(d)  == [step |-> "prune", dev |-> d]

\* What a step of the only caller has to establish, k being where it goes.
LEMMA RoomsStep ==
  ASSUME OneCaller, CallsOK, NEW c \in Callers, NEW k, call' = [call EXCEPT ![c] = k],
         \A d \in Devices : devices'[d] # Absent =>
           devices'[d].room \in rooms' \cup {NoRoom} \/ k = Clearing(devices'[d].room),
         k.step \in {"upsertWrite", "assignWrite"} => k.room \in rooms' \cup {NoRoom}
  PROVE  RoomsInv'
<1>1. \A x \in Callers : call'[x] = k
  BY DEF OneCaller, CallsOK
<1>2. RoomsIntact'
  BY <1>1 DEF RoomsIntact, Registered, Clearing
<1>. QED
  BY <1>1, <1>2 DEF RoomsInv

LEMMA MembersStep ==
  ASSUME OneCaller, CallsOK, NEW c \in Callers, NEW k, call' = [call EXCEPT ![c] = k],
         \A g \in Groups : groups'[g] # Absent =>
           \A d \in Ids(groups'[g]) : devices'[d] # Absent \/ k = Pruning(d),
         k.step \in {"groupWrite", "membersWrite"} =>
           \A d \in Ids(k.members) : devices'[d] # Absent
  PROVE  MembersInv'
<1>1. \A x \in Callers : call'[x] = k
  BY DEF OneCaller, CallsOK
<1>2. MembersIntact'
  BY <1>1 DEF MembersIntact, Registered, Pruning, Ids
<1>. QED
  BY <1>1, <1>2 DEF MembersInv, Registered, Ids

\* What the only caller may rely on.
LEMMA RoomsHold ==
  ASSUME OneCaller, RoomsInv, NEW c \in Callers, NEW d \in Devices, devices[d] # Absent
  PROVE  devices[d].room \in rooms \cup {NoRoom} \/ call[c] = Clearing(devices[d].room)
  BY DEF OneCaller, RoomsInv, RoomsIntact, Registered, Clearing

LEMMA MembersHold ==
  ASSUME OneCaller, MembersInv, NEW c \in Callers, NEW g \in Groups, groups[g] # Absent,
         NEW d \in Ids(groups[g])
  PROVE  devices[d] # Absent \/ call[c] = Pruning(d)
  BY DEF OneCaller, MembersInv, MembersIntact, Registered, Pruning, Ids

LEMMA SerialInit == Init => RoomsInv /\ MembersInv
  BY DEF Init, RoomsInv, RoomsIntact, MembersInv, MembersIntact, Registered, Idle

\* A step that leaves the maps alone, from a section that owes them nothing.
LEMMA QuietStep ==
  ASSUME OneCaller, CallsOK, RoomsInv, MembersInv, NEW c \in Callers, NEW k,
         call' = [call EXCEPT ![c] = k], UNCHANGED <<rooms, devices, groups>>,
         call[c].step \notin {"clearRoom", "prune"},
         k.step \in {"upsertWrite", "assignWrite"} => k.room \in rooms \cup {NoRoom},
         k.step \in {"groupWrite", "membersWrite"} => Ids(k.members) \subseteq Registered
  PROVE  RoomsInv' /\ MembersInv'
<1>1. RoomsInv'
  <2>1. \A d \in Devices : devices'[d] # Absent => devices'[d].room \in rooms' \cup {NoRoom}
    <3>1. \A r : call[c] # Clearing(r)
      BY DEF Clearing
    <3>. QED
      BY <3>1, RoomsHold
  <2>. QED
    BY <2>1, RoomsStep
<1>2. MembersInv'
  <2>1. \A g \in Groups : groups'[g] # Absent =>
          \A d \in Ids(groups'[g]) : devices'[d] # Absent
    <3>1. \A d : call[c] # Pruning(d)
      BY DEF Pruning
    <3>2. \A g \in Groups : groups[g] # Absent => \A d \in Ids(groups[g]) : devices[d] # Absent
      BY <3>1, MembersHold
    <3>. QED
      BY <3>2
  <2>2. k.step \in {"groupWrite", "membersWrite"} =>
          \A d \in Ids(k.members) : devices'[d] # Absent
    BY DEF Registered
  <2>. QED
    BY <2>1, <2>2, MembersStep
<1>. QED
  BY <1>1, <1>2

\* The first sections that only look something up.
LEMMA LookupsIntact ==
  ASSUME OneCaller, CallsOK, RoomsInv, MembersInv, NEW c \in Callers,
         \/ \E d \in Devices, v \in Values : IngestRead(c, d, v) \/ TrackerUpsert(c, d, v)
         \/ \E d \in Devices, r \in Rooms \cup {NoRoom} : AssignCheck(c, d, r)
         \/ \E g \in Groups, m \in Members : UpsertGroupCheck(c, g, m) \/ SetMembersCheck(c, g, m)
  PROVE  RoomsInv' /\ MembersInv'
<1>1. ASSUME NEW k, NEW op, Begin(c, op), GoTo(c, k), UNCHANGED <<rooms, devices, groups>>,
             k.step \in {"upsertWrite", "assignWrite"} => k.room \in rooms \cup {NoRoom},
             k.step \in {"groupWrite", "membersWrite"} => Ids(k.members) \subseteq Registered
      PROVE  RoomsInv' /\ MembersInv'
  <2>1. call[c].step = "idle"
    BY <1>1 DEF Begin, Idle
  <2>. QED
    BY <1>1, <2>1, QuietStep DEF GoTo
<1>2. ASSUME NEW d \in Devices, NEW v \in Values, IngestRead(c, d, v)
      PROVE  RoomsInv' /\ MembersInv'
  <2>. DEFINE k == [step |-> "upsertCheck", dev |-> d, val |-> v,
                    room |-> IF d \in Registered THEN RoomOf(d) ELSE NoRoom]
  <2>1. Begin(c, "ingest") /\ GoTo(c, k) /\ UNCHANGED <<rooms, devices, groups>>
    BY <1>2 DEF IngestRead
  <2>2. k.step = "upsertCheck"
    OBVIOUS
  <2>. HIDE DEF k
  <2>. QED
    BY <1>1, <2>1, <2>2
<1>3. ASSUME NEW d \in Devices, NEW v \in Values, TrackerUpsert(c, d, v)
      PROVE  RoomsInv' /\ MembersInv'
  <2>. DEFINE k == [step |-> "upsertCheck", dev |-> d, val |-> v, room |-> NoRoom]
  <2>1. Begin(c, "tracker") /\ GoTo(c, k) /\ UNCHANGED <<rooms, devices, groups>>
    BY <1>3 DEF TrackerUpsert
  <2>2. k.step = "upsertCheck"
    OBVIOUS
  <2>. HIDE DEF k
  <2>. QED
    BY <1>1, <2>1, <2>2
<1>4. ASSUME NEW d \in Devices, NEW r \in Rooms \cup {NoRoom}, AssignCheck(c, d, r)
      PROVE  RoomsInv' /\ MembersInv'
  <2>. DEFINE k == [step |-> "assignWrite", dev |-> d, room |-> r]
  <2>1. Begin(c, "assign") /\ GoTo(c, k) /\ UNCHANGED <<rooms, devices, groups>>
    BY <1>4 DEF AssignCheck
  <2>2. k.step = "assignWrite" /\ k.room \in rooms \cup {NoRoom}
    BY <1>4 DEF AssignCheck
  <2>. HIDE DEF k
  <2>. QED
    BY <1>1, <2>1, <2>2
<1>5. ASSUME NEW g \in Groups, NEW m \in Members,
             UpsertGroupCheck(c, g, m) \/ SetMembersCheck(c, g, m)
      PROVE  RoomsInv' /\ MembersInv'
  <2>. DEFINE k == [step |-> "groupWrite", group |-> g, members |-> m]
              l == [step |-> "membersWrite", group |-> g, members |-> Deduped(m)]
  <2>1. /\ k.step = "groupWrite" /\ k.members = m
        /\ l.step = "membersWrite" /\ l.members = Deduped(m)
    OBVIOUS
  <2>2. Ids(k.members) \subseteq Registered /\ Ids(l.members) \subseteq Registered
    BY <1>5, <2>1, DedupedType DEF UpsertGroupCheck, SetMembersCheck
  <2>3. /\ \/ Begin(c, "addGroup") /\ GoTo(c, k)
           \/ Begin(c, "setMembers") /\ GoTo(c, l)
        /\ UNCHANGED <<rooms, devices, groups>>
    BY <1>5 DEF UpsertGroupCheck, SetMembersCheck
  <2>. HIDE DEF k, l
  <2>. QED
    BY <1>1, <2>1, <2>2, <2>3
<1>. QED
  BY <1>2, <1>3, <1>4, <1>5

LEMMA UpsertIntact ==
  ASSUME OneCaller, MapsOK, CallsOK, RoomsInv, MembersInv, NEW c \in Callers,
         UpsertCheck(c) \/ UpsertWrite(c)
  PROVE  RoomsInv' /\ MembersInv'
<1>. DEFINE d   == call[c].dev
            rec == [room |-> call[c].room, val |-> call[c].val]
<1>1. call[c] \in UpsertCall
  BY AtType, CallAtStep DEF UpsertCheck, UpsertWrite
<1>2. call[c].step \notin {"clearRoom", "prune"} /\ Idle.step = "idle"
  BY <1>1 DEF UpsertCall, Idle
<1>3. CASE UpsertCheck(c)
  <2>1. CASE call[c].room \in rooms \cup {NoRoom}
    <3>. DEFINE k == [call[c] EXCEPT !.step = "upsertWrite"]
    <3>1. k.step = "upsertWrite" /\ k.room = call[c].room
      BY <1>1 DEF UpsertCall
    <3>2. call' = [call EXCEPT ![c] = k] /\ UNCHANGED <<rooms, devices, groups>>
      BY <1>3, <2>1 DEF UpsertCheck, GoTo
    <3>. HIDE DEF k
    <3>. QED
      BY <1>2, <2>1, <3>1, <3>2, QuietStep
  <2>2. CASE call[c].room \notin rooms \cup {NoRoom}
    <3>1. call' = [call EXCEPT ![c] = Idle] /\ UNCHANGED <<rooms, devices, groups>>
      BY <1>3, <2>2 DEF UpsertCheck, GoTo
    <3>. QED
      BY <1>2, <3>1, QuietStep
  <2>. QED
    BY <2>1, <2>2
<1>4. CASE UpsertWrite(c)
  <2>1. call' = [call EXCEPT ![c] = Idle] /\ UNCHANGED <<rooms, groups>>
    BY <1>4 DEF UpsertWrite, Leave
  <2>2. devices' = [devices EXCEPT ![d] = rec] \/ UNCHANGED devices
    BY <1>4 DEF UpsertWrite
  <2>3. CASE UNCHANGED devices
    BY <1>2, <2>1, <2>3, QuietStep
  <2>4. CASE devices' = [devices EXCEPT ![d] = rec]
    <3>1. d \in Devices /\ rec \in Device /\ rec.room \in rooms \cup {NoRoom}
      BY <1>1, <1>4 DEF UpsertCall, Device, UpsertWrite, At, RoomsInv
    <3>2. \A x \in Devices : devices'[x] = IF x = d THEN rec ELSE devices[x]
      BY <2>4 DEF MapsOK
    <3>3. \A x : call[c] # Clearing(x) /\ call[c] # Pruning(x)
      BY <1>2 DEF Clearing, Pruning
    <3>4. rec # Absent
      BY <3>1, RegistryAssumption DEF Device, RegistryAssumption
    <3>. HIDE DEF d, rec
    <3>5. RoomsInv'
      <4>1. \A x \in Devices : devices'[x] # Absent => devices'[x].room \in rooms' \cup {NoRoom}
        BY <2>1, <3>1, <3>2, <3>3, RoomsHold
      <4>. QED
        BY <1>2, <2>1, <4>1, RoomsStep
    <3>6. MembersInv'
      <4>1. \A g \in Groups : groups[g] # Absent => \A x \in Ids(groups[g]) : devices[x] # Absent
        BY <3>3, MembersHold
      <4>2. \A g \in Groups : groups[g] # Absent => \A x \in Ids(groups[g]) : devices'[x] # Absent
        BY <3>2, <3>4, <4>1 DEF Ids
      <4>. QED
        BY <1>2, <2>1, <4>2, MembersStep
    <3>. QED
      BY <3>5, <3>6
  <2>. QED
    BY <2>2, <2>3, <2>4
<1>. QED
  BY <1>3, <1>4

LEMMA AssignIntact ==
  ASSUME OneCaller, MapsOK, CallsOK, RoomsInv, MembersInv, NEW c \in Callers, AssignWrite(c)
  PROVE  RoomsInv' /\ MembersInv'
<1>. DEFINE d == call[c].dev
            r == call[c].room
<1>1. call[c].step = "assignWrite" /\ d \in Devices /\ r \in rooms \cup {NoRoom}
  BY AtType, CallAtStep DEF AssignWrite, AssignCall, RoomsInv
<1>2. Idle.step = "idle" /\ \A x : call[c] # Clearing(x) /\ call[c] # Pruning(x)
  BY <1>1 DEF Idle, Clearing, Pruning
<1>3. call' = [call EXCEPT ![c] = Idle] /\ UNCHANGED <<rooms, groups>>
  BY DEF AssignWrite, GoTo, Leave
<1>4. \/ UNCHANGED devices
      \/ devices[d] # Absent /\ devices' = [devices EXCEPT ![d].room = r]
  BY <1>1, RoomOfType DEF AssignWrite
<1>5. CASE UNCHANGED devices
  BY <1>1, <1>2, <1>3, <1>5, QuietStep
<1>6. CASE devices[d] # Absent /\ devices' = [devices EXCEPT ![d].room = r]
  <2>1. /\ devices'[d].room = r
        /\ \A x \in Devices : x # d => devices'[x] = devices[x]
    BY <1>1, <1>6, RoomOfType DEF MapsOK, Device
  <2>. HIDE DEF d, r
  <2>2. RoomsInv'
    <3>1. \A x \in Devices : devices'[x] # Absent => devices'[x].room \in rooms' \cup {NoRoom}
      BY <1>1, <1>2, <1>3, <2>1, RoomsHold
    <3>. QED
      BY <1>2, <1>3, <3>1, RoomsStep
  <2>3. MembersInv'
    <3>1. devices'[d] # Absent
      BY <1>1, <1>6, RoomOfType, RegistryAssumption DEF MapsOK, Device, RegistryAssumption
    <3>2. \A g \in Groups : groups[g] # Absent => \A x \in Ids(groups[g]) : devices[x] # Absent
      BY <1>2, MembersHold
    <3>3. \A g \in Groups : groups[g] # Absent => \A x \in Ids(groups[g]) : devices'[x] # Absent
      BY <2>1, <3>1, <3>2 DEF Ids
    <3>. QED
      BY <1>2, <1>3, <3>3, MembersStep
  <2>. QED
    BY <2>2, <2>3
<1>. QED
  BY <1>4, <1>5, <1>6

\* remove(): the device goes, then its memberships.
LEMMA RemoveDeviceIntact ==
  ASSUME OneCaller, MapsOK, CallsOK, RoomsInv, MembersInv, NEW c \in Callers,
         NEW d \in Devices, RemoveDevice(c, d)
  PROVE  RoomsInv' /\ MembersInv'
<1>1. call[c] = Idle /\ call' = [call EXCEPT ![c] = Pruning(d)] /\ UNCHANGED <<rooms, groups>>
  BY DEF RemoveDevice, Begin, Pruning
<1>2. \A x \in Devices : devices'[x] = IF x = d THEN Absent ELSE devices[x]
  BY DEF RemoveDevice, MapsOK
<1>3. Pruning(d).step = "prune" /\ \A x : call[c] # Clearing(x) /\ call[c] # Pruning(x)
  BY <1>1 DEF Pruning, Clearing, Idle
<1>4. RoomsInv'
  <2>1. \A x \in Devices : devices'[x] # Absent => devices'[x].room \in rooms' \cup {NoRoom}
    BY <1>1, <1>2, <1>3, RoomsHold
  <2>. QED
    BY <1>1, <1>3, <2>1, RoomsStep
<1>5. MembersInv'
  <2>1. \A g \in Groups : groups[g] # Absent => \A x \in Ids(groups[g]) : devices[x] # Absent
    BY <1>3, MembersHold
  <2>2. \A g \in Groups : groups[g] # Absent =>
          \A x \in Ids(groups[g]) : devices'[x] # Absent \/ Pruning(d) = Pruning(x)
    BY <1>2, <2>1 DEF Ids
  <2>. QED
    BY <1>1, <1>3, <2>2, MembersStep
<1>. QED
  BY <1>4, <1>5

LEMMA PruneIntact ==
  ASSUME OneCaller, MapsOK, CallsOK, RoomsInv, MembersInv, NEW c \in Callers, PruneGroups(c)
  PROVE  RoomsInv' /\ MembersInv'
<1>. DEFINE d == call[c].dev
<1>1. d \in Devices /\ call[c] = Pruning(d)
  BY AtType, CallAtStep DEF PruneGroups, PruneCall, Pruning
<1>2. /\ call' = [call EXCEPT ![c] = Idle] /\ UNCHANGED <<rooms, devices>>
      /\ groups' = [g \in Groups |-> IF groups[g] # Absent /\ groups[g][d] > 0
                                      THEN Without(groups[g], d) ELSE groups[g]]
  BY DEF PruneGroups, Leave
<1>3. Idle.step = "idle" /\ \A r : call[c] # Clearing(r)
  BY <1>1 DEF Pruning, Clearing, Idle
<1>. HIDE DEF d
<1>4. RoomsInv'
  <2>1. \A x \in Devices : devices'[x] # Absent => devices'[x].room \in rooms' \cup {NoRoom}
    BY <1>2, <1>3, RoomsHold
  <2>. QED
    BY <1>2, <1>3, <2>1, RoomsStep
<1>5. MembersInv'
  <2>1. ASSUME NEW g \in Groups, groups'[g] # Absent, NEW x \in Ids(groups'[g])
        PROVE  devices'[x] # Absent
    <3>1. groups[g] # Absent /\ groups[g] \in Members
      BY <1>2, <2>1 DEF MapsOK
    <3>2. x \in Ids(groups[g]) /\ x # d
      <4>1. groups'[g] = IF groups[g][d] > 0 THEN Without(groups[g], d) ELSE groups[g]
        BY <1>2, <3>1
      <4>2. /\ x \in Devices /\ groups'[g][x] > 0
        BY <2>1 DEF Ids
      <4>3. CASE groups[g][d] > 0
        BY <1>1, <3>1, <4>1, <4>2, <4>3 DEF Without, Ids, Members
      <4>4. CASE ~(groups[g][d] > 0)
        BY <4>1, <4>2, <4>4 DEF Ids
      <4>. QED
        BY <4>3, <4>4
    <3>3. call[c] # Pruning(x)
      BY <1>1, <3>2 DEF Pruning
    <3>. QED
      BY <1>2, <3>1, <3>2, <3>3, MembersHold
  <2>. QED
    BY <1>2, <1>3, <2>1, MembersStep
<1>. QED
  BY <1>4, <1>5

\* upsert_room(), and remove_room(): the room goes, then the devices leave it.
LEMMA RoomStepsIntact ==
  ASSUME OneCaller, MapsOK, CallsOK, RoomsInv, MembersInv, NEW c \in Callers, NEW r \in Rooms,
         UpsertRoom(c, r) \/ RemoveRoom(c, r)
  PROVE  RoomsInv' /\ MembersInv'
<1>1. PICK k \in {Idle, Clearing(r)} :
        /\ call' = [call EXCEPT ![c] = k] /\ UNCHANGED <<devices, groups>>
        /\ k = Idle => rooms' = rooms \cup {r}
        /\ k = Clearing(r) => rooms' = rooms \ {r}
  BY DEF UpsertRoom, RemoveRoom, GoTo, Leave, Clearing, Idle
<1>2. call[c] = Idle
  BY DEF UpsertRoom, RemoveRoom, Begin
<1>3. /\ k.step \in {"idle", "clearRoom"}
      /\ \A x : call[c] # Clearing(x) /\ call[c] # Pruning(x)
  BY <1>2 DEF Clearing, Pruning, Idle
<1>4. RoomsInv'
  <2>1. \A x \in Devices : devices[x] # Absent => devices[x].room \in rooms \cup {NoRoom}
    BY <1>3, RoomsHold
  <2>2. \A x \in Devices : devices'[x] # Absent =>
          devices'[x].room \in rooms' \cup {NoRoom} \/ k = Clearing(devices'[x].room)
    BY <1>1, <2>1
  <2>. QED
    BY <1>1, <1>3, <2>2, RoomsStep
<1>5. MembersInv'
  <2>1. \A g \in Groups : groups[g] # Absent => \A x \in Ids(groups[g]) : devices[x] # Absent
    BY <1>3, MembersHold
  <2>2. \A g \in Groups : groups'[g] # Absent => \A x \in Ids(groups'[g]) : devices'[x] # Absent
    BY <1>1, <2>1
  <2>. QED
    BY <1>1, <1>3, <2>2, MembersStep
<1>. QED
  BY <1>4, <1>5

LEMMA ClearRoomIntact ==
  ASSUME OneCaller, MapsOK, CallsOK, RoomsInv, MembersInv, NEW c \in Callers, ClearRoom(c)
  PROVE  RoomsInv' /\ MembersInv'
<1>. DEFINE r == call[c].room
<1>1. r \in Rooms /\ call[c] = Clearing(r)
  BY AtType, CallAtStep DEF ClearRoom, ClearCall, Clearing
<1>2. /\ call' = [call EXCEPT ![c] = Idle] /\ UNCHANGED <<rooms, groups>>
      /\ devices' = [d \in Devices |-> IF RoomOf(d) = r THEN [devices[d] EXCEPT !.room = NoRoom]
                                                        ELSE devices[d]]
  BY DEF ClearRoom, Leave
<1>3. Idle.step = "idle" /\ \A d : call[c] # Pruning(d)
  BY <1>1 DEF Pruning, Clearing, Idle
<1>. HIDE DEF r
<1>4. ASSUME NEW d \in Devices
      PROVE  /\ devices'[d] # Absent <=> devices[d] # Absent
             /\ devices'[d] # Absent => devices'[d].room \in rooms \cup {NoRoom}
  <2>1. CASE RoomOf(d) = r
    <3>1. devices[d] # Absent /\ devices[d] \in Device
      BY <1>1, <2>1, RoomOfType, RegistryAssumption DEF RegistryAssumption
    <3>2. devices'[d] = [devices[d] EXCEPT !.room = NoRoom]
      BY <1>2, <2>1
    <3>3. devices'[d] \in Device /\ devices'[d].room = NoRoom
      BY <3>1, <3>2 DEF Device
    <3>. QED
      BY <3>1, <3>3, RegistryAssumption DEF Device, RegistryAssumption
  <2>2. CASE RoomOf(d) # r
    <3>1. devices'[d] = devices[d]
      BY <1>2, <2>2
    <3>2. devices[d] # Absent => call[c] # Clearing(devices[d].room)
      BY <1>1, <2>2, RoomOfType DEF Clearing
    <3>. QED
      BY <3>1, <3>2, RoomsHold
  <2>. QED
    BY <2>1, <2>2
<1>5. RoomsInv'
  BY <1>2, <1>3, <1>4, RoomsStep
<1>6. MembersInv'
  <2>1. \A g \in Groups : groups[g] # Absent => \A x \in Ids(groups[g]) : devices[x] # Absent
    BY <1>3, MembersHold
  <2>2. \A g \in Groups : groups[g] # Absent => \A x \in Ids(groups[g]) : devices'[x] # Absent
    BY <1>4, <2>1 DEF Ids
  <2>. QED
    BY <1>2, <1>3, <2>2, MembersStep
<1>. QED
  BY <1>5, <1>6

\* Every section that may change the groups map, m being the list it leaves.
LEMMA GroupStepsIntact ==
  ASSUME OneCaller, MapsOK, CallsOK, RoomsInv, MembersInv, NEW c \in Callers,
         UpsertGroupWrite(c) \/ SetMembersWrite(c) \/ \E g \in Groups : RemoveGroup(c, g)
  PROVE  RoomsInv' /\ MembersInv'
<1>1. PICK m :
        /\ call' = [call EXCEPT ![c] = Idle] /\ UNCHANGED <<rooms, devices>>
        /\ UNCHANGED groups \/ \E g \in Groups : groups' = [groups EXCEPT ![g] = m]
        /\ m # Absent => Ids(m) \subseteq Registered
        /\ call[c].step \notin {"clearRoom", "prune"}
  <2>1. CASE UpsertGroupWrite(c)
    <3>1. call[c].step = "groupWrite" /\ call[c].group \in Groups
      BY <2>1, AtType, CallAtStep DEF UpsertGroupWrite, MembersCall
    <3>2. Ids(call[c].members) \subseteq Registered
      BY <3>1 DEF MembersInv
    <3>. QED
      BY <2>1, <3>1, <3>2 DEF UpsertGroupWrite, Leave
  <2>2. CASE SetMembersWrite(c)
    <3>1. call[c].step = "membersWrite" /\ call[c].group \in Groups
      BY <2>2, AtType, CallAtStep DEF SetMembersWrite, MembersCall
    <3>2. Ids(call[c].members) \subseteq Registered
      BY <3>1 DEF MembersInv
    <3>. QED
      BY <2>2, <3>1, <3>2 DEF SetMembersWrite, Leave, GoTo
  <2>3. ASSUME NEW g \in Groups, RemoveGroup(c, g)
        PROVE  /\ call' = [call EXCEPT ![c] = Idle] /\ UNCHANGED <<rooms, devices>>
               /\ groups' = [groups EXCEPT ![g] = Absent]
               /\ call[c].step = "idle"
    BY <2>3 DEF RemoveGroup, Begin, Leave, Idle
  <2>. QED
    BY <2>1, <2>2, <2>3
<1>2. Idle.step = "idle" /\ \A x : call[c] # Clearing(x) /\ call[c] # Pruning(x)
  BY <1>1 DEF Idle, Clearing, Pruning
<1>3. RoomsInv'
  <2>1. \A x \in Devices : devices'[x] # Absent => devices'[x].room \in rooms' \cup {NoRoom}
    BY <1>1, <1>2, RoomsHold
  <2>. QED
    BY <1>1, <1>2, <2>1, RoomsStep
<1>4. MembersInv'
  <2>1. \A h \in Groups : groups[h] # Absent => \A x \in Ids(groups[h]) : devices[x] # Absent
    BY <1>2, MembersHold
  <2>2. \A h \in Groups : groups'[h] = groups[h] \/ groups'[h] = m
    BY <1>1 DEF MapsOK
  <2>3. \A h \in Groups : groups'[h] # Absent => \A x \in Ids(groups'[h]) : devices'[x] # Absent
    BY <1>1, <2>1, <2>2 DEF Registered
  <2>. QED
    BY <1>1, <1>2, <2>3, MembersStep
<1>. QED
  BY <1>3, <1>4

LEMMA SerialNext ==
  ASSUME OneCaller, TypeOK, RoomsInv, MembersInv, [Next]_regVars
  PROVE  RoomsInv' /\ MembersInv'
<1>1. MapsOK /\ CallsOK
  BY DEF TypeOK, MapsOK, CallsOK
<1>2. CASE UNCHANGED <<rooms, devices, groups, call>>
  BY <1>2 DEF RoomsInv, RoomsIntact, MembersInv, MembersIntact, Registered
<1>3. ASSUME NEW c \in Callers, CallStep(c)
      PROVE  RoomsInv' /\ MembersInv'
  <2>1. CASE Publish(c)
    BY <1>2, <2>1 DEF Publish
  <2>. QED
    BY <1>1, <1>3, <2>1, UpsertIntact, AssignIntact, PruneIntact, ClearRoomIntact,
       GroupStepsIntact DEF CallStep
<1>4. ASSUME NEW c \in Callers, CallBegins(c)
      PROVE  RoomsInv' /\ MembersInv'
  BY <1>1, <1>4, LookupsIntact, RemoveDeviceIntact, RoomStepsIntact, GroupStepsIntact
     DEF CallBegins
<1>. QED
  BY <1>2, <1>3, <1>4 DEF Next, regVars

\* When no two calls overlap, every device is in a room that exists and every
\* group's members are registered, except between the two lock sections of the
\* removal that is about to restore it.
THEOREM SerialIntact ==
  ASSUME \A a, b \in Callers : a = b
  PROVE  Spec => [](RoomsIntact /\ MembersIntact)
<1>1. OneCaller
  BY DEF OneCaller
<1>2. Init => TypeOK /\ RoomsInv /\ MembersInv
  BY TypeInit, SerialInit
<1>3. TypeOK /\ RoomsInv /\ MembersInv /\ [Next]_regVars => (TypeOK /\ RoomsInv /\ MembersInv)'
  BY <1>1, TypeNext, SerialNext
<1>4. RoomsInv /\ MembersInv => RoomsIntact /\ MembersIntact
  BY DEF RoomsInv, MembersInv
<1>. QED
  BY <1>2, <1>3, <1>4, PTL DEF Spec

-----------------------------------------------------------------------------
\* The worker and the tables: data

Identifiers == Rooms \cup Devices \cup Groups

\* An event is about one key, and its type tells what it carries.
LEMMA EventKinds ==
  ASSUME NEW e \in Event
  PROVE  /\ e.type \in {"DeviceAdded", "DeviceStateChanged", "DeviceSeen", "DeviceRoomChanged",
                        "DeviceRemoved", "RoomSaved", "RoomRemoved", "GroupSaved",
                        "GroupMembersChanged", "GroupRemoved"}
         /\ e.type \in {"DeviceAdded", "DeviceStateChanged", "DeviceSeen", "DeviceRoomChanged",
                        "DeviceRemoved"} => e.dev \in Devices /\ Keys(e) = {e.dev}
         /\ e.type = "DeviceAdded" => e.rec \in Device
         /\ e.type \in {"RoomSaved", "RoomRemoved"} => e.room \in Rooms /\ Keys(e) = {e.room}
         /\ e.type \in {"GroupSaved", "GroupMembersChanged", "GroupRemoved"} =>
              e.group \in Groups /\ Keys(e) = {e.group}
         /\ e.type = "GroupSaved" => e.members \in Members
<1>1. CASE e \in [type : {"DeviceAdded"}, dev : Devices, rec : Device]
  BY <1>1 DEF Keys
<1>2. CASE e \in [type : {"DeviceStateChanged", "DeviceSeen", "DeviceRoomChanged",
                          "DeviceRemoved"}, dev : Devices]
  BY <1>2 DEF Keys
<1>3. CASE e \in [type : {"RoomSaved", "RoomRemoved"}, room : Rooms]
  BY <1>3 DEF Keys
<1>4. CASE e \in [type : {"GroupSaved"}, group : Groups, members : Members]
  BY <1>4 DEF Keys
<1>5. CASE e \in [type : {"GroupMembersChanged", "GroupRemoved"}, group : Groups]
  BY <1>5 DEF Keys
<1>. QED
  BY <1>1, <1>2, <1>3, <1>4, <1>5 DEF Event

LEMMA KeyOf ==
  ASSUME NEW e \in Event
  PROVE  \E k \in Identifiers : Keys(e) = {k}
  BY EventKinds DEF Identifiers

\* The writes, told by their op.
LEMMA WriteKinds ==
  ASSUME NEW w \in Write
  PROVE  /\ w.op \in {"saveRoom", "deleteRoom", "saveDevice", "deleteDevice", "saveGroup",
                      "deleteGroup"}
         /\ w.op \in {"saveRoom", "deleteRoom"} => w.id \in Rooms
         /\ w.op \in {"saveDevice", "deleteDevice"} => w.id \in Devices
         /\ w.op \in {"saveGroup", "deleteGroup"} => w.id \in Groups
         /\ w.op = "saveDevice" => w.rec \in Device
         /\ w.op = "saveGroup" => w.members \in Members
         /\ w.id \in Identifiers
<1>1. CASE w \in [op : {"saveRoom", "deleteRoom"}, id : Rooms]
  BY <1>1 DEF Identifiers
<1>2. CASE w \in [op : {"saveDevice"}, id : Devices, rec : Device]
  BY <1>2 DEF Identifiers
<1>3. CASE w \in [op : {"deleteDevice"}, id : Devices]
  BY <1>3 DEF Identifiers
<1>4. CASE w \in [op : {"saveGroup"}, id : Groups, members : Members]
  BY <1>4 DEF Identifiers
<1>5. CASE w \in [op : {"deleteGroup"}, id : Groups]
  BY <1>5 DEF Identifiers
<1>. QED
  BY <1>1, <1>2, <1>3, <1>4, <1>5 DEF Write

LEMMA WriteTypes ==
  /\ \A r \in Rooms : SaveRoom(r) \in Write /\ DeleteRoom(r) \in Write
  /\ \A d \in Devices, rec \in Device : SaveDevice(d, rec) \in Write
  /\ \A d \in Devices : DeleteDevice(d) \in Write
  /\ \A g \in Groups, m \in Members : SaveGroup(g, m) \in Write
  /\ \A g \in Groups : DeleteGroup(g) \in Write
<1>1. \A r \in Rooms : SaveRoom(r) \in Write /\ DeleteRoom(r) \in Write
  BY DEF SaveRoom, DeleteRoom, Write
<1>2. \A d \in Devices, rec \in Device : SaveDevice(d, rec) \in Write
  BY DEF SaveDevice, Write
<1>3. \A d \in Devices : DeleteDevice(d) \in Write
  BY DEF DeleteDevice, Write
<1>4. \A g \in Groups, m \in Members : SaveGroup(g, m) \in Write
  BY DEF SaveGroup, Write
<1>5. \A g \in Groups : DeleteGroup(g) \in Write
  BY DEF DeleteGroup, Write
<1>. QED
  BY <1>1, <1>2, <1>3, <1>4, <1>5

\* What a write leaves in each table: its own key's row, and what the schema
\* does to the rows that refer to a deleted one.
LEMMA AppliedRows ==
  ASSUME db \in Tables, NEW w \in Write, db' = Applied(w)
  PROVE  /\ db' \in Tables
         /\ \A r \in Rooms : r \in db'.rooms <=>
              IF w.id = r THEN w.op = "saveRoom" ELSE r \in db.rooms
         /\ \A d \in Devices : db'.devices[d] =
              IF w.id = d THEN IF w.op = "saveDevice" THEN w.rec ELSE Absent
              ELSE IF w.op = "deleteRoom" /\ db.devices[d] # Absent /\ db.devices[d].room = w.id
                   THEN [db.devices[d] EXCEPT !.room = NoRoom]
                   ELSE db.devices[d]
         /\ \A g \in Groups : db'.groups[g] =
              IF w.id = g THEN IF w.op = "saveGroup" THEN w.members ELSE Absent
              ELSE IF w.op = "deleteDevice" /\ db.groups[g] # Absent
                   THEN Without(db.groups[g], w.id)
                   ELSE db.groups[g]
<1>0. /\ Rooms \cap Devices = {} /\ Rooms \cap Groups = {} /\ Devices \cap Groups = {}
      /\ 0 \in 0 .. MaxRepeat
  BY PersistenceAssumption, RegistryAssumption DEF PersistenceAssumption, RegistryAssumption
<1>1. CASE w.op = "saveRoom"
  <2>1. w.id \in Rooms /\ db' = [db EXCEPT !.rooms = @ \cup {w.id}]
    BY <1>1, WriteKinds DEF Applied
  <2>. QED
    BY <1>0, <1>1, <2>1 DEF Tables
<1>2. CASE w.op = "deleteRoom"
  <2>1. w.id \in Rooms /\ db' = RoomDeleted(w.id)
    BY <1>2, WriteKinds DEF Applied
  <2>2. \A rec \in Device : [rec EXCEPT !.room = NoRoom] \in Device
    BY DEF Device
  <2>3. /\ db' = [rooms |-> db.rooms \ {w.id}, devices |-> db'.devices, groups |-> db.groups]
        /\ db'.devices = [d \in Devices |->
             IF db.devices[d] # Absent /\ db.devices[d].room = w.id
               THEN [db.devices[d] EXCEPT !.room = NoRoom] ELSE db.devices[d]]
    BY <2>1 DEF Tables, RoomDeleted
  <2>4. db'.devices \in [Devices -> Device \cup {Absent}]
    BY <2>2, <2>3 DEF Tables
  <2>5. db' \in Tables
    BY <2>3, <2>4 DEF Tables
  <2>6. \A d \in Devices : w.id # d
    BY <1>0, <2>1
  <2>7. \A g \in Groups : w.id # g
    BY <1>0, <2>1
  <2>8. \A r \in Rooms : r \in db'.rooms <=> (r # w.id /\ r \in db.rooms)
    BY <2>3
  <2>9. db'.groups = db.groups
    BY <2>3
  <2>. QED
    BY <1>2, <2>3, <2>5, <2>6, <2>7, <2>8, <2>9
<1>3. CASE w.op = "saveDevice"
  <2>1. w.id \in Devices /\ w.rec \in Device /\ db' = [db EXCEPT !.devices[w.id] = w.rec]
    BY <1>3, WriteKinds DEF Applied
  <2>. QED
    BY <1>0, <1>3, <2>1 DEF Tables
<1>4. CASE w.op = "deleteDevice"
  <2>1. w.id \in Devices /\ db' = DeviceDeleted(w.id)
    BY <1>4, WriteKinds DEF Applied
  <2>2. \A m \in Members : Without(m, w.id) \in Members
    BY <1>0 DEF Members, Without
  <2>3. /\ db' = [rooms |-> db.rooms, devices |-> db'.devices, groups |-> db'.groups]
        /\ db'.devices = [db.devices EXCEPT ![w.id] = Absent]
        /\ db'.groups = [g \in Groups |-> IF db.groups[g] # Absent
                                            THEN Without(db.groups[g], w.id) ELSE Absent]
    BY <2>1 DEF Tables, DeviceDeleted
  <2>4. db.groups \in [Groups -> Members \cup {Absent}]
        /\ db.devices \in [Devices -> Device \cup {Absent}]
        /\ db.rooms \in SUBSET Rooms
    BY DEF Tables
  <2>5. db' \in Tables
    <3>1. db'.devices \in [Devices -> Device \cup {Absent}]
      BY <2>1, <2>3, <2>4
    <3>2. db'.groups \in [Groups -> Members \cup {Absent}]
      BY <2>2, <2>3, <2>4
    <3>. QED
      BY <2>3, <2>4, <3>1, <3>2 DEF Tables
  <2>6. /\ \A r \in Rooms : w.id # r
        /\ \A g \in Groups : w.id # g
    BY <1>0, <2>1
  <2>7. db'.rooms = db.rooms
    BY <2>3
  <2>8. \A d \in Devices : db'.devices[d] = IF w.id = d THEN Absent ELSE db.devices[d]
    BY <2>3 DEF Tables
  <2>. QED
    BY <1>4, <2>3, <2>5, <2>6, <2>7, <2>8
<1>5. CASE w.op = "saveGroup"
  <2>1. w.id \in Groups /\ w.members \in Members /\ db' = [db EXCEPT !.groups[w.id] = w.members]
    BY <1>5, WriteKinds DEF Applied
  <2>. QED
    BY <1>0, <1>5, <2>1 DEF Tables
<1>6. CASE w.op = "deleteGroup"
  <2>1. w.id \in Groups /\ db' = [db EXCEPT !.groups[w.id] = Absent]
    BY <1>6, WriteKinds DEF Applied
  <2>. QED
    BY <1>0, <1>6, <2>1 DEF Tables
<1>. QED
  BY <1>1, <1>2, <1>3, <1>4, <1>5, <1>6, WriteKinds

-----------------------------------------------------------------------------
\* Type correctness

LEMMA NoRowsType == NoRows \in Tables
  BY DEF NoRows, Tables

LEMMA SubscribedType == Subscribed \in Receiver(Event) /\ Len(Subscribed.buf) <= Capacity
<1>1. Capacity \in Nat
  BY CapacityAssumption DEF CapacityAssumption
<1>. QED
  BY <1>1 DEF Subscribed, Receiver

LEMMA ReceivedType ==
  ASSUME NEW rx \in Receiver(Event), Len(rx.buf) <= Capacity
  PROVE  /\ AfterLagged(rx) \in Receiver(Event) /\ Len(AfterLagged(rx).buf) <= Capacity
         /\ rx.buf # <<>> =>
              /\ AfterEvent(rx) \in Receiver(Event) /\ Len(AfterEvent(rx).buf) <= Capacity
              /\ Head(rx.buf) \in Event
<1>1. rx.buf \in Seq(Event) /\ Capacity \in Nat
  BY CapacityAssumption DEF Receiver, CapacityAssumption
<1>2. AfterLagged(rx) \in Receiver(Event) /\ Len(AfterLagged(rx).buf) <= Capacity
  BY DEF AfterLagged, Receiver
<1>3. ASSUME rx.buf # <<>>
      PROVE  /\ AfterEvent(rx) \in Receiver(Event) /\ Len(AfterEvent(rx).buf) <= Capacity
             /\ Head(rx.buf) \in Event
  <2>1. Tail(rx.buf) \in Seq(Event) /\ Len(Tail(rx.buf)) = Len(rx.buf) - 1
        /\ Head(rx.buf) \in Event /\ Len(rx.buf) \in Nat
    BY <1>1, <1>3
  <2>3. Len(Tail(rx.buf)) <= Capacity
    BY <1>1, <2>1
  <2>4. AfterEvent(rx) \in Receiver(Event) /\ AfterEvent(rx).buf = Tail(rx.buf)
    BY <2>1 DEF AfterEvent, Receiver
  <2>. QED
    BY <2>1, <2>3, <2>4
<1>. QED
  BY <1>2, <1>3

LEMMA PlansType ==
  ASSUME MapsOK
  PROVE  /\ \A e \in Event : WritesFor(e) \subseteq Write
         /\ {SaveDevice(d, devices[d]) : d \in {x \in Registered : RoomOf(x) = NoRoom}} \subseteq Write
         /\ db \in Tables /\ snap \in Tables =>
              ReconcilePlan(snap.rooms, snap.groups, devices) \subseteq Write
<1>1. \A d \in Registered : d \in Devices /\ devices[d] \in Device
  BY DEF MapsOK, Registered
<1>2. ASSUME NEW e \in Event
      PROVE  WritesFor(e) \subseteq Write
  <2>1. CASE e.type = "DeviceAdded"
    BY <2>1, EventKinds, WriteTypes DEF WritesFor
  <2>2. CASE e.type = "DeviceRemoved"
    BY <2>2, EventKinds, WriteTypes DEF WritesFor
  <2>3. CASE e.type \in {"DeviceStateChanged", "DeviceSeen", "DeviceRoomChanged"}
    BY <1>1, <2>3, EventKinds, WriteTypes DEF WritesFor, SaveIfPresent
  <2>4. CASE e.type \in {"RoomSaved", "RoomRemoved"}
    BY <2>4, EventKinds, WriteTypes DEF WritesFor
  <2>5. CASE e.type \in {"GroupSaved", "GroupRemoved"}
    BY <2>5, EventKinds, WriteTypes DEF WritesFor
  <2>6. CASE e.type = "GroupMembersChanged"
    <3>1. e.group \in Groups /\ groups[e.group] \in Members \cup {Absent}
      BY <2>6, EventKinds DEF MapsOK
    <3>. QED
      BY <2>6, <3>1, WriteTypes DEF WritesFor
  <2>. QED
    BY <2>1, <2>2, <2>3, <2>4, <2>5, <2>6, EventKinds
<1>3. {SaveDevice(d, devices[d]) : d \in {x \in Registered : RoomOf(x) = NoRoom}} \subseteq Write
  BY <1>1, WriteTypes
<1>4. ASSUME db \in Tables, snap \in Tables
      PROVE  ReconcilePlan(snap.rooms, snap.groups, devices) \subseteq Write
  <2>1. /\ db.rooms \subseteq Rooms /\ snap.rooms \subseteq Rooms
        /\ \A g \in Groups : snap.groups[g] # Absent => snap.groups[g] \in Members
        /\ \A d \in Devices : devices[d] # Absent => devices[d] \in Device
    BY <1>4 DEF Tables, MapsOK
  <2>2. {DeleteRoom(r) : r \in db.rooms \ snap.rooms} \cup {SaveRoom(r) : r \in snap.rooms}
          \subseteq Write
    BY <2>1, WriteTypes
  <2>3. \A S \in SUBSET Groups : {DeleteGroup(g) : g \in S} \subseteq Write
    BY WriteTypes
  <2>4. {SaveGroup(g, snap.groups[g]) : g \in {x \in Groups : snap.groups[x] # Absent}}
          \subseteq Write
    BY <2>1, WriteTypes
  <2>5. \A S \in SUBSET Devices : {DeleteDevice(d) : d \in S} \subseteq Write
    BY WriteTypes
  <2>6. {SaveDevice(d, devices[d]) : d \in {x \in Devices : devices[x] # Absent}} \subseteq Write
    BY <2>1, WriteTypes
  <2>. QED
    BY <2>2, <2>3, <2>4, <2>5, <2>6 DEF ReconcilePlan
<1>. QED
  BY <1>2, <1>3, <1>4

\* The worker's part of PersistTypeOK.
WorkerOK ==
  /\ db \in Tables /\ snap \in Tables
  /\ mode \in {"starting", "up", "stopping", "flushing", "down"}
  /\ job \in {"none", "sweep", "snapGroups", "snapDevices", "reconcile"}
  /\ todo \subseteq Write
  /\ owed \cup missed \subseteq Identifiers
  /\ incidents \in 0 .. MaxIncidents

LEMMA PersistTypeParts == PersistTypeOK <=> MapsOK /\ CallsOK /\ WorkerOK
  BY DEF PersistTypeOK, TypeOK, MapsOK, CallsOK, WorkerOK, Identifiers

LEMMA PersistTypeInit == PersistInit => PersistTypeOK
<1>. SUFFICES ASSUME PersistInit PROVE PersistTypeOK
  OBVIOUS
<1>1. MapsOK /\ CallsOK
  BY TypeInit DEF PersistInit, TypeOK, MapsOK, CallsOK
<1>2. WorkerOK
  BY NoRowsType, PersistenceAssumption DEF PersistInit, WorkerOK, PersistenceAssumption
<1>. QED
  BY <1>1, <1>2, PersistTypeParts

LEMMA WorkerType ==
  ASSUME MapsOK, CallsOK, WorkerOK, Worker
  PROVE  MapsOK' /\ CallsOK' /\ WorkerOK'
<1>0. /\ bus \in Receiver(Event) /\ Len(bus.buf) <= Capacity
      /\ db \in Tables /\ snap \in Tables /\ NoRows \in Tables
      /\ \A w \in todo : w \in Write /\ w.id \in Identifiers
  BY NoRowsType, WriteKinds DEF CallsOK, WorkerOK
<1>1. CASE WorkerSubscribe
  <2>1. missed' \subseteq Identifiers
    <3>1. \A e \in Range(bus.buf) : e \in Event
      BY <1>0 DEF Receiver, Range
    <3>2. \A e \in Range(bus.buf) : Keys(e) \subseteq Identifiers
      BY <3>1, KeyOf
    <3>. QED
      BY <1>1, <3>2 DEF WorkerSubscribe, Identifiers
  <2>. QED
    BY <1>1, <2>1, SubscribedType DEF WorkerSubscribe, MapsOK, CallsOK, WorkerOK
<1>2. CASE WorkerRecv
  <2>1. bus.buf # <<>>
    BY <1>2 DEF WorkerRecv, HasEvent
  <2>2. todo' = WritesFor(Head(bus.buf)) /\ bus' = AfterEvent(bus) /\ job' \in {"sweep", "none"}
    BY <1>2 DEF WorkerRecv
  <2>3. todo' \subseteq Write
    BY <1>0, <2>1, <2>2, ReceivedType, PlansType
  <2>. QED
    BY <1>0, <1>2, <2>1, <2>2, <2>3, ReceivedType DEF WorkerRecv, MapsOK, CallsOK, WorkerOK
<1>3. CASE Sweep
  BY <1>3, PlansType DEF Sweep, regVars, MapsOK, CallsOK, WorkerOK
<1>5. CASE WorkerLag \/ WorkerShutdown
  <2>1. snap' \in Tables /\ job' = "snapGroups" /\ UNCHANGED <<db, todo, owed, missed, incidents>>
    BY <1>5 DEF WorkerLag, WorkerShutdown, SnapRooms, Tables, NoRows, MapsOK
  <2>2. bus' \in {bus, AfterLagged(bus)} /\ mode' \in {mode, "flushing"}
        /\ UNCHANGED <<rooms, devices, groups, call, out, begun>>
    BY <1>5 DEF WorkerLag, WorkerShutdown, regVars
  <2>. QED
    BY <1>0, <2>1, <2>2, ReceivedType DEF MapsOK, CallsOK, WorkerOK
<1>6. CASE SnapGroups
  <2>1. snap' \in Tables
    BY <1>0, <1>6 DEF SnapGroups, Tables, MapsOK
  <2>. QED
    BY <1>6, <2>1 DEF SnapGroups, regVars, MapsOK, CallsOK, WorkerOK
<1>7. CASE SnapDevices
  <2>1. snap' \in Tables
    BY <1>0, <1>7 DEF SnapDevices, Tables, MapsOK
  <2>. QED
    BY <1>0, <1>7, <2>1, PlansType DEF SnapDevices, regVars, MapsOK, CallsOK, WorkerOK
<1>8. CASE WriteOk
  <2>1. PICK w \in todo : db' = Applied(w) /\ todo' = todo \ {w} /\ owed' = owed \ {w.id}
    BY <1>8 DEF WriteOk, Due, Remaining
  <2>2. db' \in Tables
    BY <1>0, <2>1, AppliedRows
  <2>. QED
    BY <1>8, <2>1, <2>2 DEF WriteOk, regVars, MapsOK, CallsOK, WorkerOK
<1>9. CASE WriteFailed
  <2>1. /\ owed' \subseteq owed \cup {w.id : w \in todo} /\ todo' \subseteq todo
        /\ job' \in {"none", job} /\ snap' \in {NoRows, snap}
    BY <1>9 DEF WriteFailed, Due, Remaining
  <2>2. incidents' \in 0 .. MaxIncidents
    BY <1>9, PersistenceAssumption DEF WriteFailed, WorkerOK, PersistenceAssumption
  <2>3. UNCHANGED <<regVars, db, mode, missed>>
    BY <1>9 DEF WriteFailed
  <2>4. {w.id : w \in todo} \subseteq Identifiers
    BY <1>0
  <2>. QED
    BY <1>0, <2>1, <2>2, <2>3, <2>4 DEF regVars, MapsOK, CallsOK, WorkerOK
<1>10. CASE ReconcileDone \/ WorkerExit
  BY <1>0, <1>10 DEF ReconcileDone, WorkerExit, regVars, MapsOK, CallsOK, WorkerOK
<1>. QED
  BY <1>1, <1>2, <1>3, <1>5, <1>6, <1>7, <1>8, <1>9, <1>10 DEF Worker

LEMMA RestartType ==
  ASSUME MapsOK, CallsOK, WorkerOK, Restart
  PROVE  MapsOK' /\ CallsOK' /\ WorkerOK'
<1>1. db.rooms \subseteq Rooms /\ db.devices \in [Devices -> Device \cup {Absent}]
      /\ db.groups \in [Groups -> Members \cup {Absent}]
  BY DEF WorkerOK, Tables
<1>2. \A g \in Groups : groups'[g] \in Members \cup {Absent}
  <2>1. 0 \in 0 .. MaxRepeat
    BY RegistryAssumption DEF RegistryAssumption
  <2>. QED
    BY <1>1, <2>1 DEF Restart, Members
<1>3. MapsOK'
  <2>1. groups' \in [Groups -> Members \cup {Absent}]
    BY <1>2 DEF Restart
  <2>. QED
    BY <1>1, <2>1 DEF Restart, MapsOK
<1>4. CallsOK'
  <2>1. Idle \in Call /\ <<>> \in Seq(Event)
    BY DEF Call
  <2>. QED
    BY <2>1, SubscribedType DEF Restart, CallsOK
<1>5. WorkerOK'
  BY NoRowsType DEF Restart, WorkerOK
<1>. QED
  BY <1>3, <1>4, <1>5

LEMMA PersistTypeNext == PersistTypeOK /\ [PersistNext]_vars => PersistTypeOK'
<1>. SUFFICES ASSUME MapsOK, CallsOK, WorkerOK, [PersistNext]_vars
              PROVE  MapsOK' /\ CallsOK' /\ WorkerOK'
  BY DEF PersistTypeOK, TypeOK, MapsOK, CallsOK, WorkerOK, Identifiers
<1>1. CASE Worker
  BY <1>1, WorkerType
<1>2. ASSUME NEW c \in Callers, InFlight(c) \/ Arrives(c)
      PROVE  MapsOK' /\ CallsOK' /\ WorkerOK'
  <2>1. Next /\ UNCHANGED workerVars
    BY <1>2 DEF InFlight, Arrives, Next
  <2>2. MapsOK' /\ CallsOK'
    BY <2>1, TypeNext DEF TypeOK, MapsOK, CallsOK
  <2>. QED
    BY <2>1, <2>2 DEF workerVars, WorkerOK
<1>3. CASE Shutdown \/ Crash
  <2>1. incidents' \in 0 .. MaxIncidents
    BY <1>3, PersistenceAssumption DEF Shutdown, Crash, WorkerOK, PersistenceAssumption
  <2>. QED
    BY <1>3, <2>1, NoRowsType DEF Shutdown, Crash, regVars, MapsOK, CallsOK, WorkerOK
<1>4. CASE Restart
  BY <1>4, RestartType
<1>5. CASE UNCHANGED vars
  BY <1>5 DEF vars, regVars, workerVars, MapsOK, CallsOK, WorkerOK
<1>. QED
  BY <1>1, <1>2, <1>3, <1>4, <1>5 DEF PersistNext

\* The registry, the tables and the worker's plans hold whole records in every
\* reachable state, whatever is lost, refused, late or restarted.
THEOREM PersistTypeCorrect == PersistSpec => []PersistTypeOK
<1>. QED
  BY PersistTypeInit, PersistTypeNext, PTL DEF PersistSpec

-----------------------------------------------------------------------------
\* What a reconciliation leaves

\* A write for this key is still in hand.
InHand(k) == \E w \in todo : w.id = k

\* No two writes in hand are for one key.
OneEach == \A w, x \in todo : w.id = x.id => w = x

\* A write gives its key what the snapshot has.
ForSnap(w) ==
  /\ w.op = "saveRoom" => w.id \in snap.rooms
  /\ w.op = "deleteRoom" => w.id \notin snap.rooms
  /\ w.op = "saveDevice" => snap.devices[w.id] = w.rec
  /\ w.op = "deleteDevice" => snap.devices[w.id] = Absent
  /\ w.op = "saveGroup" => snap.groups[w.id] = w.members
  /\ w.op = "deleteGroup" => snap.groups[w.id] = Absent

\* A group as the snapshot has it, but for the members the tables do not know:
\* those that the snapshot has no device for go with their device's row.
GroupForSnap(g) ==
  IF snap.groups[g] = Absent THEN db.groups[g] = Absent
  ELSE /\ db.groups[g] # Absent
       /\ \A d \in Devices :
            db.groups[g][d] = IF db.devices[d] # Absent \/ snap.devices[d] # Absent
                                THEN snap.groups[g][d] ELSE 0

\* A row that has no write left is as the snapshot has it, and the devices that
\* a room's deletion may touch are still to be saved.
ReconcileInv ==
  job = "reconcile" =>
    /\ \A w \in todo : ForSnap(w)
    /\ \A r \in Rooms : ~InHand(r) => (r \in db.rooms <=> r \in snap.rooms)
    /\ \A d \in Devices : ~InHand(d) => db.devices[d] = snap.devices[d]
    /\ \A g \in Groups : ~InHand(g) => GroupForSnap(g)
    /\ (\E w \in todo : w.op = "deleteRoom") =>
         \A d \in Devices : snap.devices[d] # Absent => InHand(d)

LEMMA IdentifiersApart ==
  /\ \A r \in Rooms : r \notin Devices /\ r \notin Groups
  /\ \A d \in Devices : d \notin Rooms /\ d \notin Groups
  /\ \A g \in Groups : g \notin Rooms /\ g \notin Devices
  BY PersistenceAssumption DEF PersistenceAssumption

\* The plan has one write for each key that the snapshot or the tables have.
LEMMA PlanWrites ==
  ASSUME db \in Tables, NEW rs \in SUBSET Rooms,
         NEW gs \in [Groups -> Members \cup {Absent}],
         NEW ds \in [Devices -> Device \cup {Absent}]
  PROVE  /\ \A w \in ReconcilePlan(rs, gs, ds) :
              \/ w.id \in Rooms /\ w = IF w.id \in rs THEN SaveRoom(w.id) ELSE DeleteRoom(w.id)
              \/ w.id \in Groups /\ w = IF gs[w.id] # Absent THEN SaveGroup(w.id, gs[w.id])
                                                             ELSE DeleteGroup(w.id)
              \/ w.id \in Devices /\ w = IF ds[w.id] # Absent THEN SaveDevice(w.id, ds[w.id])
                                                              ELSE DeleteDevice(w.id)
         /\ \A r \in Rooms : r \in rs \cup db.rooms =>
              \E w \in ReconcilePlan(rs, gs, ds) : w.id = r
         /\ \A g \in Groups : gs[g] # Absent \/ db.groups[g] # Absent =>
              \E w \in ReconcilePlan(rs, gs, ds) : w.id = g
         /\ \A d \in Devices : ds[d] # Absent \/ db.devices[d] # Absent =>
              \E w \in ReconcilePlan(rs, gs, ds) : w.id = d
<1>. DEFINE P == ReconcilePlan(rs, gs, ds)
<1>0. db.rooms \subseteq Rooms
  BY DEF Tables
<1>1. /\ \A x : SaveRoom(x).id = x /\ DeleteRoom(x).id = x
      /\ \A x, m : SaveGroup(x, m).id = x
      /\ \A x : DeleteGroup(x).id = x
      /\ \A x, rec : SaveDevice(x, rec).id = x
      /\ \A x : DeleteDevice(x).id = x
  BY DEF SaveRoom, DeleteRoom, SaveGroup, DeleteGroup, SaveDevice, DeleteDevice
<1>2. \A w : w \in P <=>
        \/ \E r \in db.rooms \ rs : w = DeleteRoom(r)
        \/ \E r \in rs : w = SaveRoom(r)
        \/ \E g \in Groups : gs[g] = Absent /\ db.groups[g] # Absent /\ w = DeleteGroup(g)
        \/ \E g \in Groups : gs[g] # Absent /\ w = SaveGroup(g, gs[g])
        \/ \E d \in Devices : ds[d] = Absent /\ db.devices[d] # Absent /\ w = DeleteDevice(d)
        \/ \E d \in Devices : ds[d] # Absent /\ w = SaveDevice(d, ds[d])
  BY DEF ReconcilePlan
<1>. HIDE DEF P
<1>3. ASSUME NEW w \in P
      PROVE  \/ w.id \in Rooms /\ w = IF w.id \in rs THEN SaveRoom(w.id) ELSE DeleteRoom(w.id)
             \/ w.id \in Groups /\ w = IF gs[w.id] # Absent THEN SaveGroup(w.id, gs[w.id])
                                                             ELSE DeleteGroup(w.id)
             \/ w.id \in Devices /\ w = IF ds[w.id] # Absent THEN SaveDevice(w.id, ds[w.id])
                                                              ELSE DeleteDevice(w.id)
  <2>1. CASE \E r \in db.rooms \ rs : w = DeleteRoom(r)
    BY <1>0, <1>1, <2>1
  <2>2. CASE \E r \in rs : w = SaveRoom(r)
    BY <1>0, <1>1, <2>2
  <2>3. CASE \E g \in Groups : gs[g] = Absent /\ db.groups[g] # Absent /\ w = DeleteGroup(g)
    BY <1>1, <2>3
  <2>4. CASE \E g \in Groups : gs[g] # Absent /\ w = SaveGroup(g, gs[g])
    BY <1>1, <2>4
  <2>5. CASE \E d \in Devices : ds[d] = Absent /\ db.devices[d] # Absent /\ w = DeleteDevice(d)
    BY <1>1, <2>5
  <2>6. CASE \E d \in Devices : ds[d] # Absent /\ w = SaveDevice(d, ds[d])
    BY <1>1, <2>6
  <2>. QED
    BY <1>2, <2>1, <2>2, <2>3, <2>4, <2>5, <2>6
<1>4. \A r \in Rooms : r \in rs \cup db.rooms => \E w \in P : w.id = r
  <2>1. ASSUME NEW r \in Rooms, r \in rs PROVE \E w \in P : w.id = r
    BY <1>1, <1>2, <2>1
  <2>2. ASSUME NEW r \in Rooms, r \in db.rooms \ rs PROVE \E w \in P : w.id = r
    BY <1>1, <1>2, <2>2
  <2>. QED
    BY <2>1, <2>2
<1>5. ASSUME NEW g \in Groups, gs[g] # Absent \/ db.groups[g] # Absent
      PROVE  \E w \in P : w.id = g
  <2>1. CASE gs[g] # Absent
    BY <1>1, <1>2, <2>1
  <2>2. CASE gs[g] = Absent
    BY <1>1, <1>2, <1>5, <2>2
  <2>. QED
    BY <2>1, <2>2
<1>6. ASSUME NEW d \in Devices, ds[d] # Absent \/ db.devices[d] # Absent
      PROVE  \E w \in P : w.id = d
  <2>1. CASE ds[d] # Absent
    BY <1>1, <1>2, <2>1
  <2>2. CASE ds[d] = Absent
    BY <1>1, <1>2, <1>6, <2>2
  <2>. QED
    BY <2>1, <2>2
<1>. QED
  BY <1>3, <1>4, <1>5, <1>6 DEF P

\* Every plan of the worker has at most one write for a key.
LEMMA PlansOneEach ==
  ASSUME MapsOK, WorkerOK
  PROVE  /\ \A e \in Event : \A w, x \in WritesFor(e) : w.id = x.id => w = x
         /\ \A w, x \in {SaveDevice(d, devices[d]) : d \in {y \in Registered : RoomOf(y) = NoRoom}} :
              w.id = x.id => w = x
         /\ \A w, x \in ReconcilePlan(snap.rooms, snap.groups, devices) : w.id = x.id => w = x
<1>1. ASSUME NEW e \in Event, NEW w \in WritesFor(e), NEW x \in WritesFor(e)
      PROVE  w = x
  <2>1. \E y : WritesFor(e) \subseteq {y}
    BY EventKinds DEF WritesFor, SaveIfPresent
  <2>. QED
    BY <2>1, <1>1
<1>2. \A w, x \in {SaveDevice(d, devices[d]) : d \in {y \in Registered : RoomOf(y) = NoRoom}} :
        w.id = x.id => w = x
  BY DEF SaveDevice
<1>3. ASSUME NEW w \in ReconcilePlan(snap.rooms, snap.groups, devices),
             NEW x \in ReconcilePlan(snap.rooms, snap.groups, devices), w.id = x.id
      PROVE  w = x
  <2>1. /\ db \in Tables /\ snap.rooms \in SUBSET Rooms
        /\ snap.groups \in [Groups -> Members \cup {Absent}]
        /\ devices \in [Devices -> Device \cup {Absent}]
    BY DEF MapsOK, WorkerOK, Tables
  <2>. QED
    BY <1>3, <2>1, PlanWrites, IdentifiersApart
<1>. QED
  BY <1>1, <1>2, <1>3

LEMMA OneEachNext ==
  ASSUME MapsOK, CallsOK, WorkerOK, OneEach, [PersistNext]_vars
  PROVE  OneEach'
<1>0. bus.buf # <<>> => Head(bus.buf) \in Event
  BY DEF CallsOK, Receiver
<1>1. CASE WorkerRecv
  BY <1>0, <1>1, PlansOneEach DEF WorkerRecv, HasEvent, OneEach
<1>2. CASE Sweep
  BY <1>2, PlansOneEach DEF Sweep, OneEach
<1>3. CASE SnapDevices
  BY <1>3, PlansOneEach DEF SnapDevices, OneEach
<1>4. CASE todo' \subseteq todo
  BY <1>4 DEF OneEach
<1>5. WorkerRecv \/ Sweep \/ SnapDevices \/ todo' \subseteq todo
  <2>1. CASE Worker
    BY <2>1 DEF Worker, WorkerSubscribe, WorkerLag, WorkerShutdown, SnapRooms, SnapGroups,
                WriteOk, WriteFailed, Remaining, ReconcileDone, WorkerExit
  <2>2. CASE \E c \in Callers : InFlight(c) \/ Arrives(c)
    BY <2>2 DEF InFlight, Arrives, workerVars
  <2>3. CASE Shutdown \/ Crash \/ Restart \/ UNCHANGED vars
    BY <2>3 DEF Shutdown, Crash, Restart, vars, workerVars
  <2>. QED
    BY <2>1, <2>2, <2>3 DEF PersistNext
<1>. QED
  BY <1>1, <1>2, <1>3, <1>4, <1>5

\* The plan has been made: it is for the snapshot, and covers what differs.
LEMMA ReconcileBegun ==
  ASSUME MapsOK, WorkerOK, SnapDevices
  PROVE  ReconcileInv'
<1>1. /\ db \in Tables /\ snap.rooms \in SUBSET Rooms
      /\ snap.groups \in [Groups -> Members \cup {Absent}]
      /\ devices \in [Devices -> Device \cup {Absent}]
      /\ db.rooms \subseteq Rooms
  BY DEF MapsOK, WorkerOK, Tables
<1>2. /\ todo' = ReconcilePlan(snap.rooms, snap.groups, devices) /\ db' = db
      /\ snap'.rooms = snap.rooms /\ snap'.groups = snap.groups /\ snap'.devices = devices
  BY DEF SnapDevices, WorkerOK, Tables
<1>3. \A w \in todo' :
        \/ w.id \in Rooms /\ w = IF w.id \in snap.rooms THEN SaveRoom(w.id) ELSE DeleteRoom(w.id)
        \/ w.id \in Groups /\ w = IF snap.groups[w.id] # Absent
                                    THEN SaveGroup(w.id, snap.groups[w.id])
                                    ELSE DeleteGroup(w.id)
        \/ w.id \in Devices /\ w = IF devices[w.id] # Absent
                                     THEN SaveDevice(w.id, devices[w.id])
                                     ELSE DeleteDevice(w.id)
  BY <1>1, <1>2, PlanWrites
<1>4. \A w \in todo' : ForSnap(w)'
  BY <1>2, <1>3 DEF ForSnap, SaveRoom, DeleteRoom, SaveGroup, DeleteGroup, SaveDevice, DeleteDevice
<1>5. \A r \in Rooms : ~InHand(r)' => (r \in db'.rooms <=> r \in snap'.rooms)
  BY <1>1, <1>2, PlanWrites DEF InHand
<1>6. \A d \in Devices : ~InHand(d)' => db'.devices[d] = snap'.devices[d]
  BY <1>1, <1>2, PlanWrites DEF InHand
<1>7. \A g \in Groups : ~InHand(g)' => GroupForSnap(g)'
  BY <1>1, <1>2, PlanWrites DEF InHand, GroupForSnap
<1>8. \A d \in Devices : snap'.devices[d] # Absent => InHand(d)'
  BY <1>1, <1>2, PlanWrites DEF InHand
<1>. QED
  BY <1>4, <1>5, <1>6, <1>7, <1>8 DEF ReconcileInv

\* A write that went through leaves its key as the snapshot has it; what the
\* schema does to other rows is undone by a write to come, or is what the
\* snapshot asks for.
LEMMA ReconcileWritten ==
  ASSUME WorkerOK, OneEach, ReconcileInv, WriteOk
  PROVE  ReconcileInv'
<1>. SUFFICES ASSUME job = "reconcile" PROVE ReconcileInv'
  BY DEF WriteOk, ReconcileInv
<1>1. PICK w \in Due : Accepts(w) /\ db' = Applied(w) /\ todo' = todo \ {w}
  BY DEF WriteOk, Remaining
<1>2. /\ w \in todo /\ w \in Write /\ snap' = snap /\ db \in Tables /\ snap \in Tables
      /\ ForSnap(w)
  BY <1>1 DEF WriteOk, Due, WorkerOK, ReconcileInv
<1>3. \A k : InHand(k)' <=> InHand(k) /\ k # w.id
  BY <1>1, <1>2 DEF InHand, OneEach
<1>4. /\ db' \in Tables
      /\ \A r \in Rooms : r \in db'.rooms <=>
           IF w.id = r THEN w.op = "saveRoom" ELSE r \in db.rooms
      /\ \A d \in Devices : db'.devices[d] =
           IF w.id = d THEN IF w.op = "saveDevice" THEN w.rec ELSE Absent
           ELSE IF w.op = "deleteRoom" /\ db.devices[d] # Absent /\ db.devices[d].room = w.id
                THEN [db.devices[d] EXCEPT !.room = NoRoom]
                ELSE db.devices[d]
      /\ \A g \in Groups : db'.groups[g] =
           IF w.id = g THEN IF w.op = "saveGroup" THEN w.members ELSE Absent
           ELSE IF w.op = "deleteDevice" /\ db.groups[g] # Absent
                THEN Without(db.groups[g], w.id)
                ELSE db.groups[g]
  BY <1>1, <1>2, AppliedRows
<1>5. Absent \notin Device /\ Absent \notin Members
  BY RegistryAssumption DEF RegistryAssumption, Device, Members
<1>6. \A x \in todo' : ForSnap(x)'
  <2>1. \A x \in todo' : ForSnap(x)
    BY <1>1 DEF ReconcileInv
  <2>. QED
    BY <1>2, <2>1 DEF ForSnap
<1>7. \A r \in Rooms : ~InHand(r)' => (r \in db'.rooms <=> r \in snap'.rooms)
  <2>. TAKE r \in Rooms
  <2>1. CASE w.id = r
    <3>1. w.op \in {"saveRoom", "deleteRoom"}
      BY <1>2, <2>1, WriteKinds, IdentifiersApart
    <3>. QED
      BY <1>2, <1>4, <2>1, <3>1 DEF ForSnap
  <2>2. CASE w.id # r
    BY <1>2, <1>3, <1>4, <2>2 DEF ReconcileInv
  <2>. QED
    BY <2>1, <2>2
<1>8. \A d \in Devices : ~InHand(d)' => db'.devices[d] = snap'.devices[d]
  <2>. TAKE d \in Devices
  <2>1. CASE w.id = d
    <3>1. w.op \in {"saveDevice", "deleteDevice"}
      BY <1>2, <2>1, WriteKinds, IdentifiersApart
    <3>. QED
      BY <1>2, <1>4, <2>1, <3>1 DEF ForSnap
  <2>2. ASSUME w.id # d, ~InHand(d)' PROVE db'.devices[d] = snap'.devices[d]
    <3>1. ~InHand(d) /\ db.devices[d] = snap.devices[d]
      BY <1>3, <2>2 DEF ReconcileInv
    <3>2. w.op = "deleteRoom" => snap.devices[d] = Absent
      BY <1>2, <3>1 DEF ReconcileInv
    <3>. QED
      BY <1>2, <1>4, <2>2, <3>1, <3>2
  <2>. QED
    BY <2>1, <2>2
<1>9. \A g \in Groups : ~InHand(g)' => GroupForSnap(g)'
  <2>. TAKE g \in Groups
  <2>1. CASE w.id = g
    <3>1. w.op \in {"saveGroup", "deleteGroup"}
      BY <1>2, <2>1, WriteKinds, IdentifiersApart
    <3>2. CASE w.op = "deleteGroup"
      BY <1>2, <1>4, <2>1, <3>2 DEF ForSnap, GroupForSnap
    <3>3. CASE w.op = "saveGroup"
      <4>1. /\ db'.groups[g] = w.members /\ snap'.groups[g] = w.members
            /\ w.members \in Members
        BY <1>2, <1>4, <2>1, <3>3, WriteKinds DEF ForSnap
      <4>2. \A d \in Devices : db'.devices[d] = db.devices[d]
        BY <1>4, <2>1, <3>3, IdentifiersApart
      <4>3. \A d \in Devices : db.devices[d] = Absent => w.members[d] = 0
        BY <1>1, <3>3, <4>1, RegistryAssumption DEF Accepts, Ids, Members, RegistryAssumption
      <4>. QED
        BY <1>5, <4>1, <4>2, <4>3 DEF GroupForSnap
    <3>. QED
      BY <3>1, <3>2, <3>3
  <2>2. ASSUME w.id # g, ~InHand(g)' PROVE GroupForSnap(g)'
    <3>1. GroupForSnap(g)
      BY <1>3, <2>2 DEF ReconcileInv
    <3>2. /\ db.groups[g] \in Members \cup {Absent}
          /\ \A d \in Devices : db.devices[d] \in Device \cup {Absent}
          /\ \A d \in Devices : snap.devices[d] \in Device \cup {Absent}
      BY <1>2 DEF Tables
    <3>3. CASE snap.groups[g] = Absent
      BY <1>2, <1>4, <2>2, <3>1, <3>3 DEF GroupForSnap
    <3>4. CASE snap.groups[g] # Absent /\ w.op = "deleteDevice"
      <4>1. /\ w.id \in Devices /\ snap.devices[w.id] = Absent
            /\ db.groups[g] \in Members /\ db'.groups[g] = Without(db.groups[g], w.id)
        BY <1>2, <1>4, <2>2, <3>1, <3>2, <3>4, WriteKinds DEF ForSnap, GroupForSnap
      <4>2. db'.groups[g] \in Members
        BY <4>1, RegistryAssumption DEF Without, Members, RegistryAssumption
      <4>3. \A d \in Devices : db'.groups[g][d] = IF d = w.id THEN 0 ELSE db.groups[g][d]
        BY <4>1 DEF Without, Members
      <4>4. \A d \in Devices : db'.devices[d] = IF d = w.id THEN Absent ELSE db.devices[d]
        BY <1>4, <3>4
      <4>. QED
        BY <1>2, <1>5, <3>1, <3>4, <4>1, <4>2, <4>3, <4>4 DEF GroupForSnap
    <3>5. CASE snap.groups[g] # Absent /\ w.op # "deleteDevice"
      <4>1. db'.groups[g] = db.groups[g]
        BY <1>4, <2>2, <3>5
      <4>2. ASSUME NEW d \in Devices
            PROVE  db'.devices[d] # Absent \/ snap.devices[d] # Absent
                     <=> db.devices[d] # Absent \/ snap.devices[d] # Absent
        <5>1. CASE w.id = d
          <6>1. w.op = "saveDevice"
            BY <1>2, <3>5, <5>1, WriteKinds, IdentifiersApart
          <6>. QED
            BY <1>2, <1>5, <5>1, <6>1, WriteKinds DEF ForSnap
        <5>2. CASE w.id # d
          <6>1. \A rec \in Device : [rec EXCEPT !.room = NoRoom] \in Device
            BY DEF Device
          <6>2. db.devices[d] # Absent => [db.devices[d] EXCEPT !.room = NoRoom] # Absent
            BY <1>5, <3>2, <6>1
          <6>3. db'.devices[d] # Absent <=> db.devices[d] # Absent
            BY <1>4, <5>2, <6>2
          <6>. QED
            BY <6>3
        <5>. QED
          BY <5>1, <5>2
      <4>. QED
        BY <1>2, <3>1, <3>5, <4>1, <4>2 DEF GroupForSnap
    <3>. QED
      BY <3>3, <3>4, <3>5
  <2>. QED
    BY <2>1, <2>2
<1>10. ASSUME NEW x \in todo', x.op = "deleteRoom", NEW d \in Devices, snap'.devices[d] # Absent
       PROVE  InHand(d)'
  <2>1. x \in todo /\ InHand(d)
    BY <1>1, <1>2, <1>10 DEF ReconcileInv
  <2>2. w.op # "saveDevice"
    BY <1>1, <1>10, <2>1 DEF Due, Place
  <2>3. w.id # d
    BY <1>2, <1>10, <2>2, WriteKinds, IdentifiersApart DEF ForSnap
  <2>. QED
    BY <1>3, <2>1, <2>3
<1>. QED
  BY <1>6, <1>7, <1>8, <1>9, <1>10 DEF ReconcileInv

LEMMA ReconcileNext ==
  ASSUME MapsOK, CallsOK, WorkerOK, OneEach, ReconcileInv, [PersistNext]_vars
  PROVE  ReconcileInv'
<1>1. CASE SnapDevices
  BY <1>1, ReconcileBegun
<1>2. CASE WriteOk
  BY <1>2, ReconcileWritten
<1>3. CASE job' # "reconcile"
  BY <1>3 DEF ReconcileInv
<1>4. CASE UNCHANGED <<db, job, todo, snap>>
  BY <1>4 DEF ReconcileInv, InHand, ForSnap, GroupForSnap
<1>5. SnapDevices \/ WriteOk \/ job' # "reconcile" \/ UNCHANGED <<db, job, todo, snap>>
  <2>1. CASE Worker
    BY <2>1 DEF Worker, WorkerSubscribe, WorkerRecv, Sweep, WorkerLag, WorkerShutdown, SnapRooms,
                SnapGroups, WriteFailed, ReconcileDone, WorkerExit
  <2>2. CASE \E c \in Callers : InFlight(c) \/ Arrives(c)
    BY <2>2 DEF InFlight, Arrives, workerVars
  <2>3. CASE Shutdown \/ Crash \/ Restart \/ UNCHANGED vars
    BY <2>3 DEF Shutdown, Crash, Restart, vars, workerVars
  <2>. QED
    BY <2>1, <2>2, <2>3 DEF PersistNext
<1>. QED
  BY <1>1, <1>2, <1>3, <1>4, <1>5

\* A reconciliation that has executed all its writes leaves in the tables what
\* it read, whatever the callers did to the registry meanwhile and whatever the
\* schema did to the rows of the writes before.
THEOREM ReconcileExactAlways == PersistSpec => []ReconcileExact
<1>. DEFINE Inv == PersistTypeOK /\ OneEach /\ ReconcileInv
<1>1. PersistInit => Inv
  <2>. SUFFICES ASSUME PersistInit PROVE OneEach /\ ReconcileInv
    BY PersistTypeInit
  <2>. QED
    BY DEF PersistInit, OneEach, ReconcileInv
<1>2. Inv /\ [PersistNext]_vars => Inv'
  <2>. SUFFICES ASSUME Inv, [PersistNext]_vars PROVE Inv'
    OBVIOUS
  <2>1. MapsOK /\ CallsOK /\ WorkerOK
    BY PersistTypeParts
  <2>. QED
    BY <2>1, PersistTypeNext, OneEachNext, ReconcileNext
<1>3. Inv => ReconcileExact
  <2>. SUFFICES ASSUME Inv, job = "reconcile", todo = {}
                PROVE  /\ db.rooms = snap.rooms /\ db.devices = snap.devices
                       /\ \A g \in Groups :
                            db.groups[g] = IF snap.groups[g] = Absent THEN Absent
                                           ELSE [d \in Devices |-> IF snap.devices[d] # Absent
                                                                     THEN snap.groups[g][d] ELSE 0]
    BY DEF ReconcileExact
  <2>1. db \in Tables /\ snap \in Tables /\ \A k : ~InHand(k)
    BY PersistTypeParts DEF WorkerOK, InHand
  <2>2. db.rooms = snap.rooms
    BY <2>1 DEF ReconcileInv, Tables
  <2>3. db.devices = snap.devices
    BY <2>1 DEF ReconcileInv, Tables
  <2>4. ASSUME NEW g \in Groups
        PROVE  db.groups[g] = IF snap.groups[g] = Absent THEN Absent
                              ELSE [d \in Devices |-> IF snap.devices[d] # Absent
                                                        THEN snap.groups[g][d] ELSE 0]
    <3>1. GroupForSnap(g) /\ db.groups[g] \in Members \cup {Absent}
      BY <2>1 DEF ReconcileInv, Tables
    <3>2. CASE snap.groups[g] = Absent
      BY <3>1, <3>2 DEF GroupForSnap
    <3>3. CASE snap.groups[g] # Absent
      <4>1. db.groups[g] \in [Devices -> 0 .. MaxRepeat]
        BY <3>1, <3>3 DEF GroupForSnap, Members
      <4>2. \A d \in Devices : db.groups[g][d] = IF snap.devices[d] # Absent
                                                   THEN snap.groups[g][d] ELSE 0
        BY <2>3, <3>1, <3>3 DEF GroupForSnap
      <4>. QED
        BY <3>3, <4>1, <4>2
    <3>. QED
      BY <3>2, <3>3
  <2>. QED
    BY <2>2, <2>3, <2>4
<1>. QED
  BY <1>1, <1>2, <1>3, PTL DEF PersistSpec

-----------------------------------------------------------------------------
\* The way of a change from the registry to the worker, for one caller

\* An event about the key k comes after position i.
Later(P, i, k) == \E j \in DOMAIN P : j > i /\ Keys(P[j]) = {k}

\* The events the worker is still to read: those on the bus, then those the
\* caller has yet to publish.
Pipe(c) == bus.buf \o out[c]

OnRecord(g, d) == groups[g] # Absent /\ groups[g][d] > 0

\* The worker will look at the key again: an event about it is coming, or a lag,
\* or the caller is between the two sections of a removal that ends in one.
Pending(c, k) ==
  \/ bus.lagged
  \/ Later(Pipe(c), 0, k)
  \/ call[c] = Clearing(k)
  \/ k \in Groups /\ \E d \in Devices : call[c] = Pruning(d) /\ OnRecord(k, d)

\* The registry is as the event says.
Right(c, e) ==
  /\ e.type = "RoomSaved" => e.room \in rooms \/ call[c] = Clearing(e.room)
  /\ e.type = "RoomRemoved" => e.room \notin rooms
  /\ e.type = "DeviceAdded" => devices[e.dev] = e.rec
  /\ e.type = "DeviceRemoved" => devices[e.dev] = Absent
  /\ e.type \in {"DeviceStateChanged", "DeviceSeen", "DeviceRoomChanged"} =>
       devices[e.dev] # Absent
  /\ e.type = "GroupSaved" => groups[e.group] = e.members
  /\ e.type = "GroupRemoved" => groups[e.group] = Absent
  /\ e.type = "GroupMembersChanged" => groups[e.group] # Absent

\* An event is right or a later one is; what a deletion in the tables does to
\* other rows is followed by an event of their own.
PipeOK(c, P) ==
  \A i \in DOMAIN P :
    /\ \A k : Keys(P[i]) = {k} => Right(c, P[i]) \/ Later(P, i, k)
    /\ P[i].type = "RoomRemoved" =>
         \A d \in Devices : devices[d] # Absent /\ devices[d].room = P[i].room => Later(P, i, d)
    /\ P[i].type = "DeviceRemoved" =>
         \A g \in Groups : OnRecord(g, P[i].dev) =>
           call[c] = Pruning(P[i].dev) \/ Later(P, i, g)

PipeInv(c) ==
  /\ PipeOK(c, Pipe(c))
  /\ \A r \in Rooms : call[c] = Clearing(r) => r \notin rooms

\* The write gives its key what the registry has.
Current(w) ==
  /\ w.op = "saveRoom" => w.id \in rooms
  /\ w.op = "deleteRoom" => w.id \notin rooms
  /\ w.op = "saveDevice" => devices[w.id] = w.rec
  /\ w.op = "deleteDevice" => devices[w.id] = Absent
  /\ w.op = "saveGroup" => groups[w.id] = w.members
  /\ w.op = "deleteGroup" => groups[w.id] = Absent

\* A member is a row of its own.
MemberRows ==
  \A g \in Groups, d \in Devices :
    db.groups[g] # Absent /\ db.groups[g][d] > 0 => db.devices[d] # Absent

Serving == mode \in {"starting", "up"}

\* Between reconciliations: a row differs only while the worker is to write it,
\* to look at it again, or has lost it in a way that is on record.
EventInv(c) ==
  Serving /\ job \in {"none", "sweep"} =>
    /\ \A w \in todo : Current(w) \/ Pending(c, w.id)
    /\ \A r \in Rooms \ (owed \cup missed) :
         InHand(r) \/ Pending(c, r) \/ (r \in db.rooms <=> r \in rooms)
    /\ \A d \in Devices \ (owed \cup missed) :
         InHand(d) \/ Pending(c, d) \/ db.devices[d] = devices[d]
    /\ \A g \in Groups \ (owed \cup missed) :
         InHand(g) \/ Pending(c, g) \/ db.groups[g] = groups[g]
    /\ \A w \in todo : w.op = "deleteRoom" =>
         \A d \in Devices : devices[d] # Absent /\ devices[d].room = w.id => Pending(c, d)
    /\ \A w \in todo : w.op = "deleteDevice" =>
         \A g \in Groups : OnRecord(g, w.id) => Pending(c, g)

\* In a reconciliation: what has been read is what the registry has, but for
\* keys the worker will look at again.
SnapInv(c) ==
  Serving =>
    /\ job \in {"snapGroups", "snapDevices", "reconcile"} =>
         \A r \in Rooms : Pending(c, r) \/ (r \in snap.rooms <=> r \in rooms)
    /\ job \in {"snapDevices", "reconcile"} =>
         \A g \in Groups : Pending(c, g) \/ snap.groups[g] = groups[g]
    /\ job = "reconcile" =>
         /\ \A d \in Devices : Pending(c, d) \/ snap.devices[d] = devices[d]
         /\ \A g \in Groups, d \in Devices :
              snap.groups[g] # Absent /\ snap.groups[g][d] > 0 /\ snap.devices[d] = Absent
                => Pending(c, g)

\* Before it subscribes the worker has nothing to do.
FreshStart == mode = "starting" => job = "none" /\ todo = {} /\ missed = {}

LEMMA LaterConcat ==
  ASSUME NEW s \in Seq(Event), NEW t \in Seq(Event)
  PROVE  /\ \A k : \A i \in 0 .. Len(s) : Later(s \o t, i, k) <=> Later(s, i, k) \/ Later(t, 0, k)
         /\ \A k : \A i \in Nat : Later(s \o t, Len(s) + i, k) <=> Later(t, i, k)
<1>1. /\ Len(s) \in Nat /\ Len(t) \in Nat
      /\ DOMAIN s = 1 .. Len(s) /\ DOMAIN t = 1 .. Len(t)
      /\ DOMAIN (s \o t) = 1 .. Len(s) + Len(t)
  OBVIOUS
<1>2. /\ \A j \in 1 .. Len(s) : (s \o t)[j] = s[j]
      /\ \A j \in 1 .. Len(t) : (s \o t)[Len(s) + j] = t[j]
  BY <1>1
<1>. DEFINE u == s \o t
            n == Len(s)
            m == Len(t)
<1>. HIDE DEF u, n, m
<1>3. /\ n \in Nat /\ m \in Nat
      /\ DOMAIN s = 1 .. n /\ DOMAIN t = 1 .. m /\ DOMAIN u = 1 .. n + m
      /\ \A j \in 1 .. n : u[j] = s[j]
      /\ \A j \in 1 .. m : u[n + j] = t[j]
  BY <1>1, <1>2 DEF u, n, m
<1>4. ASSUME NEW k, NEW i \in 0 .. n
      PROVE  Later(u, i, k) <=> Later(s, i, k) \/ Later(t, 0, k)
  <2>1. ASSUME Later(u, i, k) PROVE Later(s, i, k) \/ Later(t, 0, k)
    <3>1. PICK j \in 1 .. n + m : j > i /\ Keys(u[j]) = {k}
      BY <1>3, <2>1 DEF Later
    <3>2. CASE j <= n
      <4>1. j \in 1 .. n /\ u[j] = s[j]
        BY <1>3, <3>2
      <4>. QED
        BY <1>3, <3>1, <4>1 DEF Later
    <3>3. CASE j > n
      <4>1. j - n \in 1 .. m /\ n + (j - n) = j /\ j - n > 0
        BY <1>3, <3>1, <3>3
      <4>. QED
        BY <1>3, <3>1, <4>1 DEF Later
    <3>. QED
      BY <1>3, <3>1, <3>2, <3>3
  <2>2. ASSUME Later(s, i, k) PROVE Later(u, i, k)
    BY <1>3, <2>2 DEF Later
  <2>3. ASSUME Later(t, 0, k) PROVE Later(u, i, k)
    <3>1. PICK j \in 1 .. m : Keys(t[j]) = {k}
      BY <1>3, <2>3 DEF Later
    <3>2. n + j \in 1 .. n + m /\ n + j > i /\ u[n + j] = t[j]
      BY <1>3, <1>4, <3>1
    <3>. QED
      BY <1>3, <3>1, <3>2 DEF Later
  <2>. QED
    BY <2>1, <2>2, <2>3
<1>5. ASSUME NEW k, NEW i \in Nat
      PROVE  Later(u, n + i, k) <=> Later(t, i, k)
  <2>1. ASSUME Later(u, n + i, k) PROVE Later(t, i, k)
    <3>1. PICK j \in 1 .. n + m : j > n + i /\ Keys(u[j]) = {k}
      BY <1>3, <2>1 DEF Later
    <3>2. j - n \in 1 .. m /\ n + (j - n) = j /\ j - n > i
      BY <1>3, <1>5, <3>1
    <3>. QED
      BY <1>3, <3>1, <3>2 DEF Later
  <2>2. ASSUME Later(t, i, k) PROVE Later(u, n + i, k)
    <3>1. PICK j \in 1 .. m : j > i /\ Keys(t[j]) = {k}
      BY <1>3, <2>2 DEF Later
    <3>2. n + j \in 1 .. n + m /\ n + j > n + i /\ u[n + j] = t[j]
      BY <1>3, <1>5, <3>1
    <3>. QED
      BY <1>3, <3>1, <3>2 DEF Later
  <2>. QED
    BY <2>1, <2>2
<1>. QED
  BY <1>4, <1>5 DEF u, n

\* What comes after the first event of a sequence.
LEMMA LaterTail ==
  ASSUME NEW P \in Seq(Event), P # <<>>
  PROVE  /\ \A k : Later(P, 1, k) <=> Later(Tail(P), 0, k)
         /\ \A k : Later(P, 0, k) => Keys(Head(P)) = {k} \/ Later(P, 1, k)
<1>1. P = <<Head(P)>> \o Tail(P) /\ <<Head(P)>> \in Seq(Event) /\ Tail(P) \in Seq(Event)
      /\ Len(<<Head(P)>>) = 1
  OBVIOUS
<1>. DEFINE s == <<Head(P)>>
            t == Tail(P)
<1>2. \A k : Later(P, 1, k) <=> Later(Tail(P), 0, k)
  <2>1. s \in Seq(Event) /\ t \in Seq(Event) /\ P = s \o t /\ Len(s) + 0 = 1
    BY <1>1
  <2>. HIDE DEF s, t
  <2>2. \A k : Later(s \o t, Len(s) + 0, k) <=> Later(t, 0, k)
    BY <2>1, LaterConcat
  <2>. QED
    BY <2>1, <2>2 DEF t
<1>3. ASSUME NEW k, Later(P, 0, k) PROVE Keys(Head(P)) = {k} \/ Later(P, 1, k)
  <2>1. PICK j \in DOMAIN P : Keys(P[j]) = {k}
    BY <1>3 DEF Later
  <2>2. j = 1 \/ j > 1
    BY <2>1
  <2>. QED
    BY <2>1, <2>2 DEF Later
<1>. QED
  BY <1>2, <1>3

\* The events that are left of a sequence are as good as they were.
LEMMA PipeSuffix ==
  ASSUME NEW c, NEW s \in Seq(Event), NEW t \in Seq(Event), PipeOK(c, s \o t)
  PROVE  PipeOK(c, t)
<1>1. /\ Len(s) \in Nat /\ Len(t) \in Nat /\ DOMAIN t = 1 .. Len(t)
      /\ DOMAIN (s \o t) = 1 .. Len(s) + Len(t)
      /\ \A i \in 1 .. Len(t) : (s \o t)[Len(s) + i] = t[i]
  OBVIOUS
<1>2. \A k : \A i \in 1 .. Len(t) : Later(s \o t, Len(s) + i, k) <=> Later(t, i, k)
  BY LaterConcat
<1>3. ASSUME NEW i \in DOMAIN t
      PROVE  Len(s) + i \in DOMAIN (s \o t)
  BY <1>1
<1>. QED
  BY <1>1, <1>2, <1>3 DEF PipeOK

LEMMA PipeTail ==
  ASSUME NEW c, NEW P \in Seq(Event), P # <<>>, PipeOK(c, P)
  PROVE  PipeOK(c, Tail(P))
<1>1. P = <<Head(P)>> \o Tail(P) /\ <<Head(P)>> \in Seq(Event) /\ Tail(P) \in Seq(Event)
  OBVIOUS
<1>. QED
  BY <1>1, PipeSuffix

LEMMA PipeKept ==
  ASSUME NEW c, UNCHANGED <<rooms, devices, groups, call>>, PipeInv(c), PipeOK(c, Pipe(c)')
  PROVE  PipeInv(c)'
  BY DEF PipeInv, PipeOK, Right, OnRecord, Later

-----------------------------------------------------------------------------
\* The steps of the caller

\* A section of a call leaves the events evs to publish, and they say all that
\* the section changed.
Announces(c, evs) ==
  /\ out[c] = <<>> /\ out'[c] = evs /\ bus' = bus
  /\ evs \in Seq(Event)
  /\ \A i \in DOMAIN evs :
       /\ Right(c, evs[i])'
       /\ evs[i].type = "RoomRemoved" =>
            \A d \in Devices : devices'[d] # Absent => devices'[d].room # evs[i].room
       /\ evs[i].type = "DeviceRemoved" => call'[c] = Pruning(evs[i].dev)
  /\ \A r \in Rooms : r \notin rooms /\ r \in rooms' => Later(evs, 0, r)
  /\ \A r \in Rooms : r \in rooms /\ r \notin rooms' => call'[c] = Clearing(r)
  /\ \A r \in Rooms : call'[c] = Clearing(r) => r \notin rooms'
  /\ \A d \in Devices : devices'[d] = devices[d] \/ Later(evs, 0, d)
  /\ \A g \in Groups : groups'[g] = groups[g] \/ Later(evs, 0, g)
  /\ \A r : call[c] = Clearing(r) => Later(evs, 0, r)
  /\ \A g \in Groups, d \in Devices :
       call[c] = Pruning(d) /\ OnRecord(g, d) => Later(evs, 0, g)

\* What the worker is still to look at, it still looks at after the step, and
\* what the step changed as well.
PendingKept(c) ==
  /\ \A k : Pending(c, k) => Pending(c, k)'
  /\ \A r \in Rooms : (r \in rooms' <=> r \in rooms) \/ Pending(c, r)'
  /\ \A d \in Devices : devices'[d] = devices[d] \/ Pending(c, d)'
  /\ \A g \in Groups : groups'[g] = groups[g] \/ Pending(c, g)'

LEMMA AnnouncedPending ==
  ASSUME CallsOK, NEW c, NEW evs, Announces(c, evs)
  PROVE  PendingKept(c)
<1>1. /\ bus.buf \in Seq(Event) /\ evs \in Seq(Event)
      /\ Pipe(c) = bus.buf /\ Pipe(c)' = bus.buf \o evs /\ bus' = bus
  BY DEF CallsOK, Receiver, Announces, Pipe
<1>2. 0 \in 0 .. Len(bus.buf)
  BY <1>1
<1>3. \A k : Later(bus.buf \o evs, 0, k) <=> Later(bus.buf, 0, k) \/ Later(evs, 0, k)
  BY <1>1, <1>2, LaterConcat
<1>4. ASSUME NEW k, Later(evs, 0, k) PROVE Pending(c, k)'
  <2>1. Later(bus.buf \o evs, 0, k)
    BY <1>3, <1>4
  <2>. QED
    BY <1>1, <2>1 DEF Pending, Later
<1>5. ASSUME NEW k, Pending(c, k) PROVE Pending(c, k)'
  <2>1. CASE bus.lagged
    BY <1>1, <2>1 DEF Pending
  <2>2. CASE Later(Pipe(c), 0, k)
    <3>1. Later(bus.buf \o evs, 0, k)
      BY <1>1, <1>3, <2>2
    <3>. QED
      BY <1>1, <3>1 DEF Pending, Later
  <2>3. CASE call[c] = Clearing(k)
    BY <1>4, <2>3 DEF Announces
  <2>4. CASE k \in Groups /\ \E d \in Devices : call[c] = Pruning(d) /\ OnRecord(k, d)
    BY <1>4, <2>4 DEF Announces
  <2>. QED
    BY <1>5, <2>1, <2>2, <2>3, <2>4 DEF Pending
<1>6. \A r \in Rooms : (r \in rooms' <=> r \in rooms) \/ Pending(c, r)'
  <2>. SUFFICES ASSUME NEW r \in Rooms, ~(r \in rooms' <=> r \in rooms)
                PROVE  Pending(c, r)'
    OBVIOUS
  <2>1. Later(evs, 0, r) \/ call'[c] = Clearing(r)
    BY DEF Announces
  <2>2. CASE Later(evs, 0, r)
    BY <1>4, <2>2
  <2>3. CASE call'[c] = Clearing(r)
    BY <2>3 DEF Pending, Clearing
  <2>. QED
    BY <2>1, <2>2, <2>3
<1>7. /\ \A d \in Devices : devices'[d] = devices[d] \/ Pending(c, d)'
      /\ \A g \in Groups : groups'[g] = groups[g] \/ Pending(c, g)'
  BY <1>4 DEF Announces
<1>. QED
  BY <1>5, <1>6, <1>7 DEF PendingKept

LEMMA AnnouncedAfter ==
  ASSUME NEW c, NEW buf \in Seq(Event), NEW evs, Announces(c, evs), PipeOK(c, buf)
  PROVE  PipeOK(c, buf \o evs)'
<1>1. evs \in Seq(Event)
  BY DEF Announces
<1>0. PICK n, P : n = Len(buf) /\ P = buf \o evs
  OBVIOUS
<1>2. /\ n \in Nat /\ DOMAIN buf = 1 .. n /\ DOMAIN evs = 1 .. Len(evs) /\ Len(evs) \in Nat
      /\ DOMAIN P = 1 .. n + Len(evs)
      /\ \A i \in 1 .. n : P[i] = buf[i] /\ buf[i] \in Event
      /\ \A i \in 1 .. Len(evs) : P[n + i] = evs[i]
  BY <1>0, <1>1
<1>3. /\ \A k : \A i \in 1 .. n : Later(P, i, k) <=> Later(buf, i, k) \/ Later(evs, 0, k)
      /\ \A k : \A i \in 1 .. Len(evs) : Later(P, n + i, k) <=> Later(evs, i, k)
  <2>1. /\ \A i \in 1 .. n : i \in 0 .. Len(buf)
        /\ \A i \in 1 .. Len(evs) : i \in Nat
    BY <1>0, <1>2
  <2>2. /\ \A k : \A i \in 0 .. Len(buf) :
             Later(P, i, k) <=> Later(buf, i, k) \/ Later(evs, 0, k)
        /\ \A k : \A i \in Nat : Later(P, n + i, k) <=> Later(evs, i, k)
    BY <1>0, <1>1, LaterConcat
  <2>. QED
    BY <2>1, <2>2
<1>4. ASSUME NEW i \in 1 .. n
      PROVE  /\ \A k : Keys(P[i]) = {k} => Right(c, P[i])' \/ Later(P, i, k)
             /\ P[i].type = "RoomRemoved" =>
                  \A d \in Devices : devices'[d] # Absent /\ devices'[d].room = P[i].room =>
                    Later(P, i, d)
             /\ P[i].type = "DeviceRemoved" =>
                  \A g \in Groups : OnRecord(g, P[i].dev)' =>
                    call'[c] = Pruning(P[i].dev) \/ Later(P, i, g)
  <2>0. PICK e : e = P[i]
    OBVIOUS
  <2>1. e = buf[i] /\ e \in Event
    BY <1>2, <2>0
  <2>2. /\ \A k : Keys(e) = {k} => Right(c, e) \/ Later(buf, i, k)
        /\ e.type = "RoomRemoved" =>
             \A d \in Devices : devices[d] # Absent /\ devices[d].room = e.room => Later(buf, i, d)
        /\ e.type = "DeviceRemoved" =>
             \A g \in Groups : OnRecord(g, e.dev) =>
               call[c] = Pruning(e.dev) \/ Later(buf, i, g)
    BY <1>2, <2>1 DEF PipeOK
  <2>3. ASSUME NEW k, Keys(e) = {k}, Right(c, e), ~Later(evs, 0, k)
        PROVE  Right(c, e)'
    <3>1. CASE e.type \in {"RoomSaved", "RoomRemoved"}
      <4>1. e.room \in Rooms /\ k = e.room
        BY <2>1, <2>3, <3>1, EventKinds
      <4>2. call[c] # Clearing(k)
        BY <2>3 DEF Announces
      <4>3. k \notin rooms => k \notin rooms'
        BY <2>3, <4>1 DEF Announces
      <4>4. k \in rooms => k \in rooms' \/ call'[c] = Clearing(k)
        BY <2>3, <4>1 DEF Announces
      <4>. QED
        BY <2>3, <3>1, <4>1, <4>2, <4>3, <4>4 DEF Right, Clearing
    <3>2. CASE e.type \in {"DeviceAdded", "DeviceStateChanged", "DeviceSeen", "DeviceRoomChanged",
                           "DeviceRemoved"}
      <4>1. e.dev \in Devices /\ k = e.dev
        BY <2>1, <2>3, <3>2, EventKinds
      <4>2. devices'[k] = devices[k]
        BY <2>3, <4>1 DEF Announces
      <4>. QED
        BY <2>3, <3>2, <4>1, <4>2 DEF Right
    <3>3. CASE e.type \in {"GroupSaved", "GroupMembersChanged", "GroupRemoved"}
      <4>1. e.group \in Groups /\ k = e.group
        BY <2>1, <2>3, <3>3, EventKinds
      <4>2. groups'[k] = groups[k]
        BY <2>3, <4>1 DEF Announces
      <4>. QED
        BY <2>3, <3>3, <4>1, <4>2 DEF Right
    <3>. QED
      BY <2>1, <3>1, <3>2, <3>3, EventKinds
  <2>4. ASSUME NEW k, Keys(e) = {k} PROVE Right(c, e)' \/ Later(P, i, k)
    BY <1>3, <2>2, <2>3, <2>4
  <2>5. ASSUME e.type = "RoomRemoved",
               NEW d \in Devices, devices'[d] # Absent, devices'[d].room = e.room
        PROVE  Later(P, i, d)
    <3>1. devices'[d] = devices[d] \/ Later(evs, 0, d)
      BY DEF Announces
    <3>. QED
      BY <1>3, <2>2, <2>5, <3>1
  <2>6. ASSUME e.type = "DeviceRemoved", NEW g \in Groups, OnRecord(g, e.dev)'
        PROVE  Later(P, i, g)
    <3>1. groups'[g] = groups[g] \/ Later(evs, 0, g)
      BY DEF Announces
    <3>2. e.dev \in Devices
      BY <2>1, <2>6, EventKinds
    <3>3. CASE groups'[g] = groups[g]
      <4>1. OnRecord(g, e.dev)
        BY <2>6, <3>3 DEF OnRecord
      <4>2. call[c] = Pruning(e.dev) => Later(evs, 0, g)
        BY <3>2, <4>1 DEF Announces
      <4>. QED
        BY <1>3, <2>2, <2>6, <4>1, <4>2
    <3>. QED
      BY <1>3, <3>1, <3>3
  <2>. QED
    BY <2>0, <2>4, <2>5, <2>6
<1>5. ASSUME NEW j \in 1 .. Len(evs)
      PROVE  /\ Right(c, P[n + j])'
             /\ P[n + j].type = "RoomRemoved" =>
                  \A d \in Devices : devices'[d] # Absent => devices'[d].room # P[n + j].room
             /\ P[n + j].type = "DeviceRemoved" => call'[c] = Pruning(P[n + j].dev)
  <2>1. PICK e : e = P[n + j]
    OBVIOUS
  <2>2. e = evs[j] /\ j \in DOMAIN evs
    BY <1>2, <2>1
  <2>3. /\ Right(c, e)'
        /\ e.type = "RoomRemoved" =>
             \A d \in Devices : devices'[d] # Absent => devices'[d].room # e.room
        /\ e.type = "DeviceRemoved" => call'[c] = Pruning(e.dev)
    BY <2>2 DEF Announces, Right
  <2>. QED
    BY <2>1, <2>3 DEF Right
<1>6. \A i \in DOMAIN P : i \in 1 .. n \/ \E j \in 1 .. Len(evs) : i = n + j
  <2>. TAKE i \in DOMAIN P
  <2>1. i > n => i - n \in 1 .. Len(evs) /\ i = n + (i - n)
    BY <1>2
  <2>. QED
    BY <1>2, <2>1
<1>7. ASSUME NEW i \in DOMAIN P
      PROVE  /\ \A k : Keys(P[i]) = {k} => Right(c, P[i])' \/ Later(P, i, k)
             /\ P[i].type = "RoomRemoved" =>
                  \A d \in Devices : devices'[d] # Absent /\ devices'[d].room = P[i].room =>
                    Later(P, i, d)
             /\ P[i].type = "DeviceRemoved" =>
                  \A g \in Groups : OnRecord(g, P[i].dev)' =>
                    call'[c] = Pruning(P[i].dev) \/ Later(P, i, g)
  <2>1. CASE i \in 1 .. n
    BY <1>4, <2>1
  <2>2. ASSUME NEW j \in 1 .. Len(evs), i = n + j
        PROVE  /\ Right(c, P[i])'
               /\ P[i].type = "RoomRemoved" =>
                    \A d \in Devices : devices'[d] # Absent => devices'[d].room # P[i].room
               /\ P[i].type = "DeviceRemoved" => call'[c] = Pruning(P[i].dev)
    <3>1. PICK e : e = P[i]
      OBVIOUS
    <3>2. Right(c, e)'
      BY <1>5, <2>2, <3>1 DEF Right
    <3>. QED
      BY <1>5, <2>2, <3>1, <3>2
  <2>. QED
    BY <1>6, <2>1, <2>2
<1>8. PipeOK(c, P)'
  BY <1>7 DEF PipeOK
<1>. QED
  BY <1>0, <1>8

LEMMA AnnouncedPipe ==
  ASSUME CallsOK, NEW c, NEW evs, Announces(c, evs), PipeInv(c)
  PROVE  PipeInv(c)'
<1>1. PICK buf \in Seq(Event) : buf = bus.buf
  BY DEF CallsOK, Receiver
<1>2. PipeOK(c, buf) /\ Pipe(c)' = buf \o evs
  BY <1>1 DEF Announces, Pipe, PipeInv
<1>3. PICK Q : Q = buf \o evs
  OBVIOUS
<1>4. PipeOK(c, Q)' /\ Pipe(c)' = Q
  BY <1>2, <1>3, AnnouncedAfter
<1>5. PipeOK(c, Pipe(c))'
  BY <1>4 DEF PipeOK
<1>. QED
  BY <1>5 DEF Announces, PipeInv

LEMMA Shifted ==
  ASSUME NEW s \in Seq(Event), NEW o \in Seq(Event), o # <<>>
  PROVE  Append(s, Head(o)) \o Tail(o) = s \o o
<1>. DEFINE h == Head(o)
            t == Tail(o)
<1>1. h \in Event /\ t \in Seq(Event) /\ o = <<h>> \o t /\ <<h>> \in Seq(Event)
  OBVIOUS
<1>. HIDE DEF h, t
<1>2. Append(s, h) = s \o <<h>>
  BY <1>1, AppendIsConcat
<1>3. (s \o <<h>>) \o t = s \o (<<h>> \o t)
  BY <1>1, ConcatAssociative
<1>. QED
  BY <1>1, <1>2, <1>3 DEF h, t

\* Publishing moves the event along, or costs the worker its oldest one and
\* tells it so.
LEMMA PublishedPipe ==
  ASSUME CallsOK, NEW c \in Callers, Publish(c), PipeInv(c)
  PROVE  PipeInv(c)' /\ PendingKept(c)
<1>. DEFINE buf == bus.buf
            o   == out[c]
<1>1. /\ buf \in Seq(Event) /\ o \in Seq(Event) /\ o # <<>>
      /\ bus' = Published(bus, Head(o)) /\ out'[c] = Tail(o)
      /\ UNCHANGED <<rooms, devices, groups, call>>
      /\ Pipe(c) = buf \o o /\ PipeOK(c, buf \o o)
  BY DEF CallsOK, Receiver, Publish, Pipe, PipeInv
<1>2. CASE Len(buf) < Capacity
  <2>1. bus'.buf = Append(buf, Head(o)) /\ bus'.lagged = bus.lagged
    BY <1>1, <1>2 DEF Published, CallsOK, Receiver
  <2>2. Pipe(c)' = Pipe(c)
    BY <1>1, <2>1, Shifted DEF Pipe
  <2>3. PipeInv(c)'
    BY <1>1, <2>2, PipeKept
  <2>4. \A k : Pending(c, k) => Pending(c, k)'
    BY <1>1, <2>1, <2>2 DEF Pending, OnRecord
  <2>. QED
    BY <1>1, <2>3, <2>4 DEF PendingKept
<1>3. CASE ~(Len(buf) < Capacity)
  <2>1. buf # <<>> /\ Tail(buf) \in Seq(Event)
    BY <1>1, <1>3, CapacityAssumption DEF CapacityAssumption
  <2>2. bus'.buf = Append(Tail(buf), Head(o)) /\ bus'.lagged = TRUE
    BY <1>3, <1>1 DEF Published
  <2>3. Pipe(c)' = Tail(buf) \o o
    BY <1>1, <2>1, <2>2, Shifted DEF Pipe
  <2>4. PipeOK(c, Tail(buf) \o o)
    <3>. DEFINE s == <<Head(buf)>>
                t == Tail(buf)
    <3>1. s \in Seq(Event) /\ t \in Seq(Event) /\ buf = s \o t
      BY <1>1, <2>1
    <3>. HIDE DEF s, t, buf, o
    <3>2. buf \o o = s \o (t \o o) /\ t \o o \in Seq(Event)
      BY <1>1, <3>1, ConcatAssociative
    <3>. QED
      BY <1>1, <3>1, <3>2, PipeSuffix DEF t
  <2>5. PipeInv(c)'
    BY <1>1, <2>3, <2>4, PipeKept
  <2>6. \A k : Pending(c, k)'
    BY <2>2 DEF Pending
  <2>. QED
    BY <1>1, <2>5, <2>6 DEF PendingKept
<1>. QED
  BY <1>2, <1>3

\* A section that changes nothing but rooms, and leaves nothing to publish.
LEMMA AnnounceNone ==
  ASSUME CallsOK, NEW c \in Callers, NEW k, call' = [call EXCEPT ![c] = k],
         out[c] = <<>>, out'[c] = <<>>, UNCHANGED <<bus, devices, groups>>,
         call[c].step \notin {"clearRoom", "prune"}, rooms' \subseteq rooms,
         \A r \in rooms : r \notin rooms' => k = Clearing(r),
         \A r \in rooms' : k # Clearing(r)
  PROVE  \E evs : Announces(c, evs)
<1>1. call'[c] = k /\ \A x : call[c] # Clearing(x) /\ call[c] # Pruning(x)
  BY DEF CallsOK, Clearing, Pruning
<1>2. <<>> \in Seq(Event) /\ DOMAIN <<>> = {}
  OBVIOUS
<1>3. PICK evs : evs = <<>>
  OBVIOUS
<1>4. evs \in Seq(Event) /\ DOMAIN evs = {} /\ out[c] = <<>> /\ out'[c] = evs /\ bus' = bus
  BY <1>2, <1>3
<1>5. /\ \A r \in Rooms : call'[c] = Clearing(r) => r \notin rooms'
      /\ \A r \in Rooms : r \in rooms /\ r \notin rooms' => call'[c] = Clearing(r)
      /\ \A r \in Rooms : r \notin rooms => r \notin rooms'
  BY <1>1 DEF Clearing
<1>6. Announces(c, evs)
  BY <1>1, <1>4, <1>5 DEF Announces
<1>. QED
  BY <1>6

\* A section that leaves one event, about the only key it changes.
LEMMA AnnounceOne ==
  ASSUME CallsOK, NEW c \in Callers, NEW k, call' = [call EXCEPT ![c] = k],
         NEW e \in Event, out[c] = <<>>, out' = [out EXCEPT ![c] = <<e>>], UNCHANGED bus,
         call[c].step \notin {"clearRoom", "prune"}, k.step # "clearRoom",
         Right(c, e)', e.type # "RoomRemoved", e.type = "DeviceRemoved" => k = Pruning(e.dev),
         \A r \in rooms : r \in rooms',
         \A r \in rooms' : r \in rooms \/ Keys(e) = {r},
         \A d \in Devices : devices'[d] = devices[d] \/ Keys(e) = {d},
         \A g \in Groups : groups'[g] = groups[g] \/ Keys(e) = {g}
  PROVE  \E evs : Announces(c, evs)
<1>1. call'[c] = k /\ \A x : call[c] # Clearing(x) /\ call[c] # Pruning(x)
  BY DEF CallsOK, Clearing, Pruning
<1>2. \A r : k # Clearing(r)
  BY DEF Clearing
<1>3. PICK evs : evs = <<e>>
  OBVIOUS
<1>4. evs \in Seq(Event) /\ DOMAIN evs = {1} /\ evs[1] = e /\ out'[c] = evs
  BY <1>3 DEF CallsOK
<1>5. \A x : Keys(e) = {x} => Later(evs, 0, x)
  BY <1>4 DEF Later
<1>6. \A i \in DOMAIN evs :
        /\ Right(c, evs[i])'
        /\ evs[i].type # "RoomRemoved"
        /\ evs[i].type = "DeviceRemoved" => call'[c] = Pruning(evs[i].dev)
  <2>1. \A i \in DOMAIN evs : evs[i] = e
    BY <1>4
  <2>. QED
    BY <1>1, <2>1 DEF Right
<1>7. Announces(c, evs)
  BY <1>1, <1>2, <1>3, <1>4, <1>5, <1>6 DEF Announces, Clearing
<1>. QED
  BY <1>7

LEMMA EventData ==
  /\ \A d, rec : /\ DeviceAdded(d, rec).type = "DeviceAdded"
                 /\ DeviceAdded(d, rec).dev = d /\ DeviceAdded(d, rec).rec = rec
                 /\ Keys(DeviceAdded(d, rec)) = {d}
  /\ \A d : /\ DeviceChanged(d).type = "DeviceStateChanged" /\ DeviceSeen(d).type = "DeviceSeen"
            /\ DeviceRoomChanged(d).type = "DeviceRoomChanged"
            /\ DeviceRemoved(d).type = "DeviceRemoved"
            /\ \A e \in {DeviceChanged(d), DeviceSeen(d), DeviceRoomChanged(d), DeviceRemoved(d)} :
                 e.dev = d /\ Keys(e) = {d}
  /\ \A r : /\ RoomSaved(r).type = "RoomSaved" /\ RoomRemoved(r).type = "RoomRemoved"
            /\ \A e \in {RoomSaved(r), RoomRemoved(r)} : e.room = r /\ Keys(e) = {r}
  /\ \A g, m : /\ GroupSaved(g, m).type = "GroupSaved"
               /\ GroupSaved(g, m).group = g /\ GroupSaved(g, m).members = m
               /\ Keys(GroupSaved(g, m)) = {g}
  /\ \A g : /\ GroupMembersChanged(g).type = "GroupMembersChanged"
            /\ GroupRemoved(g).type = "GroupRemoved"
            /\ \A e \in {GroupMembersChanged(g), GroupRemoved(g)} : e.group = g /\ Keys(e) = {g}
<1>1. \A d, rec : /\ DeviceAdded(d, rec).type = "DeviceAdded"
                  /\ DeviceAdded(d, rec).dev = d /\ DeviceAdded(d, rec).rec = rec
                  /\ Keys(DeviceAdded(d, rec)) = {d}
  BY DEF DeviceAdded, Keys
<1>2. \A d : /\ DeviceChanged(d).type = "DeviceStateChanged" /\ DeviceSeen(d).type = "DeviceSeen"
             /\ DeviceRoomChanged(d).type = "DeviceRoomChanged"
             /\ DeviceRemoved(d).type = "DeviceRemoved"
  BY DEF DeviceChanged, DeviceSeen, DeviceRoomChanged, DeviceRemoved
<1>3. \A d : \A e \in {DeviceChanged(d), DeviceSeen(d), DeviceRoomChanged(d), DeviceRemoved(d)} :
        e.dev = d /\ Keys(e) = {d}
  BY DEF DeviceChanged, DeviceSeen, DeviceRoomChanged, DeviceRemoved, Keys
<1>4. \A r : /\ RoomSaved(r).type = "RoomSaved" /\ RoomRemoved(r).type = "RoomRemoved"
             /\ \A e \in {RoomSaved(r), RoomRemoved(r)} : e.room = r /\ Keys(e) = {r}
  BY DEF RoomSaved, RoomRemoved, Keys
<1>5. \A g, m : /\ GroupSaved(g, m).type = "GroupSaved"
                /\ GroupSaved(g, m).group = g /\ GroupSaved(g, m).members = m
                /\ Keys(GroupSaved(g, m)) = {g}
  BY DEF GroupSaved, Keys
<1>6. \A g : /\ GroupMembersChanged(g).type = "GroupMembersChanged"
             /\ GroupRemoved(g).type = "GroupRemoved"
             /\ \A e \in {GroupMembersChanged(g), GroupRemoved(g)} : e.group = g /\ Keys(e) = {g}
  BY DEF GroupMembersChanged, GroupRemoved, Keys
<1>. QED
  BY <1>1, <1>2, <1>3, <1>4, <1>5, <1>6

\* The record of a row is never taken for the lack of one.
LEMMA NotAbsent == Absent \notin Device /\ Absent \notin Members
  BY RegistryAssumption DEF RegistryAssumption, Device, Members

\* A section that only decides where the call goes.
LEMMA AnnounceLookup ==
  ASSUME CallsOK, NEW c \in Callers, NEW k, GoTo(c, k), out[c] = <<>>,
         UNCHANGED <<rooms, devices, groups>>,
         call[c].step \notin {"clearRoom", "prune"}, k.step # "clearRoom"
  PROVE  \E evs : Announces(c, evs)
<1>1. call' = [call EXCEPT ![c] = k] /\ out'[c] = <<>> /\ bus' = bus
  BY DEF GoTo
<1>2. \A r : k # Clearing(r)
  BY DEF Clearing
<1>. QED
  BY <1>1, <1>2, AnnounceNone

LEMMA UpsertAnnounces ==
  ASSUME MapsOK, CallsOK, NEW c \in Callers, UpsertCheck(c) \/ UpsertWrite(c)
  PROVE  \E evs : Announces(c, evs)
<1>1. call[c] \in UpsertCall /\ out[c] = <<>>
  BY AtType, CallAtStep DEF UpsertCheck, UpsertWrite, At
<1>2. call[c].step \notin {"clearRoom", "prune"} /\ Idle.step = "idle"
  BY <1>1 DEF UpsertCall, Idle
<1>3. CASE UpsertCheck(c)
  <2>1. PICK k : GoTo(c, k) /\ k \in {Idle, [call[c] EXCEPT !.step = "upsertWrite"]}
    BY <1>3 DEF UpsertCheck
  <2>2. [call[c] EXCEPT !.step = "upsertWrite"].step = "upsertWrite"
    BY <1>1 DEF UpsertCall
  <2>3. k.step # "clearRoom"
    BY <1>2, <2>1, <2>2
  <2>. QED
    BY <1>1, <1>2, <1>3, <2>1, <2>3, AnnounceLookup DEF UpsertCheck
<1>4. CASE UpsertWrite(c)
  <2>1. PICK d, rec : d = call[c].dev /\ rec = [room |-> call[c].room, val |-> call[c].val]
    OBVIOUS
  <2>2. d \in Devices /\ rec \in Device /\ rec # Absent
    BY <1>1, <2>1, NotAbsent DEF UpsertCall, Device
  <2>3. /\ call' = [call EXCEPT ![c] = Idle] /\ UNCHANGED <<bus, rooms, groups>>
        /\ \/ devices' = [devices EXCEPT ![d] = rec] /\ out' = [out EXCEPT ![c] = <<DeviceAdded(d, rec)>>]
           \/ devices' = [devices EXCEPT ![d] = rec] /\ out' = [out EXCEPT ![c] = <<DeviceChanged(d)>>]
           \/ /\ UNCHANGED devices /\ devices[d] # Absent
              /\ out' = [out EXCEPT ![c] = <<DeviceSeen(d)>>]
           \/ UNCHANGED devices /\ out' = [out EXCEPT ![c] = <<>>]
    BY <1>4, <2>1, Zenon DEF UpsertWrite, Leave
  <2>4. ASSUME devices' = [devices EXCEPT ![d] = rec]
        PROVE  devices'[d] = rec /\ \A x \in Devices : x # d => devices'[x] = devices[x]
    BY <2>2, <2>4 DEF MapsOK
  <2>5. ASSUME NEW e \in Event, out' = [out EXCEPT ![c] = <<e>>], Keys(e) = {d}, e.dev = d,
               \/ devices' = [devices EXCEPT ![d] = rec]
               \/ UNCHANGED devices /\ devices[d] # Absent,
               \/ e.type = "DeviceAdded" /\ e.rec = devices'[d]
               \/ e.type \in {"DeviceStateChanged", "DeviceSeen"}
        PROVE  \E evs : Announces(c, evs)
    <3>1. devices'[d] # Absent /\ \A x \in Devices : x # d => devices'[x] = devices[x]
      BY <2>2, <2>4, <2>5
    <3>2. Right(c, e)'
      BY <2>5, <3>1 DEF Right
    <3>. QED
      BY <1>1, <1>2, <2>3, <2>5, <3>1, <3>2, AnnounceOne
  <2>6. CASE /\ devices' = [devices EXCEPT ![d] = rec]
             /\ out' = [out EXCEPT ![c] = <<DeviceAdded(d, rec)>>]
    <3>1. PICK e : e = DeviceAdded(d, rec)
      OBVIOUS
    <3>2. e \in Event /\ Keys(e) = {d} /\ e.dev = d /\ e.type = "DeviceAdded" /\ e.rec = rec
      BY <2>2, <3>1, EventTypes, EventData
    <3>. QED
      BY <2>4, <2>5, <2>6, <3>1, <3>2
  <2>7. CASE /\ devices' = [devices EXCEPT ![d] = rec]
             /\ out' = [out EXCEPT ![c] = <<DeviceChanged(d)>>]
    <3>1. PICK e : e = DeviceChanged(d)
      OBVIOUS
    <3>2. e \in Event /\ Keys(e) = {d} /\ e.dev = d /\ e.type = "DeviceStateChanged"
      BY <2>2, <3>1, EventTypes, EventData
    <3>. QED
      BY <2>5, <2>7, <3>1, <3>2
  <2>8. CASE /\ UNCHANGED devices /\ devices[d] # Absent
             /\ out' = [out EXCEPT ![c] = <<DeviceSeen(d)>>]
    <3>1. PICK e : e = DeviceSeen(d)
      OBVIOUS
    <3>2. e \in Event /\ Keys(e) = {d} /\ e.dev = d /\ e.type = "DeviceSeen"
      BY <2>2, <3>1, EventTypes, EventData
    <3>. QED
      BY <2>5, <2>8, <3>1, <3>2
  <2>9. CASE UNCHANGED devices /\ out' = [out EXCEPT ![c] = <<>>]
    <3>1. out'[c] = <<>> /\ \A r : Idle # Clearing(r)
      BY <2>9, <1>2 DEF CallsOK, Clearing
    <3>. QED
      BY <1>1, <1>2, <2>3, <2>9, <3>1, AnnounceNone
  <2>. QED
    BY <2>3, <2>6, <2>7, <2>8, <2>9
<1>. QED
  BY <1>3, <1>4

LEMMA AssignAnnounces ==
  ASSUME MapsOK, CallsOK, NEW c \in Callers, AssignWrite(c)
  PROVE  \E evs : Announces(c, evs)
<1>1. call[c] \in AssignCall /\ out[c] = <<>>
  BY AtType, CallAtStep DEF AssignWrite, At
<1>2. call[c].step \notin {"clearRoom", "prune"} /\ Idle.step = "idle"
  BY <1>1 DEF AssignCall, Idle
<1>3. PICK d, r : d = call[c].dev /\ r = call[c].room
  OBVIOUS
<1>4. d \in Devices /\ r \in Rooms \cup {NoRoom}
  BY <1>1, <1>3 DEF AssignCall
<1>5. CASE GoTo(c, Idle) /\ UNCHANGED devices
  BY <1>1, <1>2, <1>5, AnnounceLookup DEF AssignWrite
<1>6. CASE /\ RoomOf(d) # Absent
           /\ devices' = [devices EXCEPT ![d].room = r] /\ Leave(c, <<DeviceRoomChanged(d)>>)
  <2>1. PICK e : e = DeviceRoomChanged(d)
    OBVIOUS
  <2>2. /\ e \in Event /\ Keys(e) = {d} /\ e.dev = d /\ e.type = "DeviceRoomChanged"
        /\ call' = [call EXCEPT ![c] = Idle] /\ out' = [out EXCEPT ![c] = <<e>>] /\ bus' = bus
    BY <1>4, <1>6, <2>1, EventTypes, EventData DEF Leave
  <2>3. devices[d] \in Device
    BY <1>4, <1>6, RoomOfType
  <2>4. /\ devices'[d] \in Device
        /\ \A x \in Devices : x # d => devices'[x] = devices[x]
    BY <1>4, <1>6, <2>3 DEF MapsOK, Device
  <2>5. Right(c, e)'
    BY <2>2, <2>4, NotAbsent DEF Right
  <2>. QED
    BY <1>1, <1>2, <2>2, <2>4, <2>5, AnnounceOne DEF AssignWrite
<1>. QED
  BY <1>3, <1>5, <1>6 DEF AssignWrite

LEMMA GroupAnnounces ==
  ASSUME MapsOK, CallsOK, NEW c \in Callers,
         UpsertGroupWrite(c) \/ SetMembersWrite(c) \/ \E g \in Groups : RemoveGroup(c, g)
  PROVE  \E evs : Announces(c, evs)
<1>1. ASSUME NEW g \in Groups, NEW m, NEW e \in Event, Leave(c, <<e>>), out[c] = <<>>,
             groups' = [groups EXCEPT ![g] = m], UNCHANGED <<rooms, devices>>,
             call[c].step \notin {"clearRoom", "prune"}, Keys(e) = {g}, e.group = g,
             \/ e.type = "GroupSaved" /\ e.members = m
             \/ e.type = "GroupRemoved" /\ m = Absent
             \/ e.type = "GroupMembersChanged" /\ m # Absent
      PROVE  \E evs : Announces(c, evs)
  <2>1. groups'[g] = m /\ \A x \in Groups : x # g => groups'[x] = groups[x]
    BY <1>1 DEF MapsOK
  <2>2. Right(c, e)'
    BY <1>1, <2>1 DEF Right
  <2>3. /\ call' = [call EXCEPT ![c] = Idle] /\ out' = [out EXCEPT ![c] = <<e>>] /\ bus' = bus
        /\ Idle.step = "idle"
    BY <1>1 DEF Leave, Idle
  <2>. QED
    BY <1>1, <2>1, <2>2, <2>3, AnnounceOne
<1>2. PICK g, m : g = call[c].group /\ m = call[c].members
  OBVIOUS
<1>3. ASSUME UpsertGroupWrite(c) \/ SetMembersWrite(c)
      PROVE  /\ g \in Groups /\ m \in Members /\ m # Absent /\ out[c] = <<>>
             /\ call[c].step \notin {"clearRoom", "prune"}
  <2>1. call[c] \in MembersCall /\ out[c] = <<>>
    BY <1>3, AtType, CallAtStep DEF UpsertGroupWrite, SetMembersWrite, At
  <2>. QED
    BY <1>2, <2>1, NotAbsent DEF MembersCall
<1>4. CASE UpsertGroupWrite(c)
  <2>1. PICK e : e = GroupSaved(g, m)
    OBVIOUS
  <2>2. /\ e \in Event /\ Keys(e) = {g} /\ e.group = g /\ e.type = "GroupSaved"
        /\ e.members = m /\ Leave(c, <<e>>) /\ groups' = [groups EXCEPT ![g] = m]
        /\ UNCHANGED <<rooms, devices>>
    BY <1>2, <1>3, <1>4, <2>1, EventTypes, EventData DEF UpsertGroupWrite
  <2>. QED
    BY <1>1, <1>3, <1>4, <2>2
<1>5. CASE SetMembersWrite(c)
  <2>1. CASE GoTo(c, Idle) /\ UNCHANGED groups
    <3>1. Idle.step = "idle"
      BY DEF Idle
    <3>. QED
      BY <1>3, <1>5, <2>1, <3>1, AnnounceLookup DEF SetMembersWrite
  <2>2. CASE groups' = [groups EXCEPT ![g] = m] /\ Leave(c, <<GroupMembersChanged(g)>>)
    <3>1. PICK e : e = GroupMembersChanged(g)
      OBVIOUS
    <3>2. /\ e \in Event /\ Keys(e) = {g} /\ e.group = g /\ e.type = "GroupMembersChanged"
          /\ Leave(c, <<e>>)
      BY <1>3, <1>5, <2>2, <3>1, EventTypes, EventData
    <3>. QED
      BY <1>1, <1>3, <1>5, <2>2, <3>2 DEF SetMembersWrite
  <2>. QED
    BY <1>2, <1>5, <2>1, <2>2 DEF SetMembersWrite
<1>6. ASSUME NEW x \in Groups, RemoveGroup(c, x) PROVE \E evs : Announces(c, evs)
  <2>1. PICK e : e = GroupRemoved(x)
    OBVIOUS
  <2>2. /\ e \in Event /\ Keys(e) = {x} /\ e.group = x /\ e.type = "GroupRemoved"
        /\ Leave(c, <<e>>) /\ groups' = [groups EXCEPT ![x] = Absent]
        /\ UNCHANGED <<rooms, devices>> /\ out[c] = <<>> /\ call[c].step = "idle"
    BY <1>6, <2>1, EventTypes, EventData DEF RemoveGroup, Begin, Idle
  <2>. QED
    BY <1>1, <2>2
<1>. QED
  BY <1>4, <1>5, <1>6

\* The groups that lose the device are each announced.
LEMMA PruneAnnounces ==
  ASSUME MapsOK, CallsOK, NEW c \in Callers, PruneGroups(c)
  PROVE  \E evs : Announces(c, evs)
<1>1. PICK d \in Devices : d = call[c].dev /\ call[c] = Pruning(d)
  BY AtType, CallAtStep DEF PruneGroups, PruneCall, Pruning
<1>2. PICK changed : changed = {g \in Groups : groups[g] # Absent /\ groups[g][d] > 0}
  OBVIOUS
<1>3. PICK order \in SetToSeqs(changed) :
        Leave(c, [i \in DOMAIN order |-> GroupMembersChanged(order[i])])
  BY <1>1, <1>2 DEF PruneGroups
<1>4. PICK n \in Nat : /\ DOMAIN order = 1 .. n
                       /\ \A i \in 1 .. n : order[i] \in changed
                       /\ \A x \in changed : \E i \in 1 .. n : order[i] = x
  <2>1. IsFiniteSet(changed)
    BY <1>2, RegistryAssumption, FS_Subset DEF RegistryAssumption
  <2>. QED
    BY <1>3, <2>1, Orders
<1>5. PICK evs : evs = [i \in 1 .. n |-> GroupMembersChanged(order[i])]
  OBVIOUS
<1>6. /\ DOMAIN evs = 1 .. n
      /\ \A i \in 1 .. n : /\ evs[i] \in Event /\ evs[i].type = "GroupMembersChanged"
                           /\ evs[i].group = order[i] /\ Keys(evs[i]) = {order[i]}
  BY <1>2, <1>4, <1>5, EventTypes, EventData
<1>7. evs \in Seq(Event)
  BY <1>4, <1>5, <1>6
<1>8. /\ out[c] = <<>> /\ out'[c] = evs /\ bus' = bus /\ call'[c] = Idle
      /\ UNCHANGED <<rooms, devices>>
      /\ groups' = [g \in Groups |-> IF g \in changed THEN Without(groups[g], d) ELSE groups[g]]
  BY <1>1, <1>2, <1>3, <1>4, <1>5 DEF PruneGroups, At, Leave, CallsOK
<1>9. \A g \in changed : Later(evs, 0, g)
  BY <1>4, <1>6 DEF Later
<1>10. \A g \in Groups : groups'[g] = groups[g] \/ g \in changed
  BY <1>8
<1>11. \A g \in changed : groups'[g] # Absent
  <2>. TAKE g \in changed
  <2>1. groups[g] \in Members /\ groups'[g] = Without(groups[g], d)
    BY <1>2, <1>8 DEF MapsOK
  <2>. QED
    BY <2>1, NotAbsent, RegistryAssumption DEF Without, Members, RegistryAssumption
<1>12. \A i \in DOMAIN evs : Right(c, evs[i])'
  <2>. SUFFICES ASSUME NEW i \in 1 .. n PROVE Right(c, evs[i])'
    BY <1>6
  <2>1. PICK e : e = evs[i]
    OBVIOUS
  <2>2. e.type = "GroupMembersChanged" /\ groups'[e.group] # Absent
    BY <1>4, <1>6, <1>11, <2>1
  <2>3. Right(c, e)'
    BY <2>2 DEF Right
  <2>. QED
    BY <2>1, <2>3 DEF Right
<1>13. \A g \in Groups, x \in Devices : call[c] = Pruning(x) /\ OnRecord(g, x) => Later(evs, 0, g)
  BY <1>1, <1>2, <1>9 DEF Pruning, OnRecord
<1>14. \A r : call[c] # Clearing(r) /\ Idle # Clearing(r)
  BY <1>1 DEF Pruning, Clearing, Idle
<1>15. Announces(c, evs)
  BY <1>6, <1>7, <1>8, <1>9, <1>10, <1>12, <1>13, <1>14 DEF Announces, Clearing
<1>. QED
  BY <1>15

\* The room's removal is announced, then each device that has left it.
LEMMA ClearAnnounces ==
  ASSUME MapsOK, CallsOK, NEW c \in Callers, PipeInv(c), ClearRoom(c)
  PROVE  \E evs : Announces(c, evs)
<1>1. PICK r \in Rooms : r = call[c].room /\ call[c] = Clearing(r)
  BY AtType, CallAtStep DEF ClearRoom, ClearCall, Clearing
<1>2. PICK changed : changed = {d \in Devices : RoomOf(d) = r}
  OBVIOUS
<1>3. PICK order \in SetToSeqs(changed) :
        Leave(c, <<RoomRemoved(r)>> \o [i \in DOMAIN order |-> DeviceRoomChanged(order[i])])
  BY <1>1, <1>2 DEF ClearRoom
<1>4. PICK n \in Nat : /\ DOMAIN order = 1 .. n
                       /\ \A i \in 1 .. n : order[i] \in changed
                       /\ \A x \in changed : \E i \in 1 .. n : order[i] = x
  <2>1. IsFiniteSet(changed)
    BY <1>2, RegistryAssumption, FS_Subset DEF RegistryAssumption
  <2>. QED
    BY <1>3, <2>1, Orders
<1>5. PICK tail, evs : /\ tail = [i \in 1 .. n |-> DeviceRoomChanged(order[i])]
                       /\ evs = <<RoomRemoved(r)>> \o tail
  OBVIOUS
<1>6. /\ tail \in Seq(Event) /\ Len(tail) = n /\ <<RoomRemoved(r)>> \in Seq(Event)
      /\ \A i \in 1 .. n : /\ tail[i].type = "DeviceRoomChanged"
                           /\ tail[i].dev = order[i] /\ Keys(tail[i]) = {order[i]}
  <2>1. \A i \in 1 .. n : /\ tail[i] \in Event /\ tail[i].type = "DeviceRoomChanged"
                          /\ tail[i].dev = order[i] /\ Keys(tail[i]) = {order[i]}
    BY <1>2, <1>4, <1>5, EventTypes, EventData
  <2>2. RoomRemoved(r) \in Event
    BY EventTypes
  <2>. QED
    BY <1>4, <1>5, <2>1, <2>2
<1>7. /\ evs \in Seq(Event) /\ DOMAIN evs = 1 .. n + 1 /\ evs[1] = RoomRemoved(r)
      /\ \A i \in 1 .. n : evs[i + 1] = tail[i]
  BY <1>4, <1>5, <1>6
<1>8. /\ out[c] = <<>> /\ out'[c] = evs /\ bus' = bus /\ call'[c] = Idle
      /\ UNCHANGED <<rooms, groups>>
      /\ devices' = [d \in Devices |-> IF d \in changed THEN [devices[d] EXCEPT !.room = NoRoom]
                                                        ELSE devices[d]]
  BY <1>1, <1>2, <1>3, <1>4, <1>5 DEF ClearRoom, At, Leave, CallsOK
<1>9. \A d \in changed : Later(evs, 0, d)
  <2>. TAKE d \in changed
  <2>1. PICK i \in 1 .. n : order[i] = d
    BY <1>4
  <2>2. i + 1 \in DOMAIN evs /\ i + 1 > 0 /\ Keys(evs[i + 1]) = {d}
    BY <1>4, <1>6, <1>7, <2>1
  <2>. QED
    BY <2>2 DEF Later
<1>10. Later(evs, 0, r)
  <2>1. 1 \in DOMAIN evs /\ Keys(evs[1]) = {r}
    BY <1>4, <1>7, EventData
  <2>. QED
    BY <2>1 DEF Later
<1>11. \A d \in Devices : devices'[d] = devices[d] \/ d \in changed
  BY <1>8
<1>12. ASSUME NEW d \in changed
       PROVE  d \in Devices /\ devices'[d] \in Device /\ devices'[d].room = NoRoom
  <2>1. d \in Devices /\ devices[d] \in Device
    BY <1>1, <1>2, RoomOfType, RegistryAssumption DEF RegistryAssumption
  <2>2. devices'[d] = [devices[d] EXCEPT !.room = NoRoom]
    BY <1>8, <2>1
  <2>. QED
    BY <2>1, <2>2 DEF Device
<1>13. \A d \in Devices : devices'[d] # Absent => devices'[d].room # r
  <2>. SUFFICES ASSUME NEW d \in Devices, devices'[d] # Absent PROVE devices'[d].room # r
    OBVIOUS
  <2>1. CASE d \in changed
    BY <1>12, <2>1, RegistryAssumption DEF RegistryAssumption
  <2>2. CASE d \notin changed
    BY <1>2, <1>8, <2>2, RoomOfType
  <2>. QED
    BY <2>1, <2>2
<1>14. \A i \in DOMAIN evs :
         /\ Right(c, evs[i])'
         /\ evs[i].type = "RoomRemoved" => evs[i].room = r
         /\ evs[i].type # "DeviceRemoved"
  <2>. SUFFICES ASSUME NEW i \in 1 .. n + 1
                PROVE  /\ Right(c, evs[i])'
                       /\ evs[i].type = "RoomRemoved" => evs[i].room = r
                       /\ evs[i].type # "DeviceRemoved"
    BY <1>7
  <2>1. PICK e : e = evs[i]
    OBVIOUS
  <2>2. \/ e.type = "RoomRemoved" /\ e.room = r
        \/ e.type = "DeviceRoomChanged" /\ devices'[e.dev] # Absent
    <3>1. CASE i = 1
      BY <1>7, <2>1, <3>1, EventData
    <3>2. CASE i # 1
      <4>1. i - 1 \in 1 .. n /\ (i - 1) + 1 = i
        BY <3>2
      <4>2. e = tail[i - 1]
        BY <1>7, <2>1, <4>1
      <4>. QED
        BY <1>4, <1>6, <1>12, <4>1, <4>2, NotAbsent
    <3>. QED
      BY <3>1, <3>2
  <2>3. r \notin rooms'
    BY <1>1, <1>8 DEF PipeInv
  <2>4. Right(c, e)'
    BY <2>2, <2>3 DEF Right
  <2>. QED
    BY <2>1, <2>2, <2>4 DEF Right
<1>15. /\ \A x : call[c] = Clearing(x) => x = r
       /\ \A x : call[c] # Pruning(x) /\ Idle # Clearing(x)
  BY <1>1 DEF Pruning, Clearing, Idle
<1>16. Announces(c, evs)
  BY <1>7, <1>8, <1>9, <1>10, <1>11, <1>13, <1>14, <1>15 DEF Announces, Clearing
<1>. QED
  BY <1>16

LEMMA BeginsAnnounce ==
  ASSUME MapsOK, CallsOK, NEW c \in Callers, CallBegins(c)
  PROVE  \E evs : Announces(c, evs)
<1>1. call[c] = Idle /\ out[c] = <<>> /\ call[c].step = "idle"
  <2>1. \E op : Begin(c, op)
    BY Zenon DEF CallBegins, IngestRead, TrackerUpsert, RemoveDevice, AssignCheck, UpsertRoom,
                 RemoveRoom, RemoveGroup, UpsertGroupCheck, SetMembersCheck
  <2>. QED
    BY <2>1 DEF Begin, Idle
<1>2. ASSUME NEW k, GoTo(c, k), UNCHANGED <<rooms, devices, groups>>, k.step # "clearRoom"
      PROVE  \E evs : Announces(c, evs)
  BY <1>1, <1>2, AnnounceLookup
<1>3. CASE \E d \in Devices, v \in Values : IngestRead(c, d, v) \/ TrackerUpsert(c, d, v)
  <2>1. PICK d, v, r :
          /\ GoTo(c, [step |-> "upsertCheck", dev |-> d, val |-> v, room |-> r])
          /\ UNCHANGED <<rooms, devices, groups>>
    BY <1>3 DEF IngestRead, TrackerUpsert
  <2>2. PICK k : k = [step |-> "upsertCheck", dev |-> d, val |-> v, room |-> r]
    OBVIOUS
  <2>. QED
    BY <1>2, <2>1, <2>2
<1>4. CASE \E d \in Devices, r \in Rooms \cup {NoRoom} : AssignCheck(c, d, r)
  <2>1. PICK d \in Devices, r \in Rooms \cup {NoRoom} :
          GoTo(c, [step |-> "assignWrite", dev |-> d, room |-> r])
          /\ UNCHANGED <<rooms, devices, groups>>
    BY <1>4 DEF AssignCheck
  <2>2. PICK k : k = [step |-> "assignWrite", dev |-> d, room |-> r]
    OBVIOUS
  <2>. QED
    BY <1>2, <2>1, <2>2
<1>5. CASE \E g \in Groups, m \in Members : UpsertGroupCheck(c, g, m) \/ SetMembersCheck(c, g, m)
  <2>1. PICK g \in Groups, m \in Members : UpsertGroupCheck(c, g, m) \/ SetMembersCheck(c, g, m)
    BY <1>5
  <2>2. PICK k, l : /\ k = [step |-> "groupWrite", group |-> g, members |-> m]
                    /\ l = [step |-> "membersWrite", group |-> g, members |-> Deduped(m)]
    OBVIOUS
  <2>3. (GoTo(c, k) \/ GoTo(c, l)) /\ UNCHANGED <<rooms, devices, groups>>
    BY <2>1, <2>2 DEF UpsertGroupCheck, SetMembersCheck
  <2>4. k.step # "clearRoom" /\ l.step # "clearRoom"
    BY <2>2
  <2>. QED
    BY <1>2, <2>3, <2>4
<1>6. ASSUME NEW d \in Devices, RemoveDevice(c, d) PROVE \E evs : Announces(c, evs)
  <2>1. PICK e, k : e = DeviceRemoved(d) /\ k = Pruning(d)
    OBVIOUS
  <2>2. /\ e \in Event /\ Keys(e) = {d} /\ e.dev = d /\ e.type = "DeviceRemoved"
        /\ k.step = "prune"
    BY <2>1, EventTypes, EventData DEF Pruning
  <2>3. /\ call' = [call EXCEPT ![c] = k] /\ out' = [out EXCEPT ![c] = <<e>>]
        /\ UNCHANGED <<rooms, groups, bus>>
    BY <1>6, <2>1 DEF RemoveDevice, Pruning
  <2>4. \A x \in Devices : devices'[x] = IF x = d THEN Absent ELSE devices[x]
    BY <1>6 DEF RemoveDevice, MapsOK
  <2>5. Right(c, e)'
    BY <2>2, <2>4 DEF Right
  <2>. QED
    BY <1>1, <2>1, <2>2, <2>3, <2>4, <2>5, AnnounceOne
<1>7. ASSUME NEW r \in Rooms, UpsertRoom(c, r) PROVE \E evs : Announces(c, evs)
  <2>1. PICK e, k : e = RoomSaved(r) /\ k = Idle
    OBVIOUS
  <2>2. e \in Event /\ Keys(e) = {r} /\ e.room = r /\ e.type = "RoomSaved" /\ k.step = "idle"
    BY <2>1, EventTypes, EventData DEF Idle
  <2>3. /\ call' = [call EXCEPT ![c] = k] /\ out' = [out EXCEPT ![c] = <<e>>]
        /\ rooms' = rooms \cup {r} /\ UNCHANGED <<devices, groups, bus>>
    BY <1>7, <2>1 DEF UpsertRoom, Leave
  <2>5. Right(c, e)'
    BY <2>2, <2>3 DEF Right
  <2>. QED
    BY <1>1, <2>2, <2>3, <2>5, AnnounceOne
<1>8. ASSUME NEW r \in Rooms, RemoveRoom(c, r) PROVE \E evs : Announces(c, evs)
  <2>1. PICK k : k = Clearing(r)
    OBVIOUS
  <2>2. /\ call' = [call EXCEPT ![c] = k] /\ out'[c] = <<>>
        /\ rooms' = rooms \ {r} /\ UNCHANGED <<devices, groups, bus>>
    BY <1>1, <1>8, <2>1 DEF RemoveRoom, GoTo, Clearing
  <2>3. \A x : k = Clearing(x) => x = r
    BY <2>1 DEF Clearing
  <2>. QED
    BY <1>1, <2>1, <2>2, <2>3, AnnounceNone
<1>. QED
  BY <1>3, <1>4, <1>5, <1>6, <1>7, <1>8, GroupAnnounces DEF CallBegins

LEMMA CallerStep ==
  ASSUME MapsOK, CallsOK, NEW c \in Callers, PipeInv(c), CallStep(c) \/ CallBegins(c)
  PROVE  PipeInv(c)' /\ PendingKept(c)
<1>1. CASE Publish(c)
  BY <1>1, PublishedPipe
<1>2. CASE \E evs : Announces(c, evs)
  BY <1>2, AnnouncedPending, AnnouncedPipe
<1>. QED
  BY <1>1, <1>2, BeginsAnnounce, UpsertAnnounces, AssignAnnounces, GroupAnnounces,
     PruneAnnounces, ClearAnnounces DEF CallStep

\* Whatever the caller does, what holds of the worker goes on to hold.
LEMMA WorkerLooksOn ==
  ASSUME WorkerOK, NEW c, PendingKept(c), UNCHANGED <<db, mode, job, todo, snap, owed, missed>>,
         EventInv(c), SnapInv(c)
  PROVE  EventInv(c)' /\ SnapInv(c)'
<1>1. \A w \in todo : Current(w) => Current(w)' \/ Pending(c, w.id)'
  <2>. SUFFICES ASSUME NEW w \in todo, Current(w), ~Pending(c, w.id)' PROVE Current(w)'
    OBVIOUS
  <2>1. w \in Write
    BY DEF WorkerOK
  <2>2. CASE w.op \in {"saveRoom", "deleteRoom"}
    BY <2>1, <2>2, WriteKinds DEF PendingKept, Current
  <2>3. CASE w.op \in {"saveDevice", "deleteDevice"}
    BY <2>1, <2>3, WriteKinds DEF PendingKept, Current
  <2>4. CASE w.op \in {"saveGroup", "deleteGroup"}
    BY <2>1, <2>4, WriteKinds DEF PendingKept, Current
  <2>. QED
    BY <2>1, <2>2, <2>3, <2>4, WriteKinds
<1>2. ASSUME NEW d \in Devices, NEW r, devices'[d] # Absent, devices'[d].room = r
      PROVE  Pending(c, d)' \/ (devices[d] # Absent /\ devices[d].room = r)
  BY <1>2 DEF PendingKept
<1>3. ASSUME NEW g \in Groups, NEW d, OnRecord(g, d)'
      PROVE  Pending(c, g)' \/ OnRecord(g, d)
  BY <1>3 DEF PendingKept, OnRecord
<1>4. \A k : InHand(k)' <=> InHand(k)
  BY DEF InHand
<1>5. EventInv(c)'
  <2>. SUFFICES ASSUME Serving, job \in {"none", "sweep"} PROVE EventInv(c)'
    BY DEF EventInv, Serving
  <2>1. \A w \in todo : Current(w)' \/ Pending(c, w.id)'
    BY <1>1 DEF EventInv, PendingKept
  <2>2. \A r \in Rooms \ (owed \cup missed) :
          InHand(r)' \/ Pending(c, r)' \/ (r \in db.rooms <=> r \in rooms')
    BY <1>4 DEF EventInv, PendingKept
  <2>3. \A d \in Devices \ (owed \cup missed) :
          InHand(d)' \/ Pending(c, d)' \/ db.devices[d] = devices'[d]
    BY <1>4 DEF EventInv, PendingKept
  <2>4. \A g \in Groups \ (owed \cup missed) :
          InHand(g)' \/ Pending(c, g)' \/ db.groups[g] = groups'[g]
    BY <1>4 DEF EventInv, PendingKept
  <2>5. \A w \in todo : w.op = "deleteRoom" =>
          \A d \in Devices : devices'[d] # Absent /\ devices'[d].room = w.id => Pending(c, d)'
    BY <1>2 DEF EventInv, PendingKept
  <2>6. \A w \in todo : w.op = "deleteDevice" =>
          \A g \in Groups : OnRecord(g, w.id)' => Pending(c, g)'
    BY <1>3 DEF EventInv, PendingKept
  <2>. QED
    BY <2>1, <2>2, <2>3, <2>4, <2>5, <2>6 DEF EventInv
<1>6. SnapInv(c)'
  BY DEF SnapInv, Serving, PendingKept
<1>. QED
  BY <1>5, <1>6

-----------------------------------------------------------------------------
\* The steps of the worker

LEMMA RegistrySame ==
  ASSUME NEW c, UNCHANGED regVars, PipeInv(c)
  PROVE  PipeInv(c)' /\ \A k : Pending(c, k)' <=> Pending(c, k)
<1>1. UNCHANGED <<rooms, devices, groups, call, out, bus>> /\ Pipe(c)' = Pipe(c)
  BY DEF regVars, Pipe
<1>2. PipeInv(c)'
  BY <1>1, PipeKept DEF PipeInv
<1>3. \A k : Pending(c, k)' <=> Pending(c, k)
  BY <1>1 DEF Pending, OnRecord
<1>. QED
  BY <1>2, <1>3

\* The worker subscribes: what was published before is gone, and on record.
LEMMA SubscribeStep ==
  ASSUME MapsOK, CallsOK, WorkerOK, NEW c \in Callers, PipeInv(c), EventInv(c), FreshStart,
         WorkerSubscribe
  PROVE  PipeInv(c)' /\ EventInv(c)' /\ SnapInv(c)'
<1>1. /\ bus.buf \in Seq(Event) /\ out[c] \in Seq(Event)
      /\ bus'.buf = <<>> /\ ~bus'.lagged /\ UNCHANGED <<rooms, devices, groups, call, out>>
      /\ Pipe(c) = bus.buf \o out[c]
  BY DEF CallsOK, Receiver, WorkerSubscribe, Subscribed, Pipe
<1>2. Pipe(c)' = out[c]
  BY <1>1 DEF Pipe
<1>3. PipeInv(c)'
  <2>1. PipeOK(c, out[c])
    BY <1>1, PipeSuffix DEF PipeInv
  <2>. QED
    BY <1>1, <1>2, <2>1, PipeKept
<1>4. /\ Serving /\ job = "none" /\ todo = {} /\ missed = {}
      /\ job' = "none" /\ todo' = {} /\ UNCHANGED <<db, owed>>
  BY DEF WorkerSubscribe, FreshStart, Serving
<1>5. ASSUME NEW k \in Identifiers, Pending(c, k), k \notin missed'
      PROVE  Pending(c, k)'
  <2>1. ~bus.lagged /\ \A e \in Range(bus.buf) : k \notin Keys(e)
    BY <1>5 DEF WorkerSubscribe, Identifiers
  <2>2. ~Later(bus.buf, 0, k)
    BY <2>1 DEF Later, Range
  <2>3. Later(Pipe(c), 0, k) => Later(out[c], 0, k)
    <3>1. 0 \in 0 .. Len(bus.buf)
      BY <1>1
    <3>. QED
      BY <1>1, <2>2, <3>1, LaterConcat
  <2>. QED
    BY <1>1, <1>2, <1>5, <2>1, <2>3 DEF Pending, OnRecord
<1>6. EventInv(c)'
  <2>1. \A r \in Rooms \ (owed \cup missed') : Pending(c, r)' \/ (r \in db.rooms <=> r \in rooms)
    BY <1>4, <1>5 DEF EventInv, InHand, Identifiers
  <2>2. \A d \in Devices \ (owed \cup missed') : Pending(c, d)' \/ db.devices[d] = devices[d]
    BY <1>4, <1>5 DEF EventInv, InHand, Identifiers
  <2>3. \A g \in Groups \ (owed \cup missed') : Pending(c, g)' \/ db.groups[g] = groups[g]
    BY <1>4, <1>5 DEF EventInv, InHand, Identifiers
  <2>. QED
    BY <1>1, <1>4, <2>1, <2>2, <2>3 DEF EventInv
<1>7. SnapInv(c)'
  BY <1>4 DEF SnapInv
<1>. QED
  BY <1>3, <1>6, <1>7

LEMMA PipeHead ==
  ASSUME NEW s \in Seq(Event), s # <<>>, NEW o \in Seq(Event)
  PROVE  /\ s \o o \in Seq(Event) /\ s \o o # <<>> /\ 1 \in DOMAIN (s \o o)
         /\ Head(s \o o) = Head(s) /\ (s \o o)[1] = Head(s)
         /\ Tail(s \o o) = Tail(s) \o o
<1>1. PICK h, t : h = Head(s) /\ t = Tail(s)
  OBVIOUS
<1>2. h \in Event /\ t \in Seq(Event) /\ s = <<h>> \o t /\ <<h>> \in Seq(Event)
  BY <1>1
<1>3. s \o o = <<h>> \o (t \o o) /\ t \o o \in Seq(Event)
  BY <1>2, ConcatAssociative
<1>4. PICK u \in Seq(Event) : u = t \o o
  BY <1>3
<1>5. /\ <<h>> \o u \in Seq(Event) /\ <<h>> \o u # <<>> /\ 1 \in DOMAIN (<<h>> \o u)
      /\ Head(<<h>> \o u) = h /\ (<<h>> \o u)[1] = h
  BY <1>2, <1>4
<1>6. Tail(<<h>> \o u) = u
  BY <1>2, <1>4
<1>. QED
  BY <1>1, <1>3, <1>4, <1>5, <1>6

\* An event asks for a write of its own key, unless the registry has lost the row.
LEMMA Asked ==
  ASSUME NEW e \in Event
  PROVE  /\ \A w \in WritesFor(e) : Keys(e) = {w.id}
         /\ \/ \E w \in WritesFor(e) : TRUE
            \/ e.type \in {"DeviceStateChanged", "DeviceSeen", "DeviceRoomChanged"}
               /\ devices[e.dev] = Absent
            \/ e.type = "GroupMembersChanged" /\ groups[e.group] = Absent
<1>1. ASSUME NEW w, WritesFor(e) = {w}, Keys(e) = {w.id}
      PROVE  (\A x \in WritesFor(e) : Keys(e) = {x.id}) /\ \E x \in WritesFor(e) : TRUE
  BY <1>1
<1>2. CASE e.type = "RoomSaved"
  <2>1. WritesFor(e) = {SaveRoom(e.room)}
    BY <1>2 DEF WritesFor
  <2>2. Keys(e) = {SaveRoom(e.room).id}
    BY <1>2, EventKinds DEF SaveRoom
  <2>. QED
    BY <1>1, <2>1, <2>2
<1>3. CASE e.type = "RoomRemoved"
  <2>1. WritesFor(e) = {DeleteRoom(e.room)}
    BY <1>3 DEF WritesFor
  <2>2. Keys(e) = {DeleteRoom(e.room).id}
    BY <1>3, EventKinds DEF DeleteRoom
  <2>. QED
    BY <1>1, <2>1, <2>2
<1>4. CASE e.type = "DeviceAdded"
  <2>1. WritesFor(e) = {SaveDevice(e.dev, e.rec)}
    BY <1>4 DEF WritesFor
  <2>2. Keys(e) = {SaveDevice(e.dev, e.rec).id}
    BY <1>4, EventKinds DEF SaveDevice
  <2>. QED
    BY <1>1, <2>1, <2>2
<1>5. CASE e.type = "DeviceRemoved"
  <2>1. WritesFor(e) = {DeleteDevice(e.dev)}
    BY <1>5 DEF WritesFor
  <2>2. Keys(e) = {DeleteDevice(e.dev).id}
    BY <1>5, EventKinds DEF DeleteDevice
  <2>. QED
    BY <1>1, <2>1, <2>2
<1>6. CASE e.type = "GroupSaved"
  <2>1. WritesFor(e) = {SaveGroup(e.group, e.members)}
    BY <1>6 DEF WritesFor
  <2>2. Keys(e) = {SaveGroup(e.group, e.members).id}
    BY <1>6, EventKinds DEF SaveGroup
  <2>. QED
    BY <1>1, <2>1, <2>2
<1>7. CASE e.type = "GroupRemoved"
  <2>1. WritesFor(e) = {DeleteGroup(e.group)}
    BY <1>7 DEF WritesFor
  <2>2. Keys(e) = {DeleteGroup(e.group).id}
    BY <1>7, EventKinds DEF DeleteGroup
  <2>. QED
    BY <1>1, <2>1, <2>2
<1>8. CASE e.type \in {"DeviceStateChanged", "DeviceSeen", "DeviceRoomChanged"}
  <2>1. e.dev \in Devices /\ Keys(e) = {e.dev}
    BY <1>8, EventKinds
  <2>2. WritesFor(e) = SaveIfPresent(e.dev)
    BY <1>8 DEF WritesFor
  <2>3. CASE devices[e.dev] = Absent
    BY <1>8, <2>2, <2>3 DEF SaveIfPresent, Registered
  <2>4. CASE devices[e.dev] # Absent
    <3>1. WritesFor(e) = {SaveDevice(e.dev, devices[e.dev])}
      BY <2>1, <2>2, <2>4 DEF SaveIfPresent, Registered
    <3>2. SaveDevice(e.dev, devices[e.dev]).id = e.dev
      BY DEF SaveDevice
    <3>. QED
      BY <1>1, <2>1, <3>1, <3>2
  <2>. QED
    BY <2>3, <2>4
<1>9. CASE e.type = "GroupMembersChanged"
  <2>1. e.group \in Groups /\ Keys(e) = {e.group}
    BY <1>9, EventKinds
  <2>2. CASE groups[e.group] = Absent
    BY <1>9, <2>2 DEF WritesFor
  <2>3. CASE groups[e.group] # Absent
    <3>1. WritesFor(e) = {SaveGroup(e.group, groups[e.group])}
      BY <1>9, <2>3 DEF WritesFor
    <3>2. SaveGroup(e.group, groups[e.group]).id = e.group
      BY DEF SaveGroup
    <3>. QED
      BY <1>1, <2>1, <3>1, <3>2
  <2>. QED
    BY <2>2, <2>3
<1>. QED
  BY <1>2, <1>3, <1>4, <1>5, <1>6, <1>7, <1>8, <1>9, EventKinds

\* The worker takes an event: its write is in hand, or not needed.
LEMMA RecvStep ==
  ASSUME MapsOK, CallsOK, WorkerOK, NEW c \in Callers, PipeInv(c), EventInv(c), WorkerRecv
  PROVE  PipeInv(c)' /\ EventInv(c)' /\ SnapInv(c)'
<1>1. /\ bus.buf \in Seq(Event) /\ bus.buf # <<>> /\ out[c] \in Seq(Event) /\ ~bus.lagged
      /\ bus'.buf = Tail(bus.buf) /\ bus'.lagged = bus.lagged
      /\ UNCHANGED <<rooms, devices, groups, call, out>>
      /\ todo = {} /\ job = "none" /\ job' \in {"none", "sweep"}
      /\ UNCHANGED <<db, mode, owed, missed>>
  BY DEF CallsOK, Receiver, WorkerRecv, HasEvent, AfterEvent, WorkerFree
<1>2. PICK e \in Event : e = Head(bus.buf) /\ todo' = WritesFor(e)
  BY <1>1 DEF WorkerRecv
<1>3. PICK P \in Seq(Event) : P = Pipe(c) /\ P # <<>> /\ Head(P) = e /\ P[1] = e /\ 1 \in DOMAIN P
                              /\ Pipe(c)' = Tail(P)
  <2>1. PICK s : s = bus.buf
    OBVIOUS
  <2>2. PICK o : o = out[c]
    OBVIOUS
  <2>3. s \in Seq(Event) /\ s # <<>> /\ o \in Seq(Event) /\ e = Head(s)
    BY <1>1, <1>2, <2>1, <2>2
  <2>4. Pipe(c) = s \o o /\ Pipe(c)' = Tail(s) \o o
    BY <1>1, <2>1, <2>2 DEF Pipe
  <2>5. PICK u : u = s \o o
    OBVIOUS
  <2>6. /\ u \in Seq(Event) /\ u # <<>> /\ 1 \in DOMAIN u /\ Head(u) = e /\ u[1] = e
        /\ Tail(u) = Tail(s) \o o
    BY <2>3, <2>5, PipeHead
  <2>7. u = Pipe(c) /\ Pipe(c)' = Tail(u)
    BY <2>4, <2>5, <2>6
  <2>. QED
    BY <2>6, <2>7, Zenon
<1>4. PipeInv(c)'
  <2>1. PipeOK(c, Tail(P))
    BY <1>3, PipeTail DEF PipeInv
  <2>. QED
    BY <1>1, <1>3, <2>1, PipeKept
<1>5. /\ \A k : Keys(e) = {k} => Right(c, e) \/ Later(P, 1, k)
      /\ e.type = "RoomRemoved" =>
           \A d \in Devices : devices[d] # Absent /\ devices[d].room = e.room => Later(P, 1, d)
      /\ e.type = "DeviceRemoved" =>
           \A g \in Groups : OnRecord(g, e.dev) => call[c] = Pruning(e.dev) \/ Later(P, 1, g)
  BY <1>3 DEF PipeInv, PipeOK
<1>6. \A k : Later(P, 1, k) => Pending(c, k)'
  <2>1. \A k : Later(P, 1, k) => Later(Tail(P), 0, k)
    BY <1>3, LaterTail
  <2>. QED
    BY <1>3, <2>1 DEF Pending
<1>7. ASSUME NEW k, Pending(c, k)
      PROVE  Keys(e) = {k} \/ Pending(c, k)'
  <2>1. CASE Later(P, 0, k)
    BY <1>3, <1>6, <2>1, LaterTail
  <2>2. CASE ~Later(P, 0, k)
    BY <1>1, <1>3, <1>7, <2>2 DEF Pending, OnRecord
  <2>. QED
    BY <2>1, <2>2
\* The write of an event that is right, of whatever type.
<1>8. ASSUME NEW k, Keys(e) = {k}, ~Later(P, 1, k)
      PROVE  Right(c, e) /\ InHand(k)'
  <2>1. Right(c, e)
    BY <1>5, <1>8
  <2>2. \A w \in WritesFor(e) : k = w.id
    BY <1>8, Asked
  <2>3. \E w \in WritesFor(e) : TRUE
    BY <2>1, Asked DEF Right
  <2>. QED
    BY <1>2, <2>1, <2>2, <2>3 DEF InHand
<1>9. ASSUME NEW w \in todo'
      PROVE  /\ Keys(e) = {w.id}
             /\ Right(c, e) => Current(w)' \/ Pending(c, w.id)'
             /\ w.op = "deleteRoom" => e.type = "RoomRemoved" /\ w.id = e.room
             /\ w.op = "deleteDevice" => e.type = "DeviceRemoved" /\ w.id = e.dev
  <2>1. CASE e.type \in {"RoomSaved", "RoomRemoved"}
    BY <1>1, <1>2, <2>1, EventKinds
       DEF WritesFor, SaveRoom, DeleteRoom, Right, Current, Pending, Clearing
  <2>2. CASE e.type \in {"DeviceAdded", "DeviceRemoved"}
    BY <1>1, <1>2, <2>2, EventKinds DEF WritesFor, SaveDevice, DeleteDevice, Right, Current
  <2>3. CASE e.type \in {"DeviceStateChanged", "DeviceSeen", "DeviceRoomChanged"}
    BY <1>1, <1>2, <2>3, EventKinds DEF WritesFor, SaveIfPresent, SaveDevice, Current
  <2>4. CASE e.type \in {"GroupSaved", "GroupRemoved"}
    BY <1>1, <1>2, <2>4, EventKinds DEF WritesFor, SaveGroup, DeleteGroup, Right, Current
  <2>5. CASE e.type = "GroupMembersChanged"
    BY <1>1, <1>2, <2>5, EventKinds DEF WritesFor, SaveGroup, Current
  <2>. QED
    BY <2>1, <2>2, <2>3, <2>4, <2>5, EventKinds
<1>10. EventInv(c)'
  <2>. SUFFICES ASSUME Serving PROVE EventInv(c)'
    BY <1>1 DEF EventInv, Serving
  <2>1. \A w \in todo' : Current(w)' \/ Pending(c, w.id)'
    BY <1>6, <1>8, <1>9
  <2>2. \A k : ~InHand(k) /\ (Pending(c, k) => InHand(k)' \/ Pending(c, k)')
    BY <1>1, <1>6, <1>7, <1>8 DEF InHand
  <2>3. \A r \in Rooms \ (owed \cup missed) :
          InHand(r)' \/ Pending(c, r)' \/ (r \in db.rooms <=> r \in rooms)
    BY <1>1, <2>2 DEF EventInv
  <2>4. \A d \in Devices \ (owed \cup missed) :
          InHand(d)' \/ Pending(c, d)' \/ db.devices[d] = devices[d]
    BY <1>1, <2>2 DEF EventInv
  <2>5. \A g \in Groups \ (owed \cup missed) :
          InHand(g)' \/ Pending(c, g)' \/ db.groups[g] = groups[g]
    BY <1>1, <2>2 DEF EventInv
  <2>6. \A w \in todo' : w.op = "deleteRoom" =>
          \A d \in Devices : devices[d] # Absent /\ devices[d].room = w.id => Pending(c, d)'
    BY <1>5, <1>6, <1>9
  <2>7. \A w \in todo' : w.op = "deleteDevice" =>
          \A g \in Groups : OnRecord(g, w.id) => Pending(c, g)'
    <3>. SUFFICES ASSUME NEW w \in todo', w.op = "deleteDevice", NEW g \in Groups, OnRecord(g, w.id)
                  PROVE  Pending(c, g)'
      OBVIOUS
    <3>1. e.type = "DeviceRemoved" /\ w.id = e.dev /\ e.dev \in Devices
      BY <1>9, EventKinds
    <3>2. CASE call[c] = Pruning(e.dev)
      BY <1>1, <3>1, <3>2 DEF Pending, OnRecord
    <3>3. CASE Later(P, 1, g)
      BY <1>6, <3>3
    <3>. QED
      BY <1>5, <3>1, <3>2, <3>3
  <2>. QED
    BY <1>1, <2>1, <2>3, <2>4, <2>5, <2>6, <2>7 DEF EventInv, OnRecord
<1>11. SnapInv(c)'
  BY <1>1 DEF SnapInv
<1>. QED
  BY <1>4, <1>10, <1>11

\* After a room's deletion: the room-less devices are saved as they are.
LEMMA SweepStep ==
  ASSUME NEW c, PipeInv(c), EventInv(c), Sweep
  PROVE  PipeInv(c)' /\ EventInv(c)' /\ SnapInv(c)'
<1>1. /\ UNCHANGED regVars /\ UNCHANGED <<rooms, devices, groups, db, mode, owed, missed>>
      /\ job = "sweep" /\ job' = "none" /\ todo = {}
      /\ todo' = {SaveDevice(d, devices[d]) : d \in {x \in Registered : RoomOf(x) = NoRoom}}
  BY DEF Sweep, regVars
<1>2. PipeInv(c)' /\ \A k : Pending(c, k)' <=> Pending(c, k)
  BY <1>1, RegistrySame
<1>3. \A w \in todo' : w.op = "saveDevice" /\ devices[w.id] = w.rec
  BY <1>1 DEF SaveDevice
<1>4. EventInv(c)'
  <2>1. \A w \in todo' : Current(w)' /\ w.op \notin {"deleteRoom", "deleteDevice"}
    BY <1>1, <1>3 DEF Current
  <2>2. \A k : ~InHand(k)
    BY <1>1 DEF InHand
  <2>. QED
    BY <1>1, <1>2, <2>1, <2>2 DEF EventInv, Serving
<1>5. SnapInv(c)'
  BY <1>1 DEF SnapInv
<1>. QED
  BY <1>2, <1>4, <1>5

\* A lag starts a reconciliation, which begins with the rooms.
LEMMA LagStep ==
  ASSUME NEW c, PipeInv(c), WorkerLag
  PROVE  PipeInv(c)' /\ EventInv(c)' /\ SnapInv(c)'
<1>1. /\ UNCHANGED <<rooms, devices, groups, call, out>>
      /\ bus' = [bus EXCEPT !.lagged = FALSE] /\ bus'.buf = bus.buf
      /\ job' = "snapGroups" /\ snap'.rooms = rooms
  BY DEF WorkerLag, SnapRooms, AfterLagged, NoRows
<1>2. Pipe(c)' = Pipe(c)
  BY <1>1 DEF Pipe
<1>3. PipeInv(c)'
  BY <1>1, <1>2, PipeKept DEF PipeInv
<1>4. EventInv(c)'
  BY <1>1 DEF EventInv
<1>5. SnapInv(c)'
  BY <1>1 DEF SnapInv
<1>. QED
  BY <1>3, <1>4, <1>5

LEMMA SnapGroupsStep ==
  ASSUME WorkerOK, NEW c, PipeInv(c), SnapInv(c), SnapGroups
  PROVE  PipeInv(c)' /\ EventInv(c)' /\ SnapInv(c)'
<1>1. /\ UNCHANGED regVars /\ UNCHANGED <<rooms, groups, mode>>
      /\ job = "snapGroups" /\ job' = "snapDevices"
      /\ snap'.rooms = snap.rooms /\ snap'.groups = groups
  BY DEF SnapGroups, regVars, WorkerOK, Tables
<1>2. PipeInv(c)' /\ \A k : Pending(c, k)' <=> Pending(c, k)
  BY <1>1, RegistrySame
<1>3. EventInv(c)'
  BY <1>1 DEF EventInv
<1>4. SnapInv(c)'
  BY <1>1, <1>2 DEF SnapInv, Serving
<1>. QED
  BY <1>2, <1>3, <1>4

\* The devices are read last: a member that is not among them was removed after
\* its group was read, or its removal has still to reach the group.
LEMMA SnapDevicesStep ==
  ASSUME OneCaller, MapsOK, WorkerOK, MembersInv, NEW c \in Callers, PipeInv(c), SnapInv(c),
         SnapDevices
  PROVE  PipeInv(c)' /\ EventInv(c)' /\ SnapInv(c)'
<1>1. /\ UNCHANGED regVars /\ UNCHANGED <<rooms, devices, groups, call, mode>>
      /\ job = "snapDevices" /\ job' = "reconcile"
      /\ snap'.rooms = snap.rooms /\ snap'.groups = snap.groups /\ snap'.devices = devices
  BY DEF SnapDevices, regVars, WorkerOK, Tables
<1>2. PipeInv(c)' /\ \A k : Pending(c, k)' <=> Pending(c, k)
  BY <1>1, RegistrySame
<1>3. EventInv(c)'
  BY <1>1 DEF EventInv
<1>4. ASSUME Serving, NEW g \in Groups, NEW d \in Devices,
             snap.groups[g] # Absent, snap.groups[g][d] > 0, devices[d] = Absent
      PROVE  Pending(c, g)
  <2>1. CASE snap.groups[g] = groups[g]
    <3>1. OnRecord(g, d) /\ d \in Ids(groups[g])
      BY <1>4, <2>1 DEF OnRecord, Ids
    <3>2. call[c] = Pruning(d)
      BY <1>4, <3>1, MembersHold DEF OnRecord
    <3>. QED
      BY <3>1, <3>2 DEF Pending
  <2>. QED
    BY <1>1, <1>4, <2>1 DEF SnapInv
<1>5. SnapInv(c)'
  BY <1>1, <1>2, <1>4 DEF SnapInv, Serving
<1>. QED
  BY <1>2, <1>3, <1>5

\* A write that is executed, or has failed, leaves the others in hand.
LEMMA StillInHand ==
  ASSUME NEW w, todo' = todo \ {w}, NEW k, InHand(k), k # w.id
  PROVE  InHand(k)'
  BY DEF InHand

LEMMA WrittenStep ==
  ASSUME MapsOK, WorkerOK, NEW c, PipeInv(c), EventInv(c), SnapInv(c), WriteOk
  PROVE  PipeInv(c)' /\ EventInv(c)' /\ SnapInv(c)'
<1>1. PICK w \in Due : db' = Applied(w) /\ todo' = todo \ {w} /\ owed' = owed \ {w.id}
  BY DEF WriteOk, Remaining
<1>2. /\ UNCHANGED regVars /\ UNCHANGED <<rooms, devices, groups, mode, job, snap, missed>>
      /\ w \in todo /\ w \in Write
  BY <1>1 DEF WriteOk, regVars, Due, WorkerOK
<1>3. PipeInv(c)' /\ \A k : Pending(c, k)' <=> Pending(c, k)
  BY <1>2, RegistrySame
<1>4. SnapInv(c)'
  BY <1>2, <1>3 DEF SnapInv, Serving
<1>5. EventInv(c)'
  <2>. SUFFICES ASSUME Serving, job \in {"none", "sweep"} PROVE EventInv(c)'
    BY <1>2 DEF EventInv, Serving
  <2>0. db \in Tables
    BY DEF WorkerOK
  <2>1. Current(w) \/ Pending(c, w.id)
    BY <1>2 DEF EventInv
  <2>2. \A x \in todo' : Current(x)' \/ Pending(c, x.id)'
    BY <1>1, <1>2, <1>3 DEF EventInv, Current
  <2>3. ASSUME NEW r \in Rooms, r \notin owed', r \notin missed
        PROVE  InHand(r)' \/ Pending(c, r) \/ (r \in db'.rooms <=> r \in rooms)
    <3>0. r \in db'.rooms <=> IF w.id = r THEN w.op = "saveRoom" ELSE r \in db.rooms
      BY <1>1, <1>2, <2>0, AppliedRows
    <3>1. CASE w.id = r
      <4>1. w.op \in {"saveRoom", "deleteRoom"}
        BY <1>2, <3>1, WriteKinds, IdentifiersApart
      <4>. QED
        BY <2>1, <3>0, <3>1, <4>1 DEF Current
    <3>2. CASE w.id # r
      <4>1. InHand(r) \/ Pending(c, r) \/ (r \in db.rooms <=> r \in rooms)
        BY <1>1, <2>3, <3>2 DEF EventInv
      <4>. QED
        BY <1>1, <3>0, <3>2, <4>1, StillInHand
    <3>. QED
      BY <3>1, <3>2
  <2>4. ASSUME NEW d \in Devices, d \notin owed', d \notin missed
        PROVE  InHand(d)' \/ Pending(c, d) \/ db'.devices[d] = devices[d]
    <3>0. db'.devices[d] =
            IF w.id = d THEN IF w.op = "saveDevice" THEN w.rec ELSE Absent
            ELSE IF w.op = "deleteRoom" /\ db.devices[d] # Absent /\ db.devices[d].room = w.id
                 THEN [db.devices[d] EXCEPT !.room = NoRoom]
                 ELSE db.devices[d]
      BY <1>1, <1>2, <2>0, AppliedRows
    <3>1. CASE w.id = d
      <4>1. w.op \in {"saveDevice", "deleteDevice"}
        BY <1>2, <3>1, WriteKinds, IdentifiersApart
      <4>. QED
        BY <2>1, <3>0, <3>1, <4>1 DEF Current
    <3>2. CASE w.id # d
      <4>1. InHand(d) \/ Pending(c, d) \/ db.devices[d] = devices[d]
        BY <1>1, <2>4, <3>2 DEF EventInv
      <4>2. w.op = "deleteRoom" /\ devices[d] # Absent /\ devices[d].room = w.id => Pending(c, d)
        BY <1>2 DEF EventInv
      <4>. QED
        BY <1>1, <3>0, <3>2, <4>1, <4>2, StillInHand
    <3>. QED
      BY <3>1, <3>2
  <2>5. ASSUME NEW g \in Groups, g \notin owed', g \notin missed
        PROVE  InHand(g)' \/ Pending(c, g) \/ db'.groups[g] = groups[g]
    <3>0. db'.groups[g] =
            IF w.id = g THEN IF w.op = "saveGroup" THEN w.members ELSE Absent
            ELSE IF w.op = "deleteDevice" /\ db.groups[g] # Absent
                 THEN Without(db.groups[g], w.id)
                 ELSE db.groups[g]
      BY <1>1, <1>2, <2>0, AppliedRows
    <3>1. CASE w.id = g
      <4>1. w.op \in {"saveGroup", "deleteGroup"}
        BY <1>2, <3>1, WriteKinds, IdentifiersApart
      <4>. QED
        BY <2>1, <3>0, <3>1, <4>1 DEF Current
    <3>2. CASE w.id # g
      <4>1. InHand(g) \/ Pending(c, g) \/ db.groups[g] = groups[g]
        BY <1>1, <2>5, <3>2 DEF EventInv
      <4>2. ASSUME w.op = "deleteDevice", groups[g] # Absent, ~Pending(c, g)
            PROVE  Without(groups[g], w.id) = groups[g]
        <5>1. w.id \in Devices /\ ~OnRecord(g, w.id)
          BY <1>2, <4>2, WriteKinds DEF EventInv
        <5>2. groups[g] \in [Devices -> 0 .. MaxRepeat] /\ groups[g][w.id] = 0
          <6>1. groups[g] \in Members
            BY <4>2 DEF MapsOK
          <6>2. groups[g][w.id] \in 0 .. MaxRepeat /\ ~(groups[g][w.id] > 0)
            BY <4>2, <5>1, <6>1 DEF Members, OnRecord
          <6>3. groups[g][w.id] \in Nat
            BY <6>2
          <6>. QED
            BY <6>1, <6>2, <6>3 DEF Members
        <5>. QED
          BY <5>1, <5>2 DEF Without
      <4>. QED
        BY <1>1, <3>0, <3>2, <4>1, <4>2, StillInHand
    <3>. QED
      BY <3>1, <3>2
  <2>6. \A x \in todo' : x.op = "deleteRoom" =>
          \A d \in Devices : devices[d] # Absent /\ devices[d].room = x.id => Pending(c, d)'
    BY <1>1, <1>3 DEF EventInv
  <2>7. \A x \in todo' : x.op = "deleteDevice" =>
          \A g \in Groups : OnRecord(g, x.id) => Pending(c, g)'
    BY <1>1, <1>3 DEF EventInv
  <2>. QED
    BY <1>2, <1>3, <2>2, <2>3, <2>4, <2>5, <2>6, <2>7 DEF EventInv, OnRecord
<1>. QED
  BY <1>3, <1>4, <1>5

\* What a reconciliation has not in hand agrees with the registry.
LEMMA ReconciledAgree ==
  ASSUME MapsOK, WorkerOK, ReconcileInv, NEW c, SnapInv(c), Serving, job = "reconcile"
  PROVE  /\ \A r \in Rooms : InHand(r) \/ Pending(c, r) \/ (r \in db.rooms <=> r \in rooms)
         /\ \A d \in Devices : InHand(d) \/ Pending(c, d) \/ db.devices[d] = devices[d]
         /\ \A g \in Groups : InHand(g) \/ Pending(c, g) \/ db.groups[g] = groups[g]
<1>1. \A r \in Rooms : InHand(r) \/ Pending(c, r) \/ (r \in db.rooms <=> r \in rooms)
  BY DEF ReconcileInv, SnapInv
<1>2. \A d \in Devices : InHand(d) \/ Pending(c, d) \/ db.devices[d] = devices[d]
  BY DEF ReconcileInv, SnapInv
<1>3. ASSUME NEW g \in Groups, ~InHand(g), ~Pending(c, g)
      PROVE  db.groups[g] = groups[g]
  <2>1. /\ GroupForSnap(g) /\ snap.groups[g] = groups[g]
        /\ \A d \in Devices :
             snap.groups[g] # Absent /\ snap.groups[g][d] > 0 => snap.devices[d] # Absent
    BY <1>3 DEF ReconcileInv, SnapInv
  <2>2. CASE groups[g] = Absent
    BY <2>1, <2>2 DEF GroupForSnap
  <2>3. CASE groups[g] # Absent
    <3>1. groups[g] \in Members /\ db.groups[g] \in Members
      BY <2>1, <2>3 DEF GroupForSnap, MapsOK, WorkerOK, Tables
    <3>2. ASSUME NEW d \in Devices
          PROVE  db.groups[g][d] = groups[g][d]
      <4>1. groups[g][d] \in 0 .. MaxRepeat
        BY <3>1 DEF Members
      <4>2. groups[g][d] \in Nat
        BY <4>1
      <4>3. groups[g][d] > 0 => snap.devices[d] # Absent
        BY <2>1, <2>3
      <4>4. db.groups[g][d] = IF db.devices[d] # Absent \/ snap.devices[d] # Absent
                                THEN groups[g][d] ELSE 0
        BY <2>1, <2>3 DEF GroupForSnap
      <4>. QED
        BY <4>2, <4>3, <4>4
    <3>. QED
      BY <3>1, <3>2 DEF Members
  <2>. QED
    BY <2>2, <2>3
<1>. QED
  BY <1>1, <1>2, <1>3

\* A reconciliation ends, with all its writes or with those that are on record.
LEMMA ReconcileEnds ==
  ASSUME MapsOK, WorkerOK, ReconcileInv, NEW c, PipeInv(c), SnapInv(c),
         UNCHANGED <<regVars, db, mode, missed>>, job = "reconcile", job' = "none", todo' = {},
         {w.id : w \in todo} \subseteq owed'
  PROVE  PipeInv(c)' /\ EventInv(c)' /\ SnapInv(c)'
<1>1. UNCHANGED <<rooms, devices, groups>>
  BY DEF regVars
<1>2. PipeInv(c)' /\ \A k : Pending(c, k)' <=> Pending(c, k)
  BY RegistrySame
<1>3. \A k : InHand(k) => k \in owed'
  BY DEF InHand
<1>4. EventInv(c)'
  <2>. SUFFICES ASSUME Serving PROVE EventInv(c)'
    BY DEF EventInv, Serving
  <2>1. /\ \A r \in Rooms \ owed' : Pending(c, r) \/ (r \in db.rooms <=> r \in rooms)
        /\ \A d \in Devices \ owed' : Pending(c, d) \/ db.devices[d] = devices[d]
        /\ \A g \in Groups \ owed' : Pending(c, g) \/ db.groups[g] = groups[g]
    BY <1>3, ReconciledAgree
  <2>. QED
    BY <1>1, <1>2, <2>1 DEF EventInv
<1>5. SnapInv(c)'
  BY DEF SnapInv
<1>. QED
  BY <1>2, <1>4, <1>5

LEMMA FailedStep ==
  ASSUME MapsOK, WorkerOK, ReconcileInv, NEW c, PipeInv(c), EventInv(c), SnapInv(c), WriteFailed
  PROVE  PipeInv(c)' /\ EventInv(c)' /\ SnapInv(c)'
<1>1. UNCHANGED regVars /\ UNCHANGED <<rooms, devices, groups, db, mode, missed>>
  BY DEF WriteFailed, regVars
<1>2. CASE job = "reconcile"
  BY <1>1, <1>2, ReconcileEnds DEF WriteFailed
<1>3. CASE job # "reconcile"
  <2>1. PICK w \in Due : todo' = todo \ {w} /\ owed' = owed \cup {w.id}
    BY <1>3 DEF WriteFailed, Remaining
  <2>2. UNCHANGED <<job, snap>>
    BY <1>3 DEF WriteFailed
  <2>3. PipeInv(c)' /\ \A k : Pending(c, k)' <=> Pending(c, k)
    BY <1>1, RegistrySame
  <2>4. SnapInv(c)'
    BY <1>1, <2>2, <2>3 DEF SnapInv, Serving
  <2>5. EventInv(c)'
    <3>. SUFFICES ASSUME Serving, job \in {"none", "sweep"} PROVE EventInv(c)'
      BY <1>1, <2>2 DEF EventInv, Serving
    <3>1. \A k : k \notin owed' /\ InHand(k) => InHand(k)'
      BY <2>1, StillInHand
    <3>2. \A x \in todo' : Current(x)' \/ Pending(c, x.id)'
      BY <1>1, <2>1, <2>3 DEF EventInv, Current
    <3>3. /\ \A r \in Rooms \ (owed' \cup missed) :
               InHand(r)' \/ Pending(c, r) \/ (r \in db.rooms <=> r \in rooms)
          /\ \A d \in Devices \ (owed' \cup missed) :
               InHand(d)' \/ Pending(c, d) \/ db.devices[d] = devices[d]
          /\ \A g \in Groups \ (owed' \cup missed) :
               InHand(g)' \/ Pending(c, g) \/ db.groups[g] = groups[g]
      BY <2>1, <3>1 DEF EventInv
    <3>4. /\ \A x \in todo' : x.op = "deleteRoom" =>
               \A d \in Devices : devices[d] # Absent /\ devices[d].room = x.id => Pending(c, d)
          /\ \A x \in todo' : x.op = "deleteDevice" =>
               \A g \in Groups : OnRecord(g, x.id) => Pending(c, g)
      BY <2>1 DEF EventInv
    <3>. QED
      BY <1>1, <2>3, <3>2, <3>3, <3>4 DEF EventInv, OnRecord
  <2>. QED
    BY <2>3, <2>4, <2>5
<1>. QED
  BY <1>2, <1>3

LEMMA DoneStep ==
  ASSUME MapsOK, WorkerOK, ReconcileInv, NEW c, PipeInv(c), SnapInv(c), ReconcileDone
  PROVE  PipeInv(c)' /\ EventInv(c)' /\ SnapInv(c)'
<1>1. /\ UNCHANGED <<regVars, db, mode, missed>> /\ job = "reconcile" /\ job' = "none"
      /\ todo = {} /\ todo' = {}
  BY DEF ReconcileDone
<1>2. {w.id : w \in todo} \subseteq owed'
  BY <1>1
<1>. QED
  BY <1>1, <1>2, ReconcileEnds

\* Once the process no longer serves, nothing is asked of the worker's keys.
LEMMA StopStep ==
  ASSUME NEW c, PipeInv(c), WorkerShutdown \/ WorkerExit \/ Shutdown \/ Crash
  PROVE  PipeInv(c)' /\ EventInv(c)' /\ SnapInv(c)'
<1>1. UNCHANGED regVars /\ ~Serving'
  BY DEF WorkerShutdown, WorkerExit, Shutdown, Crash, Serving
<1>. QED
  BY <1>1, RegistrySame DEF EventInv, SnapInv

\* A restart reads back what the tables have: the members it would drop are
\* none, since a member is a row.
LEMMA RestartStep ==
  ASSUME WorkerOK, MemberRows, NEW c \in Callers, Restart
  PROVE  PipeInv(c)' /\ EventInv(c)' /\ SnapInv(c)' /\ RoomsInv' /\ MembersInv'
<1>1. /\ rooms' = db.rooms /\ devices' = db.devices /\ UNCHANGED db
      /\ bus'.buf = <<>> /\ \A x \in Callers : call'[x] = Idle /\ out'[x] = <<>>
      /\ job' = "none" /\ todo' = {}
  BY DEF Restart, Subscribed
<1>2. \A g \in Groups : groups'[g] = db.groups[g]
  <2>. SUFFICES ASSUME NEW g \in Groups PROVE groups'[g] = db.groups[g]
    OBVIOUS
  <2>1. groups'[g] = IF db.groups[g] = Absent THEN Absent
                     ELSE [d \in Devices |-> IF db.devices[d] # Absent THEN db.groups[g][d] ELSE 0]
    BY DEF Restart
  <2>2. CASE db.groups[g] # Absent
    <3>1. db.groups[g] \in Members
      BY <2>2 DEF WorkerOK, Tables
    <3>2. ASSUME NEW d \in Devices, db.devices[d] = Absent
          PROVE  db.groups[g][d] = 0
      <4>1. db.groups[g][d] \in 0 .. MaxRepeat /\ ~(db.groups[g][d] > 0)
        BY <2>2, <3>1, <3>2 DEF MemberRows, Members
      <4>2. db.groups[g][d] \in Nat
        BY <4>1
      <4>. QED
        BY <4>1, <4>2
    <3>3. db.groups[g] = [d \in Devices |-> db.groups[g][d]]
      BY <3>1 DEF Members
    <3>. QED
      BY <2>1, <2>2, <3>2, <3>3
  <2>. QED
    BY <2>1, <2>2
<1>3. PipeInv(c)'
  <2>1. Pipe(c)' = <<>>
    BY <1>1 DEF Pipe
  <2>. QED
    BY <1>1, <2>1 DEF PipeInv, PipeOK, Idle, Clearing
<1>4. EventInv(c)'
  BY <1>1, <1>2 DEF EventInv
<1>5. SnapInv(c)'
  BY <1>1 DEF SnapInv
<1>6. RoomsInv'
  BY <1>1 DEF Restart, RoomsInv, RoomsIntact, Registered, Idle
<1>7. MembersInv'
  <2>1. \A g \in Groups : groups'[g] # Absent =>
          \A d \in Ids(groups'[g]) : devices'[d] # Absent
    BY <1>1, <1>2 DEF MemberRows, Ids
  <2>2. MembersIntact'
    BY <2>1 DEF MembersIntact, Registered, Ids
  <2>3. \A x \in Callers : call'[x].step = "idle"
    BY <1>1 DEF Idle
  <2>. QED
    BY <2>2, <2>3 DEF MembersInv
<1>. QED
  BY <1>3, <1>4, <1>5, <1>6, <1>7

\* No member without a row: a group is only saved with rows it refers to, and a
\* row that goes takes its memberships with it.
LEMMA MemberRowsNext ==
  ASSUME WorkerOK, MemberRows, [PersistNext]_vars
  PROVE  MemberRows'
<1>1. CASE UNCHANGED db
  BY <1>1 DEF MemberRows
<1>2. CASE WriteOk
  <2>1. PICK w \in Due : Accepts(w) /\ db' = Applied(w)
    BY <1>2 DEF WriteOk
  <2>2. w \in Write /\ db \in Tables
    BY <2>1 DEF Due, WorkerOK
  <2>3. /\ \A d \in Devices : db'.devices[d] =
             IF w.id = d THEN IF w.op = "saveDevice" THEN w.rec ELSE Absent
             ELSE IF w.op = "deleteRoom" /\ db.devices[d] # Absent /\ db.devices[d].room = w.id
                  THEN [db.devices[d] EXCEPT !.room = NoRoom]
                  ELSE db.devices[d]
        /\ \A g \in Groups : db'.groups[g] =
             IF w.id = g THEN IF w.op = "saveGroup" THEN w.members ELSE Absent
             ELSE IF w.op = "deleteDevice" /\ db.groups[g] # Absent
                  THEN Without(db.groups[g], w.id)
                  ELSE db.groups[g]
        /\ db' \in Tables
    BY <2>1, <2>2, AppliedRows
  <2>. SUFFICES ASSUME NEW g \in Groups, NEW d \in Devices,
                       db'.groups[g] # Absent, db'.groups[g][d] > 0
                PROVE  db'.devices[d] # Absent
    BY DEF MemberRows
  <2>4. CASE w.id = g
    <3>1. w.op = "saveGroup" /\ db'.groups[g] = w.members
      BY <2>2, <2>3, <2>4, WriteKinds, IdentifiersApart
    <3>2. db.devices[d] # Absent
      BY <2>1, <3>1 DEF Accepts, Ids
    <3>. QED
      BY <2>3, <2>4, <3>1, <3>2, IdentifiersApart
  <2>5. CASE w.id # g /\ w.op = "deleteDevice"
    <3>1. db.groups[g] \in Members /\ db'.groups[g] = Without(db.groups[g], w.id)
      BY <2>2, <2>3, <2>5 DEF Tables
    <3>2. w.id \in Devices
      BY <2>2, <2>5, WriteKinds
    <3>3. d # w.id
      <4>1. Without(db.groups[g], w.id)[w.id] = 0
        BY <3>1, <3>2 DEF Without, Members
      <4>. QED
        BY <3>1, <4>1
    <3>4. db.groups[g] # Absent /\ db.groups[g][d] > 0
      BY <2>3, <2>5, <3>1, <3>2, <3>3 DEF Without, Members
    <3>. QED
      BY <2>3, <2>5, <3>3, <3>4 DEF MemberRows
  <2>6. CASE w.id # g /\ w.op # "deleteDevice"
    <3>1. db.devices[d] # Absent
      BY <2>3, <2>6 DEF MemberRows
    <3>2. w.id = d => w.op = "saveDevice" /\ w.rec \in Device
      BY <2>2, <2>6, WriteKinds, IdentifiersApart
    <3>3. w.id = d => db'.devices[d] # Absent
      BY <2>3, <3>2, NotAbsent
    <3>4. w.id # d => db'.devices[d] # Absent
      <4>1. db.devices[d] \in Device
        BY <2>2, <3>1 DEF Tables
      <4>2. [db.devices[d] EXCEPT !.room = NoRoom] \in Device
        BY <4>1 DEF Device
      <4>. QED
        BY <2>3, <3>1, <4>2, NotAbsent
    <3>. QED
      BY <3>3, <3>4
  <2>. QED
    BY <2>4, <2>5, <2>6
<1>3. WriteOk \/ UNCHANGED db
  <2>1. CASE Worker
    BY <2>1 DEF Worker, WorkerSubscribe, WorkerRecv, Sweep, WorkerLag, WorkerShutdown, SnapRooms,
                SnapGroups, SnapDevices, WriteFailed, ReconcileDone, WorkerExit
  <2>2. CASE \E c \in Callers : InFlight(c) \/ Arrives(c)
    BY <2>2 DEF InFlight, Arrives, workerVars
  <2>3. CASE Shutdown \/ Crash \/ Restart \/ UNCHANGED vars
    BY <2>3 DEF Shutdown, Crash, Restart, vars, workerVars
  <2>. QED
    BY <2>1, <2>2, <2>3 DEF PersistNext
<1>. QED
  BY <1>1, <1>2, <1>3

LEMMA FreshStartNext ==
  ASSUME FreshStart, [PersistNext]_vars
  PROVE  FreshStart'
<1>1. CASE Worker
  BY <1>1 DEF FreshStart, Worker, WorkerSubscribe, WorkerRecv, Sweep, WorkerLag, WorkerShutdown,
              SnapRooms, SnapGroups, SnapDevices, WriteOk, WriteFailed, Due, ReconcileDone, WorkerExit
<1>2. CASE \E c \in Callers : InFlight(c) \/ Arrives(c)
  BY <1>2 DEF FreshStart, InFlight, Arrives, workerVars
<1>3. CASE Shutdown \/ Crash \/ Restart \/ UNCHANGED vars
  BY <1>3 DEF FreshStart, Shutdown, Crash, Restart, vars, workerVars
<1>. QED
  BY <1>1, <1>2, <1>3 DEF PersistNext

\* The inductive invariant, for the only caller c.
DivergenceInv(c) ==
  /\ PersistTypeOK /\ OneEach /\ ReconcileInv /\ MemberRows /\ FreshStart
  /\ RoomsInv /\ MembersInv
  /\ PipeInv(c) /\ EventInv(c) /\ SnapInv(c)

LEMMA DivergenceInit ==
  ASSUME NEW c \in Callers, PersistInit
  PROVE  DivergenceInv(c)
<1>1. /\ rooms = {} /\ devices = [d \in Devices |-> Absent] /\ groups = [g \in Groups |-> Absent]
      /\ bus.buf = <<>> /\ out[c] = <<>> /\ call[c] = Idle
      /\ db = NoRows /\ mode = "starting" /\ job = "none" /\ todo = {} /\ missed = {}
  BY DEF PersistInit, Init, Subscribed
<1>2. PersistTypeOK /\ OneEach /\ ReconcileInv /\ FreshStart
  BY <1>1, PersistTypeInit DEF OneEach, ReconcileInv, FreshStart
<1>3. MemberRows
  BY <1>1 DEF MemberRows, NoRows
<1>4. RoomsInv /\ MembersInv
  BY SerialInit DEF PersistInit
<1>5. PipeInv(c)
  <2>1. Pipe(c) = <<>>
    BY <1>1 DEF Pipe
  <2>. QED
    BY <1>1, <2>1 DEF PipeInv, PipeOK, Idle, Clearing
<1>6. EventInv(c)
  <2>1. db.rooms = rooms /\ db.devices = devices /\ db.groups = groups
    BY <1>1 DEF NoRows
  <2>. QED
    BY <1>1, <2>1 DEF EventInv
<1>7. SnapInv(c)
  BY <1>1 DEF SnapInv
<1>. QED
  BY <1>2, <1>3, <1>4, <1>5, <1>6, <1>7 DEF DivergenceInv

LEMMA DivergenceNext ==
  ASSUME NEW c, Callers = {c}, DivergenceInv(c), [PersistNext]_vars
  PROVE  DivergenceInv(c)'
<1>0. /\ c \in Callers /\ OneCaller /\ MapsOK /\ CallsOK /\ WorkerOK /\ OneEach /\ ReconcileInv
      /\ MemberRows /\ FreshStart /\ RoomsInv /\ MembersInv
      /\ PipeInv(c) /\ EventInv(c) /\ SnapInv(c)
  BY PersistTypeParts DEF DivergenceInv, OneCaller
<1>1. PersistTypeOK' /\ OneEach' /\ ReconcileInv' /\ MemberRows' /\ FreshStart'
  BY <1>0, PersistTypeNext, OneEachNext, ReconcileNext, MemberRowsNext, FreshStartNext
     DEF DivergenceInv
<1>. DEFINE Goal == PipeInv(c)' /\ EventInv(c)' /\ SnapInv(c)'
<1>2. CASE Worker
  <2>1. UNCHANGED <<rooms, devices, groups, call, out, begun>>
    BY <1>2 DEF Worker, WorkerSubscribe, WorkerRecv, Sweep, WorkerLag, WorkerShutdown, SnapRooms,
                SnapGroups, SnapDevices, WriteOk, WriteFailed, ReconcileDone, WorkerExit, regVars
  <2>2. RoomsInv' /\ MembersInv'
    BY <1>0, <2>1 DEF RoomsInv, RoomsIntact, MembersInv, MembersIntact, Registered
  <2>3. Goal
    BY <1>0, <1>2, SubscribeStep, RecvStep, SweepStep, LagStep, SnapGroupsStep, SnapDevicesStep,
       WrittenStep, FailedStep, DoneStep, StopStep, Zenon DEF Worker
  <2>. QED
    BY <1>1, <2>2, <2>3 DEF DivergenceInv
<1>3. CASE \E x \in Callers : InFlight(x) \/ Arrives(x)
  <2>1. (CallStep(c) \/ CallBegins(c)) /\ UNCHANGED workerVars
    BY <1>3 DEF InFlight, Arrives
  <2>2. Next
    BY <1>0, <2>1 DEF Next
  <2>3. TypeOK
    BY DEF DivergenceInv, PersistTypeOK
  <2>4. RoomsInv' /\ MembersInv'
    BY <1>0, <2>2, <2>3, SerialNext
  <2>5. PipeInv(c)' /\ PendingKept(c)
    BY <1>0, <2>1, CallerStep
  <2>6. EventInv(c)' /\ SnapInv(c)'
    BY <1>0, <2>1, <2>5, WorkerLooksOn DEF workerVars
  <2>. QED
    BY <1>1, <2>4, <2>5, <2>6 DEF DivergenceInv
<1>4. CASE Shutdown \/ Crash
  <2>1. UNCHANGED <<rooms, devices, groups, call>>
    BY <1>4 DEF Shutdown, Crash, regVars
  <2>2. RoomsInv' /\ MembersInv'
    BY <1>0, <2>1 DEF RoomsInv, RoomsIntact, MembersInv, MembersIntact, Registered
  <2>. QED
    BY <1>0, <1>1, <1>4, <2>2, StopStep DEF DivergenceInv
<1>5. CASE Restart
  BY <1>0, <1>1, <1>5, RestartStep DEF DivergenceInv
<1>6. CASE UNCHANGED vars
  <2>1. UNCHANGED regVars /\ UNCHANGED workerVars
    BY <1>6 DEF vars
  <2>2. UNCHANGED <<rooms, devices, groups, call>>
    BY <2>1 DEF regVars
  <2>3. RoomsInv' /\ MembersInv'
    BY <1>0, <2>2 DEF RoomsInv, RoomsIntact, MembersInv, MembersIntact, Registered
  <2>4. PipeInv(c)' /\ PendingKept(c)
    BY <1>0, <2>1, <2>2, RegistrySame DEF PendingKept
  <2>5. EventInv(c)' /\ SnapInv(c)'
    BY <1>0, <2>1, <2>4, WorkerLooksOn DEF workerVars
  <2>. QED
    BY <1>1, <2>3, <2>4, <2>5 DEF DivergenceInv
<1>. QED
  BY <1>2, <1>3, <1>4, <1>5, <1>6 DEF PersistNext

\* With callers that do not overlap, one of them stands for all: whenever the
\* worker has caught up, the tables agree with the registry on every key that
\* no failed write and no event before the subscription has on record, however
\* late the events were read, whatever was lost to lag, and through refused
\* writes, shutdowns, crashes and restarts.
THEOREM NoSilentDivergenceAlways ==
  ASSUME NEW c, Callers = {c}
  PROVE  PersistSpec => []NoSilentDivergence
<1>1. PersistInit => DivergenceInv(c)
  BY DivergenceInit
<1>2. DivergenceInv(c) /\ [PersistNext]_vars => DivergenceInv(c)'
  BY DivergenceNext
<1>3. DivergenceInv(c) => NoSilentDivergence
  <2>. SUFFICES ASSUME DivergenceInv(c), CaughtUp
                PROVE  /\ \A r \in Rooms \ (owed \cup missed) : r \in db.rooms <=> r \in rooms
                       /\ \A d \in Devices \ (owed \cup missed) : db.devices[d] = devices[d]
                       /\ \A g \in Groups \ (owed \cup missed) : db.groups[g] = groups[g]
    BY DEF NoSilentDivergence
  <2>1. /\ bus.buf = <<>> /\ out[c] = <<>> /\ call[c] = Idle /\ ~bus.lagged
        /\ Serving /\ job = "none" /\ todo = {}
    BY DEF CaughtUp, WorkerFree, Serving
  <2>2. Pipe(c) = <<>>
    BY <2>1 DEF Pipe
  <2>3. \A k : ~Pending(c, k) /\ ~InHand(k)
    <3>1. \A k : ~InHand(k)
      BY <2>1 DEF InHand
    <3>2. \A k : ~Later(<<>>, 0, k)
      BY DEF Later
    <3>3. \A k : call[c] # Clearing(k) /\ call[c] # Pruning(k)
      BY <2>1 DEF Idle, Clearing, Pruning
    <3>. QED
      BY <2>1, <2>2, <3>1, <3>2, <3>3 DEF Pending
  <2>. QED
    BY <2>1, <2>3 DEF DivergenceInv, EventInv
<1>. QED
  BY <1>1, <1>2, <1>3, PTL DEF PersistSpec

\* In the same setting every device is in a room that exists and every member
\* of a group is registered, between the two sections of a removal excepted,
\* also after a restart from tables that lagged behind when the process died.
THEOREM IntactThroughRestarts ==
  ASSUME NEW c, Callers = {c}
  PROVE  PersistSpec => [](RoomsIntact /\ MembersIntact)
<1>1. PersistInit => DivergenceInv(c)
  BY DivergenceInit
<1>2. DivergenceInv(c) /\ [PersistNext]_vars => DivergenceInv(c)'
  BY DivergenceNext
<1>3. DivergenceInv(c) => RoomsIntact /\ MembersIntact
  BY DEF DivergenceInv, RoomsInv, MembersInv
<1>. QED
  BY <1>1, <1>2, <1>3, PTL DEF PersistSpec

=============================================================================
