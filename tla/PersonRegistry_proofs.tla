------------------------ MODULE PersonRegistry_proofs ------------------------
(***************************************************************************)
(* Proofs about PersonRegistry, for every set of requests, persons,        *)
(* devices, positions and zones, any number of store errors, dropped       *)
(* requests and restarts: what the bus has told, what the tables hold and  *)
(* what is derived is what the registry has.                               *)
(***************************************************************************)
EXTENDS PersonRegistry, FiniteSetTheorems, TLAPS

LinkSteps   == {"clearRows", "insertRows", "linkWrite"}
IngestSteps == {"isLinked", "readLinks", "handle"}
PersonSteps == {"saveRow", "putPerson", "tell"}
RemoveSteps == {"dropPerson", "tellRemoved"}
ZoneSteps   == {"zoneRow", "putZone"}

Steps == LockSteps \cup LinkSteps \cup IngestSteps \cup PersonSteps \cup RemoveSteps \cup ZoneSteps
         \cup {"fixWrite", "derive", "deriveAll", "dropZone"}

USE DEF LockSteps, LinkSteps, IngestSteps, PersonSteps, RemoveSteps, ZoneSteps, Steps

\* What a request holds at each of its steps.
CallOK(k) ==
  /\ k = Idle \/ k.step \in Steps
  /\ {"kind", "step"} \subseteq DOMAIN k
  /\ k.step \in IngestSteps \cup LinkSteps =>
       /\ {"who", "dev", "pos"} \subseteq DOMAIN k
       /\ k.who \in Persons /\ k.dev \in Devices
       /\ k.kind = "ingest" => k.pos \in Positions
  /\ k.step \in IngestSteps => k.kind = "ingest"
  /\ k.step \in LinkSteps =>
       /\ {"list", "left"} \subseteq DOMAIN k
       /\ k.kind \in {"ingest", "link", "unlink"}
       /\ k.list \in Seq(Devices) /\ k.left \in Seq(Devices)
       /\ k.kind = "ingest" => k.dev \in Range(k.list)
  /\ k.step = "fixWrite" =>
       k.kind = "ingest" /\ k.dev \in Devices /\ k.fix \in Fix
  /\ k.step \in LockSteps \cup {"fixWrite", "derive"} =>
       "todo" \in DOMAIN k /\ k.todo \subseteq Persons
  /\ k.step \in LockSteps =>
       /\ {"who", "old", "new", "row"} \subseteq DOMAIN k
       /\ k.who \in k.todo /\ k.old \in State /\ k.new \in Row /\ k.row \in Row
  /\ k.step \in PersonSteps =>
       /\ {"who", "rec"} \subseteq DOMAIN k
       /\ k.kind \in {"create", "update"} /\ k.who \in Persons /\ k.rec \in Person
  /\ k.step \in RemoveSteps => "who" \in DOMAIN k /\ k.who \in Persons
  /\ k.step \in ZoneSteps =>
       /\ {"zone", "area"} \subseteq DOMAIN k
       /\ k.zone \in Zones /\ k.area \subseteq Positions
  /\ k.step = "dropZone" => k.kind = "removeZone" /\ k.zone \in Zones

MapsOK ==
  /\ persons \in [Persons -> Person \cup {Absent}]
  /\ zones \in [Zones -> (SUBSET Positions) \cup {Absent}]
  /\ fixes \in [Devices -> Fix \cup {Absent}]
  /\ said \in [Persons -> State \cup {Absent}]
  /\ crowd \in {"none", "home", "away"}
  /\ clock \in Nat

TablesOK ==
  db \in [persons : [Persons -> Row \cup {Absent}], links : [Persons -> SUBSET Devices],
          zones : [Zones -> (SUBSET Positions) \cup {Absent}]]

CallsOK ==
  /\ call = [c \in Callers |-> call[c]]
  /\ \A c \in Callers : CallOK(call[c])

LockInv == \A c \in Callers : lock = c <=> call[c].step \in LockSteps

\* Requests overlap only if their kinds may.
Alone ==
  \A a, b \in Callers :
    a = b \/ call[a] = Idle \/ call[b] = Idle \/ {call[a].kind, call[b].kind} \subseteq Overlapping

BaseInv == MapsOK /\ TablesOK /\ CallsOK /\ LockInv /\ Alone

-----------------------------------------------------------------------------
\* Where a request goes

LEMMA IdleOK == CallOK(Idle) /\ Idle.step \notin LockSteps
  BY DEF CallOK, Idle

\* A request goes on, ends or begins.
LEMMA Moved ==
  ASSUME CallsOK, LockInv, Alone, NEW c \in Callers, NEW k, GoTo(c, k), CallOK(k),
         \/ k = Idle
         \/ call[c].step # "idle" /\ k.kind = call[c].kind
         \/ \A o \in Callers : call[o] = Idle \/ {k.kind, call[o].kind} \subseteq Overlapping,
         lock' = IF k.step \in LockSteps THEN c ELSE IF lock = c THEN None ELSE lock,
         k.step \in LockSteps => lock \in {c, None}
  PROVE  CallsOK' /\ LockInv' /\ Alone'
<1>1. call'[c] = k /\ \A o \in Callers \ {c} : call'[o] = call[o]
  BY DEF GoTo, CallsOK
<1>2. CallsOK'
  BY <1>1 DEF GoTo, CallsOK
<1>3. LockInv'
  <2>1. None \notin Callers
    BY PersonAssumption DEF PersonAssumption
  <2>. QED
    BY <1>1, <2>1 DEF LockInv
<1>4. Alone'
  <2>1. Idle.step = "idle"
    BY DEF Idle
  <2>. QED
    BY <1>1, <2>1 DEF Alone
<1>. QED
  BY <1>2, <1>3, <1>4

\* ... without the lock.
LEMMA MovedOn ==
  ASSUME CallsOK, LockInv, Alone, NEW c \in Callers, NEW k, GoTo(c, k), CallOK(k),
         \/ k = Idle
         \/ call[c].step # "idle" /\ k.kind = call[c].kind
         \/ \A o \in Callers : call[o] = Idle \/ {k.kind, call[o].kind} \subseteq Overlapping,
         call[c].step \notin LockSteps, k.step \notin LockSteps, UNCHANGED lock
  PROVE  CallsOK' /\ LockInv' /\ Alone'
<1>1. lock # c
  BY DEF LockInv
<1>. QED
  BY <1>1, Moved

\* What DeriveNext goes on with.
LEMMA NextOK ==
  ASSUME NEW c \in Callers, NEW todo \in SUBSET Persons, DeriveNext(c, todo)
  PROVE  \E k : /\ GoTo(c, k) /\ CallOK(k)
                /\ k = Idle \/ k.kind = call[c].kind
                /\ k.step \in {"idle", "derive"}
                /\ k.step = "derive" => k.todo = todo
                /\ todo = {} => k = Idle
                /\ todo # {} => k.step = "derive"
<1>. DEFINE D == [kind |-> call[c].kind, step |-> "derive", todo |-> todo]
<1>1. CallOK(D) /\ D.step = "derive" /\ D.kind = call[c].kind /\ D.todo = todo
  BY DEF CallOK, Idle
<1>2. Idle.step = "idle"
  BY DEF Idle
<1>. HIDE DEF D
<1>3. GoTo(c, IF todo = {} THEN Idle ELSE D)
  BY DEF DeriveNext, D
<1>. QED
  BY <1>1, <1>2, <1>3, IdleOK

-----------------------------------------------------------------------------
\* What requests hold keeps its type

LEMMA Appended ==
  ASSUME NEW s \in Seq(Devices), NEW d \in Devices
  PROVE  Append(s, d) \in Seq(Devices) /\ d \in Range(Append(s, d))
<1>1. Append(s, d) \in Seq(Devices) /\ Append(s, d)[Len(s) + 1] = d
      /\ Len(s) + 1 \in DOMAIN Append(s, d)
  OBVIOUS
<1>. QED
  BY <1>1 DEF Range

LEMMA Listed ==
  ASSUME NEW S \in SUBSET Devices, NEW list \in SetToSeqs(S)
  PROVE  list \in Seq(Devices)
<1>1. IsFiniteSet(S)
  BY PersonAssumption, FS_Subset DEF PersonAssumption
<1>2. Cardinality(S) \in Nat
  BY <1>1, FS_CardinalityType
<1>3. list \in [1 .. Cardinality(S) -> S]
  BY DEF SetToSeqs
<1>. QED
  BY <1>2, <1>3

LEMMA WithoutType ==
  ASSUME NEW list \in Seq(Devices), NEW d, NEW rest \in Without(list, d)
  PROVE  rest \in Seq(Devices)
<1>. DEFINE Others == {i \in DOMAIN list : list[i] # d}
<1>1. PICK s \in SetToSeqs(Others) : rest = [i \in DOMAIN s |-> list[s[i]]]
  BY DEF Without
<1>2. DOMAIN list = 1 .. Len(list) /\ IsFiniteSet(1 .. Len(list))
  BY FS_Interval
<1>3. IsFiniteSet(Others)
  BY <1>2, FS_Subset
<1>4. Cardinality(Others) \in Nat
  BY <1>3, FS_CardinalityType
<1>5. s \in [1 .. Cardinality(Others) -> Others]
  BY <1>1 DEF SetToSeqs
<1>6. \A i \in Others : list[i] \in Devices
  OBVIOUS
<1>. HIDE DEF Others
<1>7. rest \in [1 .. Cardinality(Others) -> Devices]
  BY <1>1, <1>5, <1>6
<1>. QED
  BY <1>4, <1>7

LEMMA TrackersType ==
  ASSUME MapsOK, NEW p \in Present
  PROVE  p \in Persons /\ persons[p] \in Person /\ TrackersOf(p) \subseteq Devices
         /\ StateOf(p) \in State
<1>1. p \in Persons /\ persons[p] \in Person
  BY DEF MapsOK, Present
<1>2. persons[p].trackers \in Seq(Devices)
  BY <1>1 DEF Person
<1>3. \A s \in Seq(Devices) : Range(s) \subseteq Devices
  BY DEF Range
<1>. QED
  BY <1>1, <1>2, <1>3 DEF TrackersOf, StateOf, Person, Row

LEMMA DerivedType ==
  ASSUME MapsOK, NEW p \in Present, NEW new \in Derived(p)
  PROVE  new \in Row
<1>1. TrackersOf(p) \subseteq Devices
  BY TrackersType
<1>2. \A x \in Positions : StatesAt(x) \subseteq State
  BY DEF StatesAt, State
<1>3. clock \in Nat /\ \A d \in Devices : fixes[d] # Absent => fixes[d].pos \in Positions
  BY DEF MapsOK, Fix
<1>. DEFINE known == {d \in TrackersOf(p) : fixes[d] # Absent}
            latest == {d \in known : \A e \in known : fixes[e].at <= fixes[d].at}
<1>4. CASE new = [NewRow EXCEPT !.at = clock]
  BY <1>3, <1>4 DEF NewRow, Row, State
<1>5. CASE \E d \in known : new \in [state : StatesAt(fixes[d].pos), source : {d},
                                     pos : {fixes[d].pos}, at : {clock}]
  BY <1>1, <1>2, <1>3, <1>5 DEF Row
<1>6. CASE known = {}
  BY <1>4, <1>6 DEF Derived
<1>7. CASE known # {}
  <2>1. \E d \in latest : new \in [state : StatesAt(fixes[d].pos), source : {d},
                                   pos : {fixes[d].pos}, at : {clock}]
    BY <1>7 DEF Derived
  <2>. QED
    BY <1>5, <2>1
<1>. QED
  BY <1>6, <1>7

\* A request that begins does not hold the lock.
LEMMA Begun ==
  ASSUME NEW c \in Callers, NEW kind, Begin(c, kind)
  PROVE  /\ call[c].step = "idle"
         /\ \A o \in Callers : call[o] = Idle \/ {kind, call[o].kind} \subseteq Overlapping
  BY DEF Begin, Idle

LEMMA RewritingOK ==
  ASSUME NEW kind \in {"ingest", "link", "unlink"}, NEW p \in Persons, NEW d \in Devices,
         NEW x, kind = "ingest" => x \in Positions, NEW list \in Seq(Devices),
         kind = "ingest" => d \in Range(list),
         NEW k, k.kind = kind, k.who = p, k.dev = d, k.pos = x
  PROVE  CallOK(Rewriting(k, list)) /\ Rewriting(k, list).kind = kind
         /\ Rewriting(k, list).step = "clearRows"
  BY DEF CallOK, Rewriting

LEMMA LinkStepsBase ==
  ASSUME BaseInv, NEW c \in Callers,
         \/ \E link \in Links :
              \/ \E x \in Positions : IngestLooks(c, link[1], link[2], x)
              \/ LinkReads(c, link[1], link[2]) \/ UnlinkReads(c, link[1], link[2])
         \/ IngestLinked(c) \/ IngestReadsLinks(c) \/ ClearRows(c) \/ InsertRow(c) \/ LinkWrite(c)
  PROVE  BaseInv'
<1>0. MapsOK /\ TablesOK /\ CallsOK /\ LockInv /\ Alone /\ CallOK(call[c])
  BY DEF BaseInv, CallsOK
<1>1. \A link \in Links : link[1] \in Persons /\ link[2] \in Devices
  BY PersonAssumption DEF PersonAssumption
<1>2. ASSUME KeepMemory, KeepRest PROVE MapsOK' /\ lock' = lock
  BY <1>0, <1>2 DEF KeepMemory, KeepRest, memory, told, MapsOK
<1>3. ASSUME NEW link \in Links, NEW x \in Positions, IngestLooks(c, link[1], link[2], x)
      PROVE  BaseInv'
  <2>1. PICK k : k = [kind |-> "ingest", who |-> link[1], dev |-> link[2], pos |-> x,
                      step |-> "isLinked"]
    OBVIOUS
  <2>2. CallOK(k) /\ k.kind = "ingest" /\ k.step = "isLinked"
    BY <1>1, <2>1 DEF CallOK
  <2>3. GoTo(c, k) /\ Begin(c, "ingest") /\ KeepMemory /\ KeepRest /\ UNCHANGED db
    BY <1>3, <2>1 DEF IngestLooks
  <2>. QED
    BY <1>0, <1>2, <2>2, <2>3, Begun, MovedOn DEF BaseInv, TablesOK
<1>4. ASSUME NEW p \in Persons, NEW d \in Devices, NEW kind \in {"link", "unlink"},
             NEW list \in Seq(Devices), Relink(c, kind, p, d, list)
      PROVE  BaseInv'
  <2>1. PICK r : r = [kind |-> kind, who |-> p, dev |-> d, pos |-> None]
    OBVIOUS
  <2>2. CallOK(Rewriting(r, list)) /\ Rewriting(r, list).kind = kind
        /\ Rewriting(r, list).step = "clearRows"
    <3>1. r.kind = kind /\ r.who = p /\ r.dev = d /\ r.pos = None
          /\ kind # "ingest" /\ kind \in {"ingest", "link", "unlink"}
      BY <2>1
    <3>. QED
      BY <3>1 DEF CallOK, Rewriting
  <2>3. GoTo(c, Rewriting(r, list)) /\ Begin(c, kind) /\ KeepMemory /\ KeepRest /\ UNCHANGED db
    BY <1>4, <2>1 DEF Relink
  <2>. QED
    BY <1>0, <1>2, <2>2, <2>3, Begun, MovedOn DEF BaseInv, TablesOK
<1>5. ASSUME NEW link \in Links, LinkReads(c, link[1], link[2])
      PROVE  BaseInv'
  <2>1. link[1] \in Present /\ persons[link[1]].trackers \in Seq(Devices)
    BY <1>0, <1>5, TrackersType DEF LinkReads, Person
  <2>2. Append(persons[link[1]].trackers, link[2]) \in Seq(Devices)
    BY <1>1, <2>1, Appended
  <2>. QED
    BY <1>1, <1>4, <1>5, <2>2 DEF LinkReads
<1>6. ASSUME NEW link \in Links, UnlinkReads(c, link[1], link[2])
      PROVE  BaseInv'
  <2>1. PICK list \in Without(persons[link[1]].trackers, link[2]) :
          Relink(c, "unlink", link[1], link[2], list)
    BY <1>6 DEF UnlinkReads
  <2>2. persons[link[1]].trackers \in Seq(Devices)
    BY <1>0, <1>6, TrackersType DEF UnlinkReads, Person
  <2>3. list \in Seq(Devices)
    BY <2>1, <2>2, WithoutType
  <2>. QED
    BY <1>1, <1>4, <2>1, <2>3
<1>7. CASE IngestLinked(c)
  <2>1. PICK s \in {"handle", "readLinks"} :
          GoTo(c, [call[c] EXCEPT !.step = s])
    BY <1>7 DEF IngestLinked
  <2>2. PICK k : k = [call[c] EXCEPT !.step = s]
    OBVIOUS
  <2>3. /\ call[c].step = "isLinked" /\ KeepMemory /\ KeepRest /\ UNCHANGED db
        /\ k.step = s /\ k.kind = call[c].kind
    BY <1>0, <1>7, <2>2 DEF IngestLinked, At, CallOK, Idle
  <2>4. CallOK(k)
    BY <1>0, <2>2, <2>3 DEF CallOK, Idle
  <2>. QED
    BY <1>0, <1>2, <2>1, <2>2, <2>3, <2>4, MovedOn DEF BaseInv, TablesOK
<1>8. CASE IngestReadsLinks(c)
  <2>1. PICK s : s = IF call[c].who \in Present THEN persons[call[c].who].trackers ELSE <<>>
    OBVIOUS
  <2>2. s \in Seq(Devices)
    BY <1>0, <2>1, TrackersType DEF Person
  <2>3. /\ call[c].step = "readLinks" /\ KeepMemory /\ KeepRest /\ UNCHANGED db
        /\ GoTo(c, Rewriting(call[c], Append(s, call[c].dev)))
    BY <1>8, <2>1 DEF IngestReadsLinks, At
  <2>4. call[c].kind = "ingest" /\ call[c].who \in Persons /\ call[c].dev \in Devices
        /\ call[c].pos \in Positions
    BY <1>0, <2>3 DEF CallOK, Idle
  <2>5. PICK l : l = Append(s, call[c].dev)
    OBVIOUS
  <2>6. l \in Seq(Devices) /\ call[c].dev \in Range(l)
    BY <2>2, <2>4, <2>5, Appended
  <2>7. CallOK(Rewriting(call[c], l)) /\ Rewriting(call[c], l).kind = "ingest"
        /\ Rewriting(call[c], l).step = "clearRows"
    BY <2>4, <2>6, RewritingOK
  <2>. QED
    BY <1>0, <1>2, <2>3, <2>4, <2>5, <2>7, MovedOn DEF BaseInv, TablesOK
<1>9. CASE ClearRows(c)
  <2>1. PICK k : k = [call[c] EXCEPT !.step = "insertRows"]
    OBVIOUS
  <2>2. /\ call[c].step = "clearRows" /\ KeepMemory /\ KeepRest /\ GoTo(c, k)
        /\ k.step = "insertRows" /\ k.kind = call[c].kind
        /\ db' = [db EXCEPT !.links[call[c].who] = {}]
    BY <1>0, <1>9, <2>1 DEF ClearRows, At, CallOK, Idle
  <2>3. CallOK(k)
    BY <1>0, <2>1, <2>2 DEF CallOK, Idle
  <2>4. TablesOK'
    BY <1>0, <2>2 DEF TablesOK
  <2>. QED
    BY <1>0, <1>2, <2>2, <2>3, <2>4, MovedOn DEF BaseInv
<1>10. CASE InsertRow(c)
  <2>0. /\ call[c].step = "insertRows" /\ KeepMemory /\ KeepRest
        /\ call[c].who \in Persons /\ call[c].left \in Seq(Devices)
    BY <1>0, <1>10 DEF InsertRow, At, CallOK, Idle
  <2>1. \/ GoTo(c, Idle)
        \/ GoTo(c, [call[c] EXCEPT !.step = "linkWrite"])
        \/ call[c].left # <<>> /\ GoTo(c, [call[c] EXCEPT !.left = Tail(@)])
    BY <1>10 DEF InsertRow
  <2>2. \E k : /\ GoTo(c, k) /\ CallOK(k) /\ k.step \notin LockSteps
               /\ k = Idle \/ k.kind = call[c].kind
    <3>1. CASE GoTo(c, Idle)
      BY <3>1, IdleOK
    <3>2. CASE GoTo(c, [call[c] EXCEPT !.step = "linkWrite"])
      <4>1. PICK k : k = [call[c] EXCEPT !.step = "linkWrite"]
        OBVIOUS
      <4>2. k.step = "linkWrite" /\ k.kind = call[c].kind
        BY <1>0, <2>0, <4>1 DEF CallOK, Idle
      <4>3. CallOK(k)
        BY <1>0, <2>0, <4>1 DEF CallOK, Idle
      <4>. QED
        BY <3>2, <4>1, <4>2, <4>3
    <3>3. CASE call[c].left # <<>> /\ GoTo(c, [call[c] EXCEPT !.left = Tail(@)])
      <4>1. PICK k : k = [call[c] EXCEPT !.left = Tail(@)]
        OBVIOUS
      <4>2. k.step = "insertRows" /\ k.kind = call[c].kind
        BY <1>0, <2>0, <4>1 DEF CallOK, Idle
      <4>3. Tail(call[c].left) \in Seq(Devices)
        BY <2>0, <3>3
      <4>4. CallOK(k)
        BY <1>0, <2>0, <4>1, <4>3 DEF CallOK, Idle
      <4>. QED
        BY <3>3, <4>1, <4>2, <4>4
    <3>. QED
      BY <2>1, <3>1, <3>2, <3>3
  <2>3. TablesOK'
    <3>1. call[c].left # <<>> => Head(call[c].left) \in Devices
      BY <2>0
    <3>2. \/ UNCHANGED db
          \/ /\ Head(call[c].left) \in Devices
             /\ db' = [db EXCEPT !.links[call[c].who] = @ \cup {Head(call[c].left)}]
      BY <1>10, <3>1 DEF InsertRow
    <3>. QED
      BY <1>0, <2>0, <3>2 DEF TablesOK
  <2>. QED
    BY <1>0, <1>2, <2>0, <2>2, <2>3, MovedOn DEF BaseInv
<1>11. CASE LinkWrite(c)
  <2>0. /\ call[c].step = "linkWrite" /\ KeepRest /\ UNCHANGED <<zones, fixes, db>>
        /\ call[c].who \in Persons /\ call[c].list \in Seq(Devices) /\ call[c].dev \in Devices
        /\ call[c].kind = "ingest" => call[c].pos \in Positions
    BY <1>0, <1>11 DEF LinkWrite, At, CallOK, Idle
  <2>1. \E k : /\ GoTo(c, k) /\ CallOK(k) /\ k.step \notin LockSteps
               /\ k = Idle \/ k.kind = call[c].kind
    <3>1. CASE call[c].kind = "ingest"
      <4>1. PICK k : k = [kind |-> "ingest", step |-> "handle", who |-> call[c].who,
                          dev |-> call[c].dev, pos |-> call[c].pos]
        OBVIOUS
      <4>2. CallOK(k) /\ k.step = "handle" /\ k.kind = call[c].kind
        BY <2>0, <3>1, <4>1 DEF CallOK
      <4>. QED
        BY <1>11, <3>1, <4>1, <4>2 DEF LinkWrite
    <3>2. CASE call[c].kind # "ingest"
      <4>1. DeriveNext(c, {call[c].who} \cap Present) /\ {call[c].who} \cap Present \in SUBSET Persons
        BY <1>11, <2>0, <3>2 DEF LinkWrite
      <4>. QED
        BY <4>1, NextOK
    <3>. QED
      BY <3>1, <3>2
  <2>2. persons' \in [Persons -> Person \cup {Absent}]
    <3>1. CASE call[c].who \in Present
      <4>1. persons[call[c].who] \in Person
        BY <1>0, <3>1, TrackersType
      <4>2. [persons[call[c].who] EXCEPT !.trackers = call[c].list] \in Person
        BY <2>0, <4>1 DEF Person
      <4>3. persons' = [persons EXCEPT ![call[c].who] =
                          [persons[call[c].who] EXCEPT !.trackers = call[c].list]]
        BY <1>11, <3>1 DEF LinkWrite
      <4>. QED
        BY <1>0, <4>2, <4>3 DEF MapsOK
    <3>. QED
      BY <1>0, <1>11, <3>1 DEF LinkWrite, MapsOK
  <2>3. MapsOK' /\ TablesOK' /\ lock' = lock
    BY <1>0, <2>0, <2>2 DEF MapsOK, TablesOK, KeepRest, told
  <2>. QED
    BY <1>0, <2>0, <2>1, <2>3, MovedOn DEF BaseInv
<1>. QED
  BY <1>3, <1>5, <1>6, <1>7, <1>8, <1>9, <1>10, <1>11
-----------------------------------------------------------------------------
\* Fixes and derivations

LEMMA LockStepOK ==
  ASSUME NEW k, CallOK(k), k.step \in LockSteps, NEW s \in LockSteps,
         NEW r, r = [k EXCEPT !.step = s]
  PROVE  CallOK(r) /\ r.step = s /\ r.kind = k.kind /\ r.todo = k.todo /\ r.who = k.who
         /\ r.old = k.old /\ r.new = k.new /\ r.row = k.row
  BY DEF CallOK, Idle

LEMMA ReleaseOK ==
  ASSUME CallsOK, LockInv, Alone, NEW c \in Callers, call[c].step \in LockSteps, Release(c)
  PROVE  CallsOK' /\ LockInv' /\ Alone'
<1>1. CallOK(call[c]) /\ call[c].todo \subseteq Persons /\ lock = c /\ call[c].step # "idle"
  BY DEF CallsOK, CallOK, LockInv
<1>2. PICK k : /\ GoTo(c, k) /\ CallOK(k) /\ k.step \in {"idle", "derive"}
               /\ k = Idle \/ k.kind = call[c].kind
  BY <1>1, NextOK DEF Release
<1>. QED
  BY <1>1, <1>2, Moved DEF Release

LEMMA FixStepsBase ==
  ASSUME BaseInv, NEW c \in Callers, HandleReads(c) \/ FixWrite(c) \/ DeriveAll(c)
  PROVE  BaseInv'
<1>0. MapsOK /\ TablesOK /\ CallsOK /\ LockInv /\ Alone /\ CallOK(call[c])
  BY DEF BaseInv, CallsOK
<1>1. CASE HandleReads(c)
  <2>0. /\ call[c].step = "handle" /\ KeepMemory /\ UNCHANGED <<lock, db, told>>
        /\ call[c].dev \in Devices /\ call[c].pos \in Positions /\ call[c].kind = "ingest"
    BY <1>0, <1>1 DEF HandleReads, At, CallOK, Idle
  <2>1. CASE GoTo(c, Idle) /\ UNCHANGED clock
    <3>1. MapsOK' /\ TablesOK'
      BY <1>0, <2>0, <2>1 DEF MapsOK, TablesOK, KeepMemory, memory, told
    <3>2. CallsOK' /\ LockInv' /\ Alone'
      BY <1>0, <2>0, <2>1, IdleOK, MovedOn
    <3>. QED
      BY <3>1, <3>2 DEF BaseInv
  <2>2. CASE /\ clock' = clock + 1
             /\ GoTo(c, [kind |-> "ingest", step |-> "fixWrite", dev |-> call[c].dev,
                         fix |-> [pos |-> call[c].pos, at |-> clock + 1],
                         todo |-> LinkedTo(call[c].dev)])
    <3>0. clock + 1 \in Nat
      BY <1>0 DEF MapsOK
    <3>1. MapsOK' /\ TablesOK'
      BY <1>0, <2>0, <2>2, <3>0 DEF MapsOK, TablesOK, KeepMemory, memory, told
    <3>2. LinkedTo(call[c].dev) \subseteq Persons
      BY DEF LinkedTo, Present
    <3>3. PICK k : k = [kind |-> "ingest", step |-> "fixWrite", dev |-> call[c].dev,
                        fix |-> [pos |-> call[c].pos, at |-> clock + 1],
                        todo |-> LinkedTo(call[c].dev)]
      OBVIOUS
    <3>4. CallOK(k) /\ k.kind = call[c].kind /\ k.step = "fixWrite"
      BY <2>0, <3>0, <3>2, <3>3 DEF CallOK, Fix
    <3>5. CallsOK' /\ LockInv' /\ Alone'
      BY <1>0, <2>0, <2>2, <3>3, <3>4, MovedOn
    <3>. QED
      BY <3>1, <3>5 DEF BaseInv
  <2>. QED
    BY <1>1, <2>1, <2>2 DEF HandleReads
<1>2. CASE FixWrite(c)
  <2>1. /\ call[c].step = "fixWrite" /\ UNCHANGED <<persons, zones, lock, db, clock, told>>
        /\ call[c].dev \in Devices /\ call[c].fix \in Fix /\ call[c].todo \in SUBSET Persons
        /\ fixes' = [fixes EXCEPT ![call[c].dev] = call[c].fix] /\ DeriveNext(c, call[c].todo)
    BY <1>0, <1>2 DEF FixWrite, At, CallOK, Idle
  <2>2. MapsOK' /\ TablesOK'
    BY <1>0, <2>1 DEF MapsOK, TablesOK, told
  <2>3. PICK k : /\ GoTo(c, k) /\ CallOK(k) /\ k.step \in {"idle", "derive"}
                 /\ k = Idle \/ k.kind = call[c].kind
    BY <2>1, NextOK
  <2>. QED
    BY <1>0, <2>1, <2>2, <2>3, MovedOn DEF BaseInv
<1>3. CASE DeriveAll(c)
  <2>1. /\ call[c].step = "deriveAll" /\ KeepMemory /\ KeepRest /\ UNCHANGED db
        /\ DeriveNext(c, Present) /\ Present \in SUBSET Persons
    BY <1>3 DEF DeriveAll, At, Present
  <2>2. MapsOK' /\ TablesOK' /\ lock' = lock
    BY <1>0, <2>1 DEF MapsOK, TablesOK, KeepMemory, KeepRest, memory, told
  <2>3. PICK k : /\ GoTo(c, k) /\ CallOK(k) /\ k.step \in {"idle", "derive"}
                 /\ k = Idle \/ k.kind = call[c].kind
    BY <2>1, NextOK
  <2>. QED
    BY <1>0, <2>1, <2>2, <2>3, MovedOn DEF BaseInv
<1>. QED
  BY <1>1, <1>2, <1>3

LEMMA DeriveReadsBase ==
  ASSUME BaseInv, NEW c \in Callers, DeriveReads(c)
  PROVE  BaseInv'
<1>0. MapsOK /\ TablesOK /\ CallsOK /\ LockInv /\ Alone /\ CallOK(call[c])
  BY DEF BaseInv, CallsOK
<1>1. /\ call[c].step = "derive" /\ lock = None /\ KeepMemory /\ UNCHANGED <<db, clock, told>>
      /\ call[c].todo \subseteq Persons
  BY <1>0 DEF DeriveReads, At, CallOK, Idle
<1>2. MapsOK' /\ TablesOK'
  BY <1>0, <1>1 DEF MapsOK, TablesOK, KeepMemory, memory, told
<1>3. PICK p \in call[c].todo :
        IF p \notin Present
          THEN /\ DeriveNext(c, call[c].todo \ {p})
               /\ UNCHANGED <<lock, behind>>
          ELSE \E new \in Derived(p) :
                 /\ lock' = c
                 /\ behind' = behind \ {p}
                 /\ GoTo(c, Deriving(call[c], IF new.state # StateOf(p)
                                                THEN "stateWrite" ELSE "drift", p, new))
  BY DEF DeriveReads
<1>4. CASE p \notin Present
  <2>1. PICK k : /\ GoTo(c, k) /\ CallOK(k) /\ k.step \in {"idle", "derive"}
                 /\ k = Idle \/ k.kind = call[c].kind
    BY <1>1, <1>3, <1>4, NextOK
  <2>. QED
    BY <1>0, <1>1, <1>2, <1>3, <1>4, <2>1, MovedOn DEF BaseInv
<1>5. CASE p \in Present
  <2>1. PICK new \in Derived(p) :
          /\ lock' = c
          /\ GoTo(c, Deriving(call[c], IF new.state # StateOf(p)
                                         THEN "stateWrite" ELSE "drift", p, new))
    BY <1>3, <1>5
  <2>2. PICK s \in {"stateWrite", "drift"} : GoTo(c, Deriving(call[c], s, p, new))
    BY <2>1
  <2>3. PICK k : k = Deriving(call[c], s, p, new)
    OBVIOUS
  <2>4. new \in Row /\ StateOf(p) \in State
    BY <1>0, <1>5, TrackersType, DerivedType
  <2>5. CallOK(k) /\ k.step = s /\ k.kind = call[c].kind
    BY <1>1, <1>3, <2>3, <2>4 DEF CallOK, Deriving
  <2>6. lock' = c /\ k.step \in LockSteps /\ GoTo(c, k)
    BY <2>1, <2>2, <2>3, <2>5
  <2>. QED
    BY <1>0, <1>1, <1>2, <2>5, <2>6, Moved DEF BaseInv
<1>. QED
  BY <1>4, <1>5
LEMMA LockStepsBase ==
  ASSUME BaseInv, NEW c \in Callers,
         Drift(c) \/ StateWrite(c) \/ RowRead(c) \/ RowWrite(c) \/ Announce(c) \/ Crowd(c)
  PROVE  BaseInv'
<1>0. MapsOK /\ TablesOK /\ CallsOK /\ LockInv /\ Alone /\ CallOK(call[c])
  BY DEF BaseInv, CallsOK
<1>1. call[c].step \in LockSteps
  BY DEF Drift, StateWrite, RowRead, RowWrite, Announce, Crowd, At
<1>2. /\ lock = c /\ call[c].step # "idle" /\ call[c].who \in Persons
      /\ call[c].old \in State /\ call[c].new \in Row /\ call[c].row \in Row
  BY <1>0, <1>1 DEF LockInv, CallOK, Idle
<1>3. ASSUME NEW s \in LockSteps, GoTo(c, [call[c] EXCEPT !.step = s]), UNCHANGED lock
      PROVE  CallsOK' /\ LockInv' /\ Alone'
  <2>1. PICK k : k = [call[c] EXCEPT !.step = s]
    OBVIOUS
  <2>2. CallOK(k) /\ k.step = s /\ k.kind = call[c].kind
    BY <1>0, <1>1, <2>1, LockStepOK
  <2>. QED
    BY <1>0, <1>2, <1>3, <2>1, <2>2, Moved
<1>4. ASSUME Release(c)
      PROVE  CallsOK' /\ LockInv' /\ Alone'
  BY <1>0, <1>1, <1>4, ReleaseOK
<1>5. CASE Drift(c)
  <2>1. /\ UNCHANGED <<zones, fixes, db, clock, told>> /\ Release(c)
    BY <1>5 DEF Drift
  <2>2. persons' \in [Persons -> Person \cup {Absent}]
    <3>1. CASE call[c].new.pos # None /\ call[c].who \in Present
      <4>1. persons[call[c].who] \in Person
        BY <1>0, <3>1, TrackersType
      <4>2. PICK q : q = [persons[call[c].who] EXCEPT !.row.pos = call[c].new.pos,
                                                      !.row.at = call[c].new.at]
        OBVIOUS
      <4>3. persons[call[c].who].row \in Row
        BY <4>1 DEF Person
      <4>4. [persons[call[c].who].row EXCEPT !.pos = call[c].new.pos, !.at = call[c].new.at] \in Row
        BY <1>2, <4>3 DEF Row
      <4>5. q \in Person
        BY <4>1, <4>2, <4>4 DEF Person
      <4>6. persons' = [persons EXCEPT ![call[c].who] = q]
        BY <1>5, <3>1, <4>2 DEF Drift
      <4>. QED
        BY <1>0, <4>5, <4>6 DEF MapsOK
    <3>. QED
      BY <1>0, <1>5, <3>1 DEF Drift, MapsOK
  <2>. QED
    BY <1>0, <1>4, <2>1, <2>2 DEF BaseInv, MapsOK, TablesOK, told
<1>6. CASE StateWrite(c)
  <2>1. UNCHANGED <<zones, fixes, lock, db, clock, told>> /\ GoTo(c, [call[c] EXCEPT !.step = "rowRead"])
    BY <1>6 DEF StateWrite
  <2>2. persons' \in [Persons -> Person \cup {Absent}]
    <3>1. CASE call[c].who \in Present
      <4>1. persons[call[c].who] \in Person
        BY <1>0, <3>1, TrackersType
      <4>2. PICK q : q = [persons[call[c].who] EXCEPT !.row = call[c].new]
        OBVIOUS
      <4>3. q \in Person
        BY <1>2, <4>1, <4>2 DEF Person
      <4>4. persons' = [persons EXCEPT ![call[c].who] = q]
        BY <1>6, <3>1, <4>2 DEF StateWrite
      <4>. QED
        BY <1>0, <4>3, <4>4 DEF MapsOK
    <3>. QED
      BY <1>0, <1>6, <3>1 DEF StateWrite, MapsOK
  <2>. QED
    BY <1>0, <1>3, <2>1, <2>2 DEF BaseInv, MapsOK, TablesOK, told
<1>7. CASE RowRead(c)
  <2>1. KeepMemory /\ KeepRest /\ UNCHANGED db
    BY <1>7 DEF RowRead
  <2>2. MapsOK' /\ TablesOK' /\ lock' = lock
    BY <1>0, <2>1 DEF KeepMemory, KeepRest, memory, told, MapsOK, TablesOK
  <2>3. CASE call[c].who \notin Present
    BY <1>3, <1>7, <2>2, <2>3 DEF BaseInv, RowRead
  <2>4. CASE call[c].who \in Present
    <3>1. persons[call[c].who].row \in Row
      BY <1>0, <2>4, TrackersType DEF Person
    <3>2. PICK k : k = [call[c] EXCEPT !.step = "rowWrite", !.row = persons[call[c].who].row]
      OBVIOUS
    <3>3. CallOK(k) /\ k.step = "rowWrite" /\ k.kind = call[c].kind
      BY <1>0, <1>1, <3>1, <3>2 DEF CallOK, Idle
    <3>4. GoTo(c, k)
      BY <1>7, <2>4, <3>2 DEF RowRead
    <3>. QED
      BY <1>0, <1>2, <2>2, <3>3, <3>4, Moved DEF BaseInv
  <2>. QED
    BY <2>3, <2>4
<1>8. CASE RowWrite(c)
  <2>1. /\ KeepMemory /\ KeepRest /\ GoTo(c, [call[c] EXCEPT !.step = "history"])
        /\ db' = [db EXCEPT !.persons[call[c].who] = call[c].row]
    BY <1>8 DEF RowWrite
  <2>2. MapsOK' /\ TablesOK' /\ lock' = lock
    BY <1>0, <1>2, <2>1 DEF KeepMemory, KeepRest, memory, told, MapsOK, TablesOK
  <2>. QED
    BY <1>3, <2>1, <2>2 DEF BaseInv
<1>9. CASE Announce(c)
  <2>1. /\ KeepMemory /\ UNCHANGED <<db, clock, crowd>>
        /\ said' = [said EXCEPT ![call[c].who] = call[c].new.state]
        /\ \/ GoTo(c, [call[c] EXCEPT !.step = "crowd"]) /\ UNCHANGED lock
           \/ Release(c)
    BY <1>9 DEF Announce
  <2>2. call[c].new.state \in State
    BY <1>2 DEF Row
  <2>3. MapsOK' /\ TablesOK'
    BY <1>0, <1>2, <2>1, <2>2 DEF KeepMemory, memory, MapsOK, TablesOK
  <2>. QED
    BY <1>3, <1>4, <2>1, <2>3 DEF BaseInv
<1>10. CASE Crowd(c)
  <2>1. /\ KeepMemory /\ UNCHANGED <<db, clock, said>> /\ Release(c)
        /\ crowd' \in {crowd, "home", "away"}
    BY <1>10 DEF Crowd
  <2>2. MapsOK' /\ TablesOK'
    BY <1>0, <2>1 DEF KeepMemory, memory, MapsOK, TablesOK
  <2>. QED
    BY <1>4, <2>1, <2>2 DEF BaseInv
<1>. QED
  BY <1>5, <1>6, <1>7, <1>8, <1>9, <1>10

-----------------------------------------------------------------------------
\* Persons and zones

LEMMA PersonStepsBase ==
  ASSUME BaseInv, NEW c \in Callers,
         \/ \E p \in Persons : CreatePerson(c, p) \/ UpdatePerson(c, p) \/ RemoveRow(c, p)
         \/ SaveRow(c) \/ PutPerson(c) \/ Tell(c) \/ DropPerson(c) \/ TellRemoved(c)
  PROVE  BaseInv'
<1>0. MapsOK /\ TablesOK /\ CallsOK /\ LockInv /\ Alone /\ CallOK(call[c])
  BY DEF BaseInv, CallsOK
<1>1. ASSUME KeepMemory, KeepRest PROVE MapsOK' /\ lock' = lock
  BY <1>0, <1>1 DEF KeepMemory, KeepRest, memory, told, MapsOK
<1>2. ASSUME NEW p \in Persons, NEW kind \in {"create", "update"}, NEW rec \in Person,
             SavePerson(c, kind, p, rec)
      PROVE  BaseInv'
  <2>1. PICK k : k = [kind |-> kind, step |-> "saveRow", who |-> p, rec |-> rec]
    OBVIOUS
  <2>2. CallOK(k) /\ k.kind = kind /\ k.step = "saveRow"
    BY <2>1 DEF CallOK
  <2>3. GoTo(c, k) /\ Begin(c, kind) /\ KeepMemory /\ KeepRest /\ UNCHANGED db
    BY <1>2, <2>1 DEF SavePerson
  <2>. QED
    BY <1>0, <1>1, <2>2, <2>3, Begun, MovedOn DEF BaseInv, TablesOK
<1>3. ASSUME NEW p \in Persons, CreatePerson(c, p) PROVE BaseInv'
  <2>1. PICK rec : rec = [trackers |-> <<>>, row |-> [NewRow EXCEPT !.at = clock]]
    OBVIOUS
  <2>2. [NewRow EXCEPT !.at = clock] \in Row
    BY <1>0 DEF NewRow, Row, State, MapsOK
  <2>3. rec \in Person
    BY <2>1, <2>2 DEF Person
  <2>. QED
    BY <1>2, <1>3, <2>1, <2>3 DEF CreatePerson
<1>4. ASSUME NEW p \in Persons, UpdatePerson(c, p) PROVE BaseInv'
  BY <1>0, <1>2, <1>4, TrackersType DEF UpdatePerson
<1>5. ASSUME NEW p \in Persons, RemoveRow(c, p) PROVE BaseInv'
  <2>1. PICK k : k = [kind |-> "remove", step |-> "dropPerson", who |-> p]
    OBVIOUS
  <2>2. CallOK(k) /\ k.kind = "remove" /\ k.step = "dropPerson"
    BY <2>1 DEF CallOK
  <2>3. GoTo(c, k) /\ Begin(c, "remove") /\ KeepMemory /\ KeepRest
    BY <1>5, <2>1 DEF RemoveRow
  <2>4. TablesOK'
    BY <1>0, <1>5 DEF RemoveRow, TablesOK
  <2>. QED
    BY <1>0, <1>1, <2>2, <2>3, <2>4, Begun, MovedOn DEF BaseInv
<1>6. ASSUME NEW s \in PersonSteps \cup RemoveSteps, call[c].step \in PersonSteps \cup RemoveSteps,
             call[c].step \in PersonSteps <=> s \in PersonSteps,
             GoTo(c, [call[c] EXCEPT !.step = s]), UNCHANGED lock
      PROVE  CallsOK' /\ LockInv' /\ Alone'
  <2>1. PICK k : k = [call[c] EXCEPT !.step = s]
    OBVIOUS
  <2>2. CallOK(k) /\ k.step = s /\ k.kind = call[c].kind
    BY <1>0, <1>6, <2>1 DEF CallOK, Idle
  <2>. QED
    BY <1>0, <1>6, <2>1, <2>2, MovedOn
<1>7. CASE SaveRow(c)
  <2>1. /\ call[c].step = "saveRow" /\ KeepMemory /\ KeepRest
        /\ GoTo(c, [call[c] EXCEPT !.step = "putPerson"])
        /\ db' = [db EXCEPT !.persons[call[c].who] = call[c].rec.row]
    BY <1>7 DEF SaveRow, At
  <2>2. call[c].who \in Persons /\ call[c].rec.row \in Row
    BY <1>0, <2>1 DEF CallOK, Idle, Person
  <2>3. TablesOK'
    BY <1>0, <2>1, <2>2 DEF TablesOK
  <2>. QED
    BY <1>1, <1>6, <2>1, <2>3 DEF BaseInv
<1>8. CASE PutPerson(c)
  <2>1. /\ call[c].step = "putPerson" /\ KeepRest /\ UNCHANGED <<zones, fixes, db>>
        /\ GoTo(c, [call[c] EXCEPT !.step = "tell"])
        /\ persons' = [persons EXCEPT ![call[c].who] = call[c].rec]
    BY <1>8 DEF PutPerson, At
  <2>2. call[c].who \in Persons /\ call[c].rec \in Person
    BY <1>0, <2>1 DEF CallOK, Idle
  <2>3. MapsOK' /\ TablesOK' /\ lock' = lock
    BY <1>0, <2>1, <2>2 DEF MapsOK, TablesOK, KeepRest, told
  <2>. QED
    BY <1>6, <2>1, <2>3 DEF BaseInv
<1>9. CASE DropPerson(c)
  <2>1. /\ call[c].step = "dropPerson" /\ KeepRest /\ UNCHANGED <<zones, fixes, db>>
        /\ GoTo(c, [call[c] EXCEPT !.step = "tellRemoved"])
        /\ persons' = [persons EXCEPT ![call[c].who] = Absent]
    BY <1>9 DEF DropPerson, At
  <2>2. MapsOK' /\ TablesOK' /\ lock' = lock
    BY <1>0, <2>1 DEF MapsOK, TablesOK, KeepRest, told
  <2>. QED
    BY <1>6, <2>1, <2>2 DEF BaseInv
<1>10. CASE Tell(c) \/ TellRemoved(c)
  <2>1. /\ call[c].step \in {"tell", "tellRemoved"} /\ KeepMemory
        /\ UNCHANGED <<lock, db, clock, crowd>> /\ GoTo(c, Idle)
    BY <1>10 DEF Tell, TellRemoved, At
  <2>2. \E s \in State \cup {Absent} : said' = [said EXCEPT ![call[c].who] = s]
    <3>1. CASE Tell(c)
      <4>1. call[c].rec.row.state \in State
        BY <1>0, <3>1 DEF Tell, At, CallOK, Idle, Person, Row
      <4>. QED
        BY <3>1, <4>1 DEF Tell
    <3>2. CASE TellRemoved(c)
      BY <3>2 DEF TellRemoved
    <3>. QED
      BY <1>10, <3>1, <3>2
  <2>3. MapsOK' /\ TablesOK'
    BY <1>0, <2>1, <2>2 DEF MapsOK, TablesOK, KeepMemory, memory
  <2>. QED
    BY <1>0, <2>1, <2>3, IdleOK, MovedOn DEF BaseInv
<1>. QED
  BY <1>3, <1>4, <1>5, <1>7, <1>8, <1>9, <1>10
LEMMA ZoneStepsBase ==
  ASSUME BaseInv, NEW c \in Callers,
         \/ \E z \in Zones : RemoveZone(c, z) \/ \E area \in Areas :
              CreateZone(c, z, area) \/ UpdateZone(c, z, area)
         \/ ZoneRow(c) \/ PutZone(c) \/ DropZone(c)
  PROVE  BaseInv'
<1>0. MapsOK /\ TablesOK /\ CallsOK /\ LockInv /\ Alone /\ CallOK(call[c])
  BY DEF BaseInv, CallsOK
<1>1. ASSUME KeepMemory, KeepRest PROVE MapsOK' /\ lock' = lock
  BY <1>0, <1>1 DEF KeepMemory, KeepRest, memory, told, MapsOK
<1>2. ASSUME NEW z \in Zones, NEW kind, NEW area \in Areas, SaveZone(c, kind, z, area)
      PROVE  BaseInv'
  <2>1. PICK k : k = [kind |-> kind, step |-> "zoneRow", zone |-> z, area |-> area]
    OBVIOUS
  <2>2. CallOK(k) /\ k.kind = kind /\ k.step = "zoneRow"
    BY <2>1, PersonAssumption DEF CallOK, PersonAssumption
  <2>3. GoTo(c, k) /\ Begin(c, kind) /\ KeepMemory /\ KeepRest /\ UNCHANGED db
    BY <1>2, <2>1 DEF SaveZone
  <2>. QED
    BY <1>0, <1>1, <2>2, <2>3, Begun, MovedOn DEF BaseInv, TablesOK
<1>3. ASSUME NEW z \in Zones, NEW area \in Areas, CreateZone(c, z, area) \/ UpdateZone(c, z, area)
      PROVE  BaseInv'
  BY <1>2, <1>3 DEF CreateZone, UpdateZone
<1>4. ASSUME NEW z \in Zones, RemoveZone(c, z) PROVE BaseInv'
  <2>1. PICK k : k = [kind |-> "removeZone", step |-> "dropZone", zone |-> z]
    OBVIOUS
  <2>2. CallOK(k) /\ k.kind = "removeZone" /\ k.step = "dropZone"
    BY <2>1 DEF CallOK
  <2>3. GoTo(c, k) /\ Begin(c, "removeZone") /\ KeepMemory /\ KeepRest
    BY <1>4, <2>1 DEF RemoveZone
  <2>4. TablesOK'
    BY <1>0, <1>4 DEF RemoveZone, TablesOK
  <2>. QED
    BY <1>0, <1>1, <2>2, <2>3, <2>4, Begun, MovedOn DEF BaseInv
<1>5. CASE ZoneRow(c)
  <2>1. PICK k : k = [call[c] EXCEPT !.step = "putZone"]
    OBVIOUS
  <2>2. /\ call[c].step = "zoneRow" /\ KeepMemory /\ KeepRest /\ GoTo(c, k)
        /\ db' = [db EXCEPT !.zones[call[c].zone] = call[c].area]
    BY <1>5, <2>1 DEF ZoneRow, At
  <2>3. CallOK(k) /\ k.step = "putZone" /\ k.kind = call[c].kind /\ call[c].area \subseteq Positions
    BY <1>0, <2>1, <2>2 DEF CallOK, Idle
  <2>4. TablesOK'
    BY <1>0, <2>2, <2>3 DEF TablesOK
  <2>. QED
    BY <1>0, <1>1, <2>2, <2>3, <2>4, MovedOn DEF BaseInv
<1>6. ASSUME NEW kind, kind = call[c].kind, call[c].step \in {"putZone", "dropZone"},
             GoTo(c, [kind |-> kind, step |-> "deriveAll"]), UNCHANGED lock
      PROVE  CallsOK' /\ LockInv' /\ Alone'
  <2>1. PICK k : k = [kind |-> kind, step |-> "deriveAll"]
    OBVIOUS
  <2>2. CallOK(k) /\ k.step = "deriveAll" /\ k.kind = call[c].kind
    BY <1>6, <2>1 DEF CallOK
  <2>. QED
    BY <1>0, <1>6, <2>1, <2>2, MovedOn
<1>7. CASE PutZone(c)
  <2>1. /\ call[c].step = "putZone" /\ UNCHANGED <<persons, fixes, lock, db, clock, told>>
        /\ zones' = [zones EXCEPT ![call[c].zone] = call[c].area]
        /\ \/ GoTo(c, Idle)
           \/ GoTo(c, [kind |-> call[c].kind, step |-> "deriveAll"])
    BY <1>7 DEF PutZone, At
  <2>2. call[c].area \subseteq Positions
    BY <1>0, <2>1 DEF CallOK, Idle
  <2>3. MapsOK' /\ TablesOK'
    BY <1>0, <2>1, <2>2 DEF MapsOK, TablesOK, told
  <2>4. CallsOK' /\ LockInv' /\ Alone'
    BY <1>0, <1>6, <2>1, IdleOK, MovedOn
  <2>. QED
    BY <2>3, <2>4 DEF BaseInv
<1>8. CASE DropZone(c)
  <2>1. /\ call[c].step = "dropZone" /\ KeepRest /\ UNCHANGED <<persons, fixes, db>>
        /\ zones' = [zones EXCEPT ![call[c].zone] = Absent]
        /\ GoTo(c, [kind |-> "removeZone", step |-> "deriveAll"])
    BY <1>8 DEF DropZone, At
  <2>2. MapsOK' /\ TablesOK' /\ lock' = lock
    BY <1>0, <2>1 DEF MapsOK, TablesOK, KeepRest, told
  <2>3. call[c].kind = "removeZone"
    BY <1>0, <2>1 DEF CallOK, Idle
  <2>. QED
    BY <1>6, <2>1, <2>2, <2>3 DEF BaseInv
<1>. QED
  BY <1>3, <1>4, <1>5, <1>7, <1>8

-----------------------------------------------------------------------------
\* Faults

LEMMA StoreFailsBase ==
  ASSUME BaseInv, NEW c \in Callers, StoreFails(c)
  PROVE  BaseInv'
<1>0. MapsOK /\ TablesOK /\ CallsOK /\ LockInv /\ Alone
  BY DEF BaseInv
<1>1. KeepMemory /\ UNCHANGED <<db, clock, told>>
      /\ IF lock = c THEN Release(c) ELSE GoTo(c, Idle) /\ UNCHANGED lock
  BY DEF StoreFails
<1>2. MapsOK' /\ TablesOK'
  BY <1>0, <1>1 DEF MapsOK, TablesOK, KeepMemory, memory, told
<1>3. CASE lock = c
  BY <1>0, <1>1, <1>2, <1>3, ReleaseOK DEF BaseInv, LockInv
<1>4. CASE lock # c
  BY <1>0, <1>1, <1>2, <1>4, IdleOK, MovedOn DEF BaseInv, LockInv
<1>. QED
  BY <1>3, <1>4

LEMMA DroppedBase ==
  ASSUME BaseInv, NEW c \in Callers, Dropped(c)
  PROVE  BaseInv'
<1>0. MapsOK /\ TablesOK /\ CallsOK /\ LockInv /\ Alone
  BY DEF BaseInv
<1>1. KeepMemory /\ UNCHANGED <<db, clock, told>> /\ GoTo(c, Idle)
      /\ lock' = IF lock = c THEN None ELSE lock
  BY DEF Dropped
<1>2. MapsOK' /\ TablesOK'
  BY <1>0, <1>1 DEF MapsOK, TablesOK, KeepMemory, memory, told
<1>. QED
  BY <1>0, <1>1, <1>2, IdleOK, Moved DEF BaseInv

LEMMA RestartBase ==
  ASSUME BaseInv, NEW c \in Callers, Restart(c)
  PROVE  BaseInv'
<1>0. MapsOK /\ TablesOK
  BY DEF BaseInv
<1>1. TablesOK' /\ zones' = db'.zones
  <2>1. HomeArea \in SUBSET Positions /\ db' = [db EXCEPT !.zones[Home] = HomeArea]
        /\ zones' = db'.zones
    BY PersonAssumption DEF PersonAssumption, Restart
  <2>. QED
    BY <1>0, <2>1 DEF TablesOK
<1>2. zones' \in [Zones -> (SUBSET Positions) \cup {Absent}]
  BY <1>1 DEF TablesOK
<1>3. persons' \in [Persons -> Person \cup {Absent}]
  <2>1. PICK list :
          /\ \A p \in Persons : list[p] \in SetToSeqs(db.links[p])
          /\ persons' = [p \in Persons |->
               IF db.persons[p] = Absent THEN Absent
               ELSE [trackers |-> list[p], row |-> db.persons[p]]]
    BY DEF Restart
  <2>2. ASSUME NEW p \in Persons, db.persons[p] # Absent
        PROVE  [trackers |-> list[p], row |-> db.persons[p]] \in Person
    <3>1. db.links[p] \in SUBSET Devices /\ db.persons[p] \in Row
      BY <1>0, <2>2 DEF TablesOK
    <3>2. list[p] \in Seq(Devices)
      BY <2>1, <3>1, Listed
    <3>. QED
      BY <3>1, <3>2 DEF Person
  <2>. QED
    BY <2>1, <2>2
<1>4. fixes' \in [Devices -> Fix \cup {Absent}]
  <2>1. ASSUME NEW p \in Persons, NEW s \in Seeds(p) PROVE s.fix \in Fix
    <3>1. /\ db.persons[p] # Absent /\ db.persons[p].pos # None
          /\ s = [dev |-> db.persons[p].source,
                  fix |-> [pos |-> db.persons[p].pos, at |-> db.persons[p].at]]
      BY <2>1 DEF Seeds
    <3>2. db.persons[p] \in Row
      BY <1>0, <3>1 DEF TablesOK
    <3>3. db.persons[p].pos \in Positions /\ db.persons[p].at \in Nat
      BY <3>1, <3>2 DEF Row
    <3>. QED
      BY <3>1, <3>3 DEF Fix
  <2>2. PICK seeds : seeds = UNION {Seeds(p) : p \in Persons}
    OBVIOUS
  <2>3. fixes' \in [Devices -> {s.fix : s \in seeds} \cup {Absent}]
    BY <2>2 DEF Restart
  <2>4. {s.fix : s \in seeds} \subseteq Fix
    BY <2>1, <2>2
  <2>. QED
    BY <2>3, <2>4
<1>5. said' \in [Persons -> State \cup {Absent}]
  <2>1. said' = [p \in Persons |-> IF db.persons[p] = Absent THEN Absent ELSE db.persons[p].state]
    BY DEF Restart
  <2>2. \A p \in Persons : db.persons[p] \in Row \cup {Absent}
    BY <1>0 DEF TablesOK
  <2>. QED
    BY <2>1, <2>2 DEF Row
<1>6. clock' \in Nat /\ crowd' \in {"none", "home", "away"}
  BY <1>0 DEF Restart, MapsOK
<1>7. CallsOK' /\ LockInv' /\ Alone'
  <2>1. PICK k : k = [kind |-> "start", step |-> "deriveAll"]
    OBVIOUS
  <2>2. CallOK(k) /\ k.step = "deriveAll"
    BY <2>1 DEF CallOK
  <2>3. call' = [o \in Callers |-> IF o = c THEN k ELSE Idle] /\ lock' = None
    BY <2>1 DEF Restart
  <2>4. None \notin Callers
    BY PersonAssumption DEF PersonAssumption
  <2>5. CallsOK'
    BY <2>2, <2>3, IdleOK DEF CallsOK
  <2>6. LockInv'
    BY <2>2, <2>3, <2>4, IdleOK DEF LockInv
  <2>7. Alone'
    BY <2>3 DEF Alone
  <2>. QED
    BY <2>5, <2>6, <2>7
<1>. QED
  BY <1>1, <1>2, <1>3, <1>4, <1>5, <1>6, <1>7 DEF BaseInv, MapsOK

-----------------------------------------------------------------------------
\* Every map and every table holds whole records, and what a request holds has
\* the fields its step reads

LEMMA BaseInit == Init => BaseInv
<1>. SUFFICES ASSUME Init PROVE BaseInv
  OBVIOUS
<1>1. NewRow \in Row /\ "unknown" \in State
  BY DEF NewRow, Row, State
<1>2. [trackers |-> <<>>, row |-> NewRow] \in Person
  BY <1>1 DEF Person
<1>3. HomeArea \in SUBSET Positions /\ None \notin Callers
  BY PersonAssumption DEF PersonAssumption
<1>4. MapsOK
  <2>1. zones \in [Zones -> (SUBSET Positions) \cup {Absent}]
    BY <1>3 DEF Init
  <2>. QED
    BY <1>1, <1>2, <2>1 DEF Init, MapsOK
<1>5. TablesOK
  BY <1>1, <1>4 DEF Init, TablesOK, MapsOK
<1>6. CallsOK /\ LockInv /\ Alone
  BY <1>3, IdleOK DEF Init, CallsOK, LockInv, Alone
<1>. QED
  BY <1>4, <1>5, <1>6 DEF BaseInv

LEMMA BaseNext ==
  ASSUME BaseInv, [Next]_personVars
  PROVE  BaseInv'
<1>1. ASSUME NEW c \in Callers, Request(c) PROVE BaseInv'
  BY <1>1, LinkStepsBase, PersonStepsBase, ZoneStepsBase, Zenon DEF Request
<1>2. ASSUME NEW c \in Callers, Continue(c) PROVE BaseInv'
  BY <1>2, LinkStepsBase, FixStepsBase, DeriveReadsBase, LockStepsBase, PersonStepsBase,
     ZoneStepsBase, Zenon DEF Continue
<1>3. CASE UNCHANGED personVars
  BY <1>3 DEF personVars, memory, told, BaseInv, MapsOK, TablesOK, CallsOK, LockInv, Alone
<1>. QED
  BY <1>1, <1>2, <1>3, StoreFailsBase, DroppedBase, RestartBase DEF Next

\* Whatever requests, faults and restarts there are, the maps and tables hold
\* whole records, a snapshot has a coordinate, and whoever is in a derivation,
\* and nobody else, holds the derive lock.
THEOREM PersonsTypeCorrect == Spec => []PersonsTypeOK
<1>1. BaseInv => PersonsTypeOK
  BY DEF BaseInv, MapsOK, TablesOK, LockInv, PersonsTypeOK
<1>2. BaseInv /\ [Next]_personVars => BaseInv'
  BY BaseNext
<1>. QED
  BY <1>1, <1>2, BaseInit, PTL DEF Spec
-----------------------------------------------------------------------------
\* What is told, stored and counted, step by step

\* Nobody creates or updates a person while another request is under way.
Apart == Overlapping \cap {"create", "update"} = {}

Source(p) == persons[p].row.source

\* What a request has read is still so when it writes it.
Held(k) ==
  /\ k.step = "stateWrite" => k.new.state # k.old
  /\ k.step \in {"rowRead", "rowWrite", "history", "crowd"} /\ k.who \in Present =>
       k.new.state = StateOf(k.who)
  /\ k.step = "crowd" => "home" \in {k.old, k.new.state}
  /\ k.step = "rowWrite" /\ k.who \in Present =>
       k.row.state = StateOf(k.who) /\ k.row.source = Source(k.who)
  /\ k.step \in {"saveRow", "putPerson"} =>
       \/ k.rec.trackers = <<>> /\ k.rec.row.state = "unknown"
       \/ k.who \in Present /\ k.rec = persons[k.who]
  /\ k.step = "putPerson" => db.persons[k.who] = k.rec.row
  /\ k.step = "tell" => k.who \in Present /\ persons[k.who] = k.rec
  /\ k.step = "tellRemoved" => k.who \notin Present

HeldInv == \A c \in Callers : Held(call[c])

\* A person's state is told, or a request is about to tell it.
Telling(c, p) ==
  call[c].step \in {"rowRead", "rowWrite", "history", "tell"} /\ call[c].who = p

ToldInv ==
  \A p \in Present \ cut : said[p] = StateOf(p) \/ \E c \in Callers : Telling(c, p)

\* A person's row is current, or a request is about to store it or has removed it.
Current(p) ==
  /\ db.persons[p] # Absent
  /\ db.persons[p].state = StateOf(p)
  /\ db.persons[p].source = Source(p)

Storing(c, p) ==
  call[c].step \in {"rowRead", "rowWrite", "putPerson", "dropPerson"} /\ call[c].who = p

RowInv ==
  \A p \in Present \ cut : Current(p) \/ \E c \in Callers : Storing(c, p)

\* Whoever is home has been counted, or the derivation that found it home has
\* not come to that.
Arriving(c, p) ==
  /\ call[c].step \in {"rowRead", "rowWrite", "history", "crowd"}
  /\ call[c].who = p /\ call[c].old # "home"

CrowdInv ==
  faults = 0 => \A p \in AtHome : crowd = "home" \/ \E c \in Callers : Arriving(c, p)

TellInv == HeldInv /\ ToldInv /\ RowInv /\ CrowdInv

\* No person comes, and states and their sources stay as they are.
KeepsRows ==
  \A p \in Present' :
    /\ p \in Present
    /\ persons'[p].row.state = persons[p].row.state
    /\ persons'[p].row.source = persons[p].row.source

OthersStay(c) == \A o \in Callers \ {c} : call'[o] = call[o]

LEMMA Went ==
  ASSUME CallsOK, NEW c \in Callers, NEW k, GoTo(c, k)
  PROVE  call'[c] = k /\ OthersStay(c)
  BY DEF CallsOK, GoTo, OthersStay

\* Beside a request that creates or updates a person there is no other.
LEMMA NobodyElse ==
  ASSUME Apart, BaseInv, NEW c \in Callers, call[c].step \in PersonSteps
  PROVE  \A o \in Callers \ {c} : call[o] = Idle
<1>1. call[c].kind \in {"create", "update"} /\ call[c] # Idle
  BY DEF BaseInv, CallsOK, CallOK, Idle
<1>. QED
  BY <1>1 DEF BaseInv, Alone, Apart

\* What the other requests hold does not change under them: either no state and
\* no source changes, or the lock is held by the one that changes them.
LEMMA OthersHeld ==
  ASSUME Apart, BaseInv, BaseInv', HeldInv, NEW c \in Callers, OthersStay(c),
         call[c] # Idle \/ call'[c] # Idle,
         KeepsRows \/ (lock = c /\ Present' \subseteq Present)
                   \/ (\A o \in Callers \ {c} : call[o] = Idle),
         Held(call[c])'
  PROVE  HeldInv'
<1>. SUFFICES ASSUME NEW o \in Callers \ {c} PROVE Held(call[o])'
  BY DEF HeldInv
<1>1. call'[o] = call[o] /\ Held(call[o])
  BY DEF OthersStay, HeldInv
<1>2. CASE call[o] = Idle
  BY <1>1, <1>2 DEF Held, Idle
<1>3. CASE call[o] # Idle
  <2>1. call[o].step \notin PersonSteps
    <3>1. call[o].step \in PersonSteps => call[c] = Idle
      BY NobodyElse
    <3>2. call'[o].step \in PersonSteps => call'[c] = Idle
      <4>1. CASE call'[o].step \in PersonSteps
        <5>1. call'[o].kind \in {"create", "update"} /\ call'[o] # Idle
          BY <1>1, <4>1 DEF BaseInv, CallsOK, CallOK, Idle
        <5>. QED
          BY <5>1 DEF BaseInv, Alone, Apart
      <4>. QED
        BY <4>1
    <3>. QED
      BY <1>1, <3>1, <3>2
  <2>2. Present' \subseteq Present
    BY <1>3 DEF KeepsRows
  <2>3. call[o].step \in LockSteps => KeepsRows
    BY <1>3 DEF BaseInv, LockInv
  <2>4. call[o].step \in {"rowRead", "rowWrite", "history", "crowd"} /\ call[o].who \in Present' =>
          /\ call[o].who \in Present /\ StateOf(call[o].who)' = StateOf(call[o].who)
          /\ Source(call[o].who)' = Source(call[o].who)
    BY <1>1, <2>3 DEF KeepsRows, StateOf, Source
  <2>5. call'[o].step = call[o].step /\ call'[o].who = call[o].who /\ call'[o].new = call[o].new
        /\ call'[o].old = call[o].old /\ call'[o].row = call[o].row
    BY <1>1
  <2>. QED
    BY <1>1, <2>1, <2>2, <2>4, <2>5 DEF Held, StateOf, Source
<1>. QED
  BY <1>2, <1>3

\* The rest of the invariant, person by person.
LEMMA TellKept ==
  ASSUME TellInv, HeldInv', NEW c \in Callers, OthersStay(c),
         \A p \in Present' \ cut' :
           \/ said'[p] = StateOf(p)'
           \/ Telling(c, p)'
           \/ /\ p \in Present \ cut /\ ~ Telling(c, p)
              /\ said'[p] = said[p] /\ StateOf(p)' = StateOf(p),
         \A p \in Present' \ cut' :
           \/ Current(p)'
           \/ Storing(c, p)'
           \/ p \in Present \ cut /\ ~ Storing(c, p) /\ (Current(p) => Current(p)'),
         faults' = 0 => \A p \in AtHome' :
           \/ crowd' = "home"
           \/ Arriving(c, p)'
           \/ faults = 0 /\ p \in AtHome /\ ~ Arriving(c, p) /\ crowd' = crowd
  PROVE  TellInv'
<1>1. ASSUME NEW p, NEW o \in Callers
      PROVE  /\ Telling(o, p) => Telling(o, p)' \/ Telling(c, p)
             /\ Storing(o, p) => Storing(o, p)' \/ Storing(c, p)
             /\ Arriving(o, p) => Arriving(o, p)' \/ Arriving(c, p)
  <2>1. CASE o = c
    BY <2>1
  <2>2. CASE o # c
    <3>1. call'[o] = call[o]
      BY <2>2 DEF OthersStay
    <3>. QED
      BY <3>1 DEF Telling, Storing, Arriving
  <2>. QED
    BY <2>1, <2>2
<1>2. ToldInv'
  BY <1>1 DEF TellInv, ToldInv
<1>3. RowInv'
  BY <1>1 DEF TellInv, RowInv
<1>4. CrowdInv'
  BY <1>1 DEF TellInv, CrowdInv
<1>. QED
  BY <1>2, <1>3, <1>4 DEF TellInv

-----------------------------------------------------------------------------
\* Steps that tell, store and count nothing

Plain(c) ==
  /\ OthersStay(c) /\ (call[c] # Idle \/ call'[c] # Idle)
  /\ call[c].step \notin LockSteps \cup PersonSteps \cup RemoveSteps
  /\ call'[c].step \notin {"rowRead", "rowWrite", "history", "crowd", "putPerson", "tell"}
                          \cup RemoveSteps
  /\ call'[c].step = "stateWrite" => call'[c].new.state # call'[c].old
  /\ call'[c].step = "saveRow" =>
       \/ call'[c].rec.trackers = <<>> /\ call'[c].rec.row.state = "unknown"
       \/ call'[c].who \in Present /\ call'[c].rec = persons[call'[c].who] /\ persons' = persons
  /\ KeepsRows
  /\ UNCHANGED <<db.persons, said, crowd, cut, faults>>

LEMMA PlainKeeps ==
  ASSUME Apart, BaseInv, BaseInv', TellInv, NEW c \in Callers, Plain(c)
  PROVE  TellInv'
<1>1. Held(call[c])'
  <2>1. persons' = persons => Present' = Present
    BY DEF Present
  <2>. QED
    BY <2>1 DEF Plain, Held
<1>2. HeldInv'
  BY <1>1, OthersHeld DEF Plain, TellInv
<1>3. ASSUME NEW p
      PROVE  ~ Telling(c, p) /\ ~ Storing(c, p) /\ ~ Arriving(c, p)
  BY DEF Plain, Telling, Storing, Arriving
<1>4. ASSUME NEW p \in Present'
      PROVE  p \in Present /\ StateOf(p)' = StateOf(p) /\ (Current(p) => Current(p)')
  BY DEF Plain, KeepsRows, StateOf, Source, Current
<1>5. \A p \in AtHome' : p \in AtHome
  BY <1>4 DEF AtHome
<1>. QED
  BY <1>2, <1>3, <1>4, <1>5, TellKept DEF Plain

\* A step to a request that tells nothing, of one that told nothing.
PlainSteps == {"idle", "derive"} \cup LinkSteps \cup IngestSteps \cup ZoneSteps
              \cup {"fixWrite", "deriveAll", "dropZone"}

LEMMA PlainMove ==
  ASSUME BaseInv, NEW c \in Callers, NEW k, GoTo(c, k), call[c].step \in PlainSteps,
         k.step \in PlainSteps, call[c] # Idle \/ k # Idle,
         KeepsRows, UNCHANGED <<db.persons, said, crowd, cut, faults>>
  PROVE  Plain(c)
<1>1. call'[c] = k /\ OthersStay(c)
  BY Went DEF BaseInv
<1>. QED
  BY <1>1 DEF Plain, PlainSteps

LEMMA SameRows ==
  ASSUME UNCHANGED persons
  PROVE  KeepsRows
  BY DEF KeepsRows, Present

LEMMA LinkStepsPlain ==
  ASSUME BaseInv, NEW c \in Callers,
         \/ \E link \in Links :
              \/ \E x \in Positions : IngestLooks(c, link[1], link[2], x)
              \/ LinkReads(c, link[1], link[2]) \/ UnlinkReads(c, link[1], link[2])
         \/ IngestLinked(c) \/ IngestReadsLinks(c) \/ ClearRows(c) \/ InsertRow(c) \/ LinkWrite(c)
  PROVE  Plain(c)
<1>0. MapsOK /\ TablesOK /\ CallsOK /\ CallOK(call[c]) /\ Idle.step = "idle"
  BY DEF BaseInv, CallsOK, Idle
<1>1. ASSUME KeepMemory, KeepRest
      PROVE  KeepsRows /\ UNCHANGED <<said, crowd, cut>>
  BY <1>1, SameRows DEF KeepMemory, KeepRest, memory, told, ghosts
<1>2. ASSUME NEW link \in Links, NEW x \in Positions, IngestLooks(c, link[1], link[2], x)
      PROVE  Plain(c)
  <2>1. PICK k : k = [kind |-> "ingest", who |-> link[1], dev |-> link[2], pos |-> x,
                      step |-> "isLinked"]
    OBVIOUS
  <2>2. k.step = "isLinked" /\ k # Idle
    BY <1>0, <2>1
  <2>3. /\ GoTo(c, k) /\ KeepMemory /\ KeepRest /\ UNCHANGED <<db, faults>>
        /\ call[c].step = "idle"
    BY <1>2, <2>1, Begun DEF IngestLooks, Begin
  <2>. QED
    BY <1>1, <2>2, <2>3, PlainMove DEF PlainSteps
<1>3. ASSUME NEW kind, NEW p, NEW d, NEW list, Relink(c, kind, p, d, list)
      PROVE  Plain(c)
  <2>1. PICK k : k = Rewriting([kind |-> kind, who |-> p, dev |-> d, pos |-> None], list)
    OBVIOUS
  <2>2. k.step = "clearRows" /\ k # Idle
    BY <1>0, <2>1 DEF Rewriting
  <2>3. /\ GoTo(c, k) /\ KeepMemory /\ KeepRest /\ UNCHANGED <<db, faults>>
        /\ call[c].step = "idle"
    BY <1>3, <2>1, Begun DEF Relink, Begin
  <2>. QED
    BY <1>1, <2>2, <2>3, PlainMove DEF PlainSteps
<1>4. ASSUME NEW link \in Links, LinkReads(c, link[1], link[2]) \/ UnlinkReads(c, link[1], link[2])
      PROVE  Plain(c)
  BY <1>3, <1>4 DEF LinkReads, UnlinkReads
<1>5. CASE IngestLinked(c)
  <2>1. PICK s \in {"handle", "readLinks"} : GoTo(c, [call[c] EXCEPT !.step = s])
    BY <1>5 DEF IngestLinked
  <2>2. [call[c] EXCEPT !.step = s].step = s
    BY <1>0 DEF CallOK
  <2>3. call[c].step = "isLinked" /\ KeepMemory /\ KeepRest /\ UNCHANGED <<db, faults>>
    BY <1>5 DEF IngestLinked, At
  <2>. QED
    BY <1>0, <1>1, <2>1, <2>2, <2>3, PlainMove DEF PlainSteps
<1>6. CASE IngestReadsLinks(c)
  <2>1. PICK list : GoTo(c, Rewriting(call[c], list))
    BY <1>6 DEF IngestReadsLinks
  <2>2. Rewriting(call[c], list).step = "clearRows"
    BY DEF Rewriting
  <2>3. call[c].step = "readLinks" /\ KeepMemory /\ KeepRest /\ UNCHANGED <<db, faults>>
    BY <1>6 DEF IngestReadsLinks, At
  <2>. QED
    BY <1>0, <1>1, <2>1, <2>2, <2>3, PlainMove DEF PlainSteps
<1>7. CASE ClearRows(c)
  <2>1. [call[c] EXCEPT !.step = "insertRows"].step = "insertRows"
    BY <1>0 DEF CallOK
  <2>2. /\ call[c].step = "clearRows" /\ KeepMemory /\ KeepRest /\ UNCHANGED faults
        /\ GoTo(c, [call[c] EXCEPT !.step = "insertRows"])
    BY <1>7 DEF ClearRows, At
  <2>3. UNCHANGED db.persons
    BY <1>0, <1>7 DEF ClearRows, TablesOK
  <2>. QED
    BY <1>0, <1>1, <2>1, <2>2, <2>3, PlainMove DEF PlainSteps
<1>8. CASE InsertRow(c)
  <2>1. /\ call[c].step = "insertRows" /\ KeepMemory /\ KeepRest /\ UNCHANGED faults
        /\ \/ GoTo(c, Idle)
           \/ GoTo(c, [call[c] EXCEPT !.step = "linkWrite"])
           \/ GoTo(c, [call[c] EXCEPT !.left = Tail(@)])
    BY <1>8 DEF InsertRow, At
  <2>2. [call[c] EXCEPT !.step = "linkWrite"].step = "linkWrite"
        /\ [call[c] EXCEPT !.left = Tail(@)].step = "insertRows"
    BY <1>0, <2>1 DEF CallOK
  <2>3. UNCHANGED db.persons
    BY <1>0, <1>8 DEF InsertRow, TablesOK
  <2>. QED
    BY <1>0, <1>1, <2>1, <2>2, <2>3, PlainMove DEF PlainSteps
<1>9. CASE LinkWrite(c)
  <2>1. call[c].step = "linkWrite" /\ KeepRest /\ UNCHANGED <<zones, fixes, db, faults>>
    BY <1>9 DEF LinkWrite, At
  <2>2. \E k : GoTo(c, k) /\ k.step \in PlainSteps
    <3>1. CASE call[c].kind = "ingest"
      <4>1. [kind |-> "ingest", step |-> "handle", who |-> call[c].who,
             dev |-> call[c].dev, pos |-> call[c].pos].step = "handle"
        OBVIOUS
      <4>. QED
        BY <1>9, <3>1, <4>1 DEF LinkWrite, PlainSteps
    <3>2. CASE call[c].kind # "ingest"
      <4>1. DeriveNext(c, {call[c].who} \cap Present) /\ {call[c].who} \cap Present \in SUBSET Persons
        BY <1>9, <3>2 DEF LinkWrite, Present
      <4>2. PICK k : GoTo(c, k) /\ k.step \in {"idle", "derive"}
        BY <4>1, NextOK
      <4>. QED
        BY <4>2 DEF PlainSteps
    <3>. QED
      BY <3>1, <3>2
  <2>3. KeepsRows
    <3>1. CASE call[c].who \in Present
      <4>1. persons[call[c].who] \in Person /\ call[c].who \in Persons
        BY <1>0, <3>1, TrackersType
      <4>2. PICK q : q = [persons[call[c].who] EXCEPT !.trackers = call[c].list]
        OBVIOUS
      <4>3. q.row = persons[call[c].who].row
        BY <4>1, <4>2 DEF Person
      <4>4. persons' = [persons EXCEPT ![call[c].who] = q]
        BY <1>9, <3>1, <4>2 DEF LinkWrite
      <4>. QED
        BY <1>0, <3>1, <4>1, <4>3, <4>4 DEF KeepsRows, Present, MapsOK
    <3>. QED
      BY <1>9, <3>1, SameRows DEF LinkWrite
  <2>. QED
    BY <1>0, <2>1, <2>2, <2>3, PlainMove DEF PlainSteps, KeepRest, told, ghosts
<1>. QED
  BY <1>2, <1>4, <1>5, <1>6, <1>7, <1>8, <1>9

LEMMA OtherStepsPlain ==
  ASSUME BaseInv, NEW c \in Callers,
         \/ HandleReads(c) \/ FixWrite(c) \/ DeriveAll(c)
         \/ \E z \in Zones : RemoveZone(c, z) \/ \E area \in Areas :
              CreateZone(c, z, area) \/ UpdateZone(c, z, area)
         \/ ZoneRow(c) \/ PutZone(c) \/ DropZone(c)
  PROVE  Plain(c)
<1>0. MapsOK /\ TablesOK /\ CallsOK /\ CallOK(call[c]) /\ Idle.step = "idle"
  BY DEF BaseInv, CallsOK, Idle
<1>1. UNCHANGED <<persons, db.persons, said, crowd, cut, faults>>
  BY <1>0 DEF HandleReads, FixWrite, DeriveAll, RemoveZone, CreateZone, UpdateZone, SaveZone, ZoneRow,
     PutZone, DropZone, At, Begin, KeepMemory, KeepRest, memory, told, ghosts, TablesOK
<1>2. \E k : GoTo(c, k) /\ k.step \in PlainSteps /\ (call[c] # Idle \/ k # Idle)
             /\ call[c].step \in PlainSteps
  <2>1. CASE HandleReads(c)
    BY <1>0, <2>1 DEF HandleReads, At, PlainSteps
  <2>2. CASE FixWrite(c) \/ DeriveAll(c)
    <3>1. PICK todo \in SUBSET Persons : DeriveNext(c, todo) /\ call[c].step \in {"fixWrite", "deriveAll"}
      BY <1>0, <2>2 DEF FixWrite, DeriveAll, At, CallOK, Present, Idle
    <3>2. PICK k : GoTo(c, k) /\ k.step \in {"idle", "derive"}
      BY <3>1, NextOK
    <3>. QED
      BY <1>0, <3>1, <3>2 DEF PlainSteps
  <2>3. ASSUME NEW z \in Zones, RemoveZone(c, z)
        PROVE  \E k : GoTo(c, k) /\ k.step \in PlainSteps /\ (call[c] # Idle \/ k # Idle)
                     /\ call[c].step \in PlainSteps
    BY <1>0, <2>3, Begun DEF RemoveZone, PlainSteps
  <2>4. ASSUME NEW z \in Zones, NEW area \in Areas, CreateZone(c, z, area) \/ UpdateZone(c, z, area)
        PROVE  \E k : GoTo(c, k) /\ k.step \in PlainSteps /\ (call[c] # Idle \/ k # Idle)
                     /\ call[c].step \in PlainSteps
    BY <1>0, <2>4, Begun DEF CreateZone, UpdateZone, SaveZone, PlainSteps
  <2>5. CASE ZoneRow(c)
    <3>1. [call[c] EXCEPT !.step = "putZone"].step = "putZone"
      BY <1>0 DEF CallOK
    <3>. QED
      BY <1>0, <2>5, <3>1 DEF ZoneRow, At, PlainSteps
  <2>6. CASE PutZone(c) \/ DropZone(c)
    BY <1>0, <2>6 DEF PutZone, DropZone, At, PlainSteps
  <2>. QED
    BY <2>1, <2>2, <2>3, <2>4, <2>5, <2>6
<1>. QED
  BY <1>1, <1>2, SameRows, PlainMove

LEMMA DeriveReadsPlain ==
  ASSUME BaseInv, NEW c \in Callers, DeriveReads(c)
  PROVE  Plain(c)
<1>0. MapsOK /\ TablesOK /\ CallsOK /\ CallOK(call[c]) /\ Idle.step = "idle"
  BY DEF BaseInv, CallsOK, Idle
<1>1. /\ call[c].step = "derive" /\ call[c].todo \subseteq Persons
      /\ UNCHANGED <<persons, db.persons, said, crowd, cut, faults>>
  BY <1>0 DEF DeriveReads, At, CallOK, KeepMemory, memory, told
<1>2. PICK p \in call[c].todo :
        \/ p \notin Present /\ DeriveNext(c, call[c].todo \ {p})
        \/ \E new \in Derived(p) :
             GoTo(c, Deriving(call[c], IF new.state # StateOf(p)
                                         THEN "stateWrite" ELSE "drift", p, new))
  BY DEF DeriveReads
<1>3. CASE DeriveNext(c, call[c].todo \ {p})
  <2>1. PICK k : GoTo(c, k) /\ k.step \in {"idle", "derive"}
    BY <1>1, <1>3, NextOK
  <2>. QED
    BY <1>0, <1>1, <2>1, SameRows, PlainMove DEF PlainSteps
<1>4. CASE \E new \in Derived(p) :
             GoTo(c, Deriving(call[c], IF new.state # StateOf(p)
                                         THEN "stateWrite" ELSE "drift", p, new))
  <2>1. PICK new : GoTo(c, Deriving(call[c], IF new.state # StateOf(p)
                                               THEN "stateWrite" ELSE "drift", p, new))
    BY <1>4
  <2>2. PICK k : k = Deriving(call[c], IF new.state # StateOf(p)
                                         THEN "stateWrite" ELSE "drift", p, new)
    OBVIOUS
  <2>3. call'[c] = k /\ OthersStay(c)
    BY <1>0, <2>1, <2>2, Went
  <2>4. k.step \in {"stateWrite", "drift"} /\ k.new = new /\ k.old = StateOf(p)
        /\ (k.step = "stateWrite" => new.state # StateOf(p))
    BY <2>2 DEF Deriving
  <2>5. KeepsRows
    BY <1>1, SameRows
  <2>. QED
    BY <1>0, <1>1, <2>3, <2>4, <2>5 DEF Plain
<1>. QED
  BY <1>2, <1>3, <1>4

LEMMA SavePersonPlain ==
  ASSUME BaseInv, NEW c \in Callers, NEW p \in Persons, CreatePerson(c, p) \/ UpdatePerson(c, p)
  PROVE  Plain(c)
<1>0. CallsOK /\ Idle.step = "idle"
  BY DEF BaseInv, Idle
<1>1. PICK kind, rec :
        /\ SavePerson(c, kind, p, rec)
        /\ \/ rec.trackers = <<>> /\ rec.row.state = "unknown"
           \/ p \in Present /\ rec = persons[p]
  <2>1. CASE CreatePerson(c, p)
    <3>1. PICK rec : rec = [trackers |-> <<>>, row |-> [NewRow EXCEPT !.at = clock]]
      OBVIOUS
    <3>2. rec.trackers = <<>> /\ rec.row.state = "unknown"
      BY <3>1 DEF NewRow
    <3>. QED
      BY <2>1, <3>1, <3>2 DEF CreatePerson
  <2>. QED
    BY <2>1 DEF UpdatePerson
<1>2. PICK k : k = [kind |-> kind, step |-> "saveRow", who |-> p, rec |-> rec]
  OBVIOUS
<1>3. GoTo(c, k) /\ KeepMemory /\ KeepRest /\ UNCHANGED <<db, faults>> /\ call[c] = Idle
  BY <1>1, <1>2 DEF SavePerson, Begin
<1>4. call'[c] = k /\ OthersStay(c)
  BY <1>0, <1>3, Went
<1>5. k.step = "saveRow" /\ k.who = p /\ k.rec = rec
  BY <1>2
<1>6. UNCHANGED <<persons, said, crowd, cut>> /\ KeepsRows
  BY <1>3, SameRows DEF KeepMemory, KeepRest, memory, told, ghosts
<1>. QED
  BY <1>0, <1>1, <1>3, <1>4, <1>5, <1>6 DEF Plain

-----------------------------------------------------------------------------
\* The steps of a derivation

\* What a request holds that has released the lock.
LEMMA Released ==
  ASSUME BaseInv, NEW c \in Callers, call[c].step \in LockSteps, Release(c)
  PROVE  /\ OthersStay(c) /\ call[c] # Idle /\ lock = c /\ call[c].who \in Persons
         /\ call'[c].step \in {"idle", "derive"}
<1>0. CallsOK /\ CallOK(call[c]) /\ lock = c
  BY DEF BaseInv, CallsOK, LockInv
<1>1. call[c].todo \subseteq Persons /\ call[c].who \in Persons /\ call[c] # Idle
  BY <1>0 DEF CallOK, Idle
<1>2. PICK k : GoTo(c, k) /\ k.step \in {"idle", "derive"}
  BY <1>1, NextOK DEF Release
<1>. QED
  BY <1>0, <1>1, <1>2, Went

\* The next step of a derivation.
LEMMA Stepped ==
  ASSUME BaseInv, NEW c \in Callers, call[c].step \in LockSteps, NEW s \in LockSteps,
         GoTo(c, [call[c] EXCEPT !.step = s])
  PROVE  /\ OthersStay(c) /\ call[c] # Idle /\ lock = c /\ call[c].who \in Persons
         /\ call'[c].step = s /\ call'[c].who = call[c].who /\ call'[c].old = call[c].old
         /\ call'[c].new = call[c].new /\ call'[c].row = call[c].row
<1>0. CallsOK /\ CallOK(call[c]) /\ lock = c
  BY DEF BaseInv, CallsOK, LockInv
<1>1. PICK k : k = [call[c] EXCEPT !.step = s]
  OBVIOUS
<1>2. k.step = s /\ k.who = call[c].who /\ k.old = call[c].old /\ k.new = call[c].new
      /\ k.row = call[c].row
  BY <1>0, <1>1, LockStepOK
<1>3. call[c].who \in Persons /\ call[c] # Idle
  BY <1>0 DEF CallOK, Idle
<1>. QED
  BY <1>0, <1>1, <1>2, <1>3, Went

LEMMA DriftKeeps ==
  ASSUME Apart, BaseInv, BaseInv', TellInv, NEW c \in Callers, Drift(c)
  PROVE  TellInv'
<1>1. call[c].step = "drift" /\ UNCHANGED <<db, said, crowd, cut, faults>>
  BY DEF Drift, At, told, ghosts
<1>2. OthersStay(c) /\ call[c] # Idle /\ call'[c].step \in {"idle", "derive"}
  BY <1>1, Released DEF Drift
<1>3. KeepsRows
  <2>1. CASE call[c].new.pos # None /\ call[c].who \in Present
    <3>1. persons[call[c].who] \in Person /\ call[c].who \in Persons
      BY <2>1, TrackersType DEF BaseInv
    <3>2. PICK q : q = [persons[call[c].who] EXCEPT !.row.pos = call[c].new.pos,
                                                    !.row.at = call[c].new.at]
      OBVIOUS
    <3>3. q.row.state = persons[call[c].who].row.state /\ q.row.source = persons[call[c].who].row.source
      BY <3>1, <3>2 DEF Person, Row
    <3>4. persons' = [persons EXCEPT ![call[c].who] = q]
      BY <2>1, <3>2 DEF Drift
    <3>. QED
      BY <2>1, <3>1, <3>3, <3>4 DEF KeepsRows, Present, BaseInv, MapsOK
  <2>. QED
    BY <2>1, SameRows DEF Drift
<1>4. HeldInv'
  <2>1. Held(call[c])'
    BY <1>2 DEF Held
  <2>. QED
    BY <1>2, <1>3, <2>1, OthersHeld DEF TellInv
<1>5. \A p : ~ Telling(c, p) /\ ~ Storing(c, p) /\ ~ Arriving(c, p)
  BY <1>1 DEF Telling, Storing, Arriving
<1>6. \A p \in Present' : p \in Present /\ StateOf(p)' = StateOf(p) /\ (Current(p) => Current(p)')
  BY <1>1, <1>3 DEF KeepsRows, StateOf, Source, Current
<1>7. \A p \in AtHome' : p \in AtHome
  BY <1>6 DEF AtHome
<1>. QED
  BY <1>1, <1>2, <1>4, <1>5, <1>6, <1>7, TellKept

LEMMA StateWriteKeeps ==
  ASSUME Apart, BaseInv, BaseInv', TellInv, NEW c \in Callers, StateWrite(c)
  PROVE  TellInv'
<1>0. PICK w : w = call[c].who
  OBVIOUS
<1>1. /\ call[c].step = "stateWrite" /\ UNCHANGED <<db, said, crowd, faults>>
      /\ cut' = cut \ {w} /\ GoTo(c, [call[c] EXCEPT !.step = "rowRead"])
  BY <1>0 DEF StateWrite, At, told
<1>2. /\ OthersStay(c) /\ call[c] # Idle /\ lock = c /\ w \in Persons
      /\ call'[c].step = "rowRead" /\ call'[c].who = w /\ call'[c].old = call[c].old
      /\ call'[c].new = call[c].new
  BY <1>0, <1>1, Stepped
<1>3. call[c].new.state # call[c].old
  BY <1>1 DEF TellInv, HeldInv, Held
<1>4. /\ Present' \subseteq Present
      /\ w \in Present' => StateOf(w)' = call[c].new.state
      /\ \A p \in Present' \ {w} : persons'[p] = persons[p]
  <2>1. CASE w \in Present
    <3>1. persons[w] \in Person
      BY <2>1, TrackersType DEF BaseInv
    <3>2. PICK q : q = [persons[w] EXCEPT !.row = call[c].new]
      OBVIOUS
    <3>3. q.row = call[c].new
      BY <3>1, <3>2 DEF Person
    <3>4. persons' = [persons EXCEPT ![w] = q]
      BY <1>0, <2>1, <3>2 DEF StateWrite
    <3>. QED
      BY <1>2, <2>1, <3>3, <3>4 DEF Present, StateOf, BaseInv, MapsOK
  <2>2. CASE w \notin Present
    BY <1>0, <2>2 DEF StateWrite, Present
  <2>. QED
    BY <2>1, <2>2
<1>5. HeldInv'
  <2>1. Held(call[c])'
    BY <1>2, <1>4 DEF Held
  <2>. QED
    BY <1>2, <1>4, <2>1, OthersHeld DEF TellInv
<1>6. Telling(c, w)' /\ Storing(c, w)'
  BY <1>2 DEF Telling, Storing
<1>7. ASSUME NEW p \in Present' \ {w}
      PROVE  /\ p \in Present /\ StateOf(p)' = StateOf(p) /\ (Current(p) => Current(p)')
             /\ ~ Telling(c, p) /\ ~ Storing(c, p) /\ ~ Arriving(c, p) /\ said'[p] = said[p]
             /\ p \notin cut' => p \notin cut
  BY <1>0, <1>1, <1>4, <1>7 DEF StateOf, Source, Current, Telling, Storing, Arriving
<1>8. \A p \in AtHome' \ {w} : p \in AtHome
  BY <1>7 DEF AtHome
<1>9. w \in AtHome' => Arriving(c, w)'
  BY <1>2, <1>3, <1>4 DEF AtHome, Arriving
<1>10. \A p \in AtHome' : p \in Present'
  BY DEF AtHome
<1>. QED
  BY <1>1, <1>2, <1>5, <1>6, <1>7, <1>8, <1>9, <1>10, TellKept

\* Steps that leave the persons alone.
LEMMA SamePersons ==
  ASSUME UNCHANGED persons
  PROVE  /\ KeepsRows /\ Present' = Present /\ AtHome' = AtHome
         /\ \A p : StateOf(p)' = StateOf(p) /\ Source(p)' = Source(p)
         /\ UNCHANGED db => \A p : Current(p)' = Current(p)
  BY DEF KeepsRows, Present, AtHome, StateOf, Source, Current

LEMMA RowReadKeeps ==
  ASSUME Apart, BaseInv, BaseInv', TellInv, NEW c \in Callers, RowRead(c)
  PROVE  TellInv'
<1>0. PICK w : w = call[c].who
  OBVIOUS
<1>1. call[c].step = "rowRead" /\ UNCHANGED <<persons, db, said, crowd, cut, faults>>
  BY DEF RowRead, At, KeepMemory, KeepRest, memory, told, ghosts
<1>2. /\ KeepsRows /\ Present' = Present /\ AtHome' = AtHome
      /\ \A p : StateOf(p)' = StateOf(p) /\ Source(p)' = Source(p) /\ Current(p)' = Current(p)
  BY <1>1, SamePersons
<1>3. /\ OthersStay(c) /\ call[c] # Idle
      /\ call'[c].step \in {"rowWrite", "history"} /\ call'[c].who = w
      /\ call'[c].old = call[c].old /\ call'[c].new = call[c].new
      /\ w \in Present => call'[c].step = "rowWrite" /\ call'[c].row = persons[w].row
  <2>1. CASE w \notin Present
    BY <1>0, <1>1, <2>1, Stepped DEF RowRead
  <2>2. CASE w \in Present
    <3>1. PICK k : k = [call[c] EXCEPT !.step = "rowWrite", !.row = persons[w].row]
      OBVIOUS
    <3>2. GoTo(c, k)
      BY <1>0, <2>2, <3>1 DEF RowRead
    <3>3. call'[c] = k /\ OthersStay(c)
      BY <3>2, Went DEF BaseInv
    <3>4. CallOK(call[c])
      BY DEF BaseInv, CallsOK
    <3>5. /\ k.step = "rowWrite" /\ k.who = w /\ k.old = call[c].old /\ k.new = call[c].new
          /\ k.row = persons[w].row /\ call[c] # Idle
      BY <1>0, <1>1, <3>1, <3>4 DEF CallOK, Idle
    <3>. QED
      BY <2>2, <3>3, <3>5
  <2>. QED
    BY <2>1, <2>2
<1>4. HeldInv'
  <2>1. w \in Present => call[c].new.state = StateOf(w)
    BY <1>0, <1>1 DEF TellInv, HeldInv, Held
  <2>2. Held(call[c])'
    BY <1>2, <1>3, <2>1 DEF Held, StateOf, Source
  <2>. QED
    BY <1>2, <1>3, <2>2, OthersHeld DEF TellInv
<1>5. Telling(c, w)' /\ (w \in Present => Storing(c, w)')
  BY <1>3 DEF Telling, Storing
<1>6. \A p : p # w => ~ Telling(c, p) /\ ~ Storing(c, p) /\ ~ Arriving(c, p)
  BY <1>0, <1>1 DEF Telling, Storing, Arriving
<1>7. Arriving(c, w) => Arriving(c, w)'
  BY <1>3 DEF Arriving
<1>8. AtHome \subseteq Present
  BY DEF AtHome
<1>. QED
  BY <1>1, <1>2, <1>3, <1>4, <1>5, <1>6, <1>7, <1>8, TellKept

LEMMA RowWriteKeeps ==
  ASSUME Apart, BaseInv, BaseInv', TellInv, NEW c \in Callers, RowWrite(c)
  PROVE  TellInv'
<1>0. PICK w : w = call[c].who
  OBVIOUS
<1>1. /\ call[c].step = "rowWrite" /\ UNCHANGED <<persons, said, crowd, cut, faults>>
      /\ GoTo(c, [call[c] EXCEPT !.step = "history"])
      /\ db' = [db EXCEPT !.persons[w] = call[c].row]
  BY <1>0 DEF RowWrite, At, KeepMemory, KeepRest, memory, told, ghosts
<1>2. /\ KeepsRows /\ Present' = Present /\ AtHome' = AtHome
      /\ \A p : StateOf(p)' = StateOf(p) /\ Source(p)' = Source(p)
  BY <1>1, SamePersons
<1>3. /\ OthersStay(c) /\ call[c] # Idle /\ w \in Persons
      /\ call'[c].step = "history" /\ call'[c].who = w
      /\ call'[c].old = call[c].old /\ call'[c].new = call[c].new
  BY <1>0, <1>1, Stepped
<1>4. w \in Present =>
        /\ call[c].new.state = StateOf(w)
        /\ call[c].row.state = StateOf(w) /\ call[c].row.source = Source(w)
  BY <1>0, <1>1 DEF TellInv, HeldInv, Held
<1>5. HeldInv'
  <2>1. Held(call[c])'
    BY <1>2, <1>3, <1>4 DEF Held
  <2>. QED
    BY <1>2, <1>3, <2>1, OthersHeld DEF TellInv
<1>6. /\ db'.persons[w] = call[c].row /\ call[c].row # Absent
      /\ \A p \in Persons \ {w} : db'.persons[p] = db.persons[p]
  <2>1. call[c].row \in Row
    BY <1>1 DEF BaseInv, CallsOK, CallOK, Idle
  <2>. QED
    BY <1>1, <1>3, <2>1, AbsentAssumption DEF BaseInv, TablesOK
<1>7. (w \in Present => Current(w)') /\ \A p \in Present \ {w} : Current(p)' = Current(p)
  BY <1>2, <1>4, <1>6 DEF Current, Present
<1>8. Telling(c, w)' /\ (Arriving(c, w) => Arriving(c, w)')
  BY <1>3 DEF Telling, Arriving
<1>9. \A p : p # w => ~ Telling(c, p) /\ ~ Storing(c, p) /\ ~ Arriving(c, p)
  BY <1>0, <1>1 DEF Telling, Storing, Arriving
<1>. QED
  BY <1>1, <1>2, <1>3, <1>5, <1>7, <1>8, <1>9, TellKept

LEMMA AnnounceKeeps ==
  ASSUME Apart, BaseInv, BaseInv', TellInv, NEW c \in Callers, Announce(c)
  PROVE  TellInv'
<1>0. PICK w : w = call[c].who
  OBVIOUS
<1>1. /\ call[c].step = "history" /\ UNCHANGED <<persons, db, crowd, cut, faults>>
      /\ said' = [said EXCEPT ![w] = call[c].new.state]
      /\ \/ /\ "home" \in {call[c].old, call[c].new.state}
            /\ GoTo(c, [call[c] EXCEPT !.step = "crowd"])
         \/ /\ "home" \notin {call[c].old, call[c].new.state}
            /\ Release(c)
  BY <1>0 DEF Announce, At, KeepMemory, memory, ghosts
<1>2. /\ KeepsRows /\ Present' = Present /\ AtHome' = AtHome
      /\ \A p : StateOf(p)' = StateOf(p) /\ Source(p)' = Source(p) /\ Current(p)' = Current(p)
  BY <1>1, SamePersons
<1>3. w \in Present => call[c].new.state = StateOf(w)
  BY <1>0, <1>1 DEF TellInv, HeldInv, Held
<1>4. /\ OthersStay(c) /\ call[c] # Idle /\ w \in Persons
      /\ \/ call'[c].step \in {"idle", "derive"} /\ call[c].new.state # "home"
         \/ /\ call'[c].step = "crowd" /\ call'[c].who = w
            /\ call'[c].old = call[c].old /\ call'[c].new = call[c].new
            /\ "home" \in {call[c].old, call[c].new.state}
  BY <1>0, <1>1, Released, Stepped
<1>5. HeldInv'
  <2>1. Held(call[c])'
    BY <1>2, <1>3, <1>4 DEF Held
  <2>. QED
    BY <1>2, <1>4, <2>1, OthersHeld DEF TellInv
<1>6. /\ w \in Present => said'[w] = StateOf(w)
      /\ \A p \in Present \ {w} : said'[p] = said[p]
  BY <1>1, <1>3, <1>4 DEF BaseInv, MapsOK, Present
<1>7. \A p : /\ ~ Storing(c, p)
             /\ p # w => ~ Telling(c, p) /\ ~ Arriving(c, p)
  BY <1>0, <1>1 DEF Telling, Storing, Arriving
<1>8. w \in AtHome /\ Arriving(c, w) => Arriving(c, w)'
  BY <1>3, <1>4 DEF AtHome, Arriving
<1>9. AtHome \subseteq Present
  BY DEF AtHome
<1>. QED
  BY <1>1, <1>2, <1>4, <1>5, <1>6, <1>7, <1>8, <1>9, TellKept

LEMMA CrowdKeeps ==
  ASSUME Apart, BaseInv, BaseInv', TellInv, NEW c \in Callers, Crowd(c)
  PROVE  TellInv'
<1>0. PICK w : w = call[c].who
  OBVIOUS
<1>1. /\ call[c].step = "crowd" /\ UNCHANGED <<persons, db, said, cut, faults>> /\ Release(c)
      /\ crowd' = IF AtHome \ {w} # {} THEN crowd
                  ELSE IF call[c].new.state = "home" THEN "home" ELSE "away"
  BY <1>0 DEF Crowd, At, KeepMemory, memory, ghosts
<1>2. /\ KeepsRows /\ Present' = Present /\ AtHome' = AtHome
      /\ \A p : StateOf(p)' = StateOf(p) /\ Source(p)' = Source(p) /\ Current(p)' = Current(p)
  BY <1>1, SamePersons
<1>3. w \in Present => call[c].new.state = StateOf(w)
  BY <1>0, <1>1 DEF TellInv, HeldInv, Held
<1>4. OthersStay(c) /\ call[c] # Idle /\ lock = c /\ call'[c].step \in {"idle", "derive"}
  BY <1>1, Released
<1>5. HeldInv'
  <2>1. Held(call[c])'
    BY <1>4 DEF Held
  <2>. QED
    BY <1>2, <1>4, <2>1, OthersHeld DEF TellInv
<1>6. \A p : /\ ~ Storing(c, p) /\ ~ Telling(c, p)
             /\ p # w => ~ Arriving(c, p)
  BY <1>0, <1>1 DEF Telling, Storing, Arriving
<1>7. ASSUME faults = 0, w \in AtHome
      PROVE  crowd' = "home"
  <2>1. CASE AtHome \ {w} = {}
    BY <1>1, <1>3, <1>7, <2>1 DEF AtHome
  <2>2. CASE AtHome \ {w} # {}
    <3>1. PICK q \in AtHome : q # w
      BY <2>2
    <3>2. ASSUME NEW o \in Callers, Arriving(o, q) PROVE FALSE
      <4>1. lock = o
        BY <3>2 DEF Arriving, BaseInv, LockInv
      <4>. QED
        BY <1>4, <1>6, <3>1, <3>2, <4>1
    <3>3. crowd = "home"
      BY <1>7, <3>1, <3>2 DEF TellInv, CrowdInv
    <3>. QED
      BY <1>1, <2>2, <3>3
  <2>. QED
    BY <2>1, <2>2
<1>8. \A p \in AtHome : p # w => crowd' = crowd
  BY <1>1
<1>. QED
  BY <1>1, <1>2, <1>4, <1>5, <1>6, <1>7, <1>8, TellKept

-----------------------------------------------------------------------------
\* The steps that change and remove persons

\* What goes from one step to the next of such a request.
LEMMA PersonStepped ==
  ASSUME BaseInv, NEW c \in Callers, call[c].step \in PersonSteps \cup RemoveSteps,
         NEW s \in PersonSteps \cup RemoveSteps, GoTo(c, [call[c] EXCEPT !.step = s])
  PROVE  /\ OthersStay(c) /\ call[c] # Idle /\ call[c].who \in Persons
         /\ call'[c].step = s /\ call'[c].who = call[c].who
         /\ call[c].step \in PersonSteps => call'[c].rec = call[c].rec /\ call[c].rec \in Person
<1>0. CallsOK /\ CallOK(call[c])
  BY DEF BaseInv, CallsOK
<1>1. PICK k : k = [call[c] EXCEPT !.step = s]
  OBVIOUS
<1>2. k.step = s /\ k.who = call[c].who /\ call[c].who \in Persons /\ call[c] # Idle
  BY <1>0, <1>1 DEF CallOK, Idle
<1>3. call[c].step \in PersonSteps => k.rec = call[c].rec /\ call[c].rec \in Person
  BY <1>0, <1>1 DEF CallOK, Idle
<1>. QED
  BY <1>0, <1>1, <1>2, <1>3, Went

LEMMA SaveRowKeeps ==
  ASSUME Apart, BaseInv, BaseInv', TellInv, NEW c \in Callers, SaveRow(c)
  PROVE  TellInv'
<1>0. PICK w : w = call[c].who
  OBVIOUS
<1>1. /\ call[c].step = "saveRow" /\ UNCHANGED <<persons, said, crowd, cut, faults>>
      /\ GoTo(c, [call[c] EXCEPT !.step = "putPerson"])
      /\ db' = [db EXCEPT !.persons[w] = call[c].rec.row]
  BY <1>0 DEF SaveRow, At, KeepMemory, KeepRest, memory, told, ghosts
<1>2. /\ KeepsRows /\ Present' = Present /\ AtHome' = AtHome
      /\ \A p : StateOf(p)' = StateOf(p) /\ Source(p)' = Source(p)
  BY <1>1, SamePersons
<1>3. /\ OthersStay(c) /\ call[c] # Idle /\ w \in Persons
      /\ call'[c].step = "putPerson" /\ call'[c].who = w /\ call'[c].rec = call[c].rec
  BY <1>0, <1>1, PersonStepped
<1>4. /\ db'.persons[w] = call[c].rec.row
      /\ \A p \in Persons \ {w} : db'.persons[p] = db.persons[p]
  BY <1>1, <1>3 DEF BaseInv, TablesOK
<1>5. HeldInv'
  <2>1. \/ call[c].rec.trackers = <<>> /\ call[c].rec.row.state = "unknown"
        \/ w \in Present /\ call[c].rec = persons[w]
    BY <1>0, <1>1 DEF TellInv, HeldInv, Held
  <2>2. Held(call[c])'
    BY <1>1, <1>2, <1>3, <1>4, <2>1 DEF Held
  <2>. QED
    BY <1>2, <1>3, <2>2, OthersHeld DEF TellInv
<1>6. Storing(c, w)' /\ \A p \in Present \ {w} : Current(p)' = Current(p)
  BY <1>2, <1>3, <1>4 DEF Storing, Current, Present
<1>7. \A p : ~ Telling(c, p) /\ ~ Storing(c, p) /\ ~ Arriving(c, p)
  BY <1>1 DEF Telling, Storing, Arriving
<1>. QED
  BY <1>1, <1>2, <1>3, <1>5, <1>6, <1>7, TellKept

LEMMA PutPersonKeeps ==
  ASSUME Apart, BaseInv, BaseInv', TellInv, NEW c \in Callers, PutPerson(c)
  PROVE  TellInv'
<1>0. PICK w : w = call[c].who
  OBVIOUS
<1>1. /\ call[c].step = "putPerson" /\ UNCHANGED <<db, said, crowd, cut, faults>>
      /\ GoTo(c, [call[c] EXCEPT !.step = "tell"])
      /\ persons' = [persons EXCEPT ![w] = call[c].rec]
  BY <1>0 DEF PutPerson, At, KeepRest, told, ghosts
<1>2. /\ OthersStay(c) /\ call[c] # Idle /\ w \in Persons /\ call[c].rec \in Person
      /\ call'[c].step = "tell" /\ call'[c].who = w /\ call'[c].rec = call[c].rec
  BY <1>0, <1>1, PersonStepped
<1>3. \A o \in Callers \ {c} : call[o] = Idle
  BY <1>1, NobodyElse
<1>4. /\ persons'[w] = call[c].rec /\ w \in Present'
      /\ \A p \in Present' \ {w} : p \in Present /\ persons'[p] = persons[p]
  BY <1>1, <1>2, AbsentAssumption DEF BaseInv, MapsOK, Present
<1>5. HeldInv'
  <2>1. Held(call[c])'
    BY <1>2, <1>4 DEF Held
  <2>. QED
    BY <1>2, <1>3, <2>1, OthersHeld DEF TellInv
<1>6. /\ db.persons[w] = call[c].rec.row
      /\ call[c].rec.row.state = "unknown" \/ (w \in Present /\ call[c].rec = persons[w])
  BY <1>0, <1>1 DEF TellInv, HeldInv, Held
<1>7. Current(w)'
  <2>1. call[c].rec.row \in Row
    BY <1>2 DEF Person
  <2>. QED
    BY <1>1, <1>4, <1>6, <2>1, AbsentAssumption DEF Current, StateOf, Source
<1>8. Telling(c, w)'
  BY <1>2 DEF Telling
<1>9. \A p \in Present' \ {w} : StateOf(p)' = StateOf(p) /\ (Current(p) => Current(p)')
  BY <1>1, <1>4 DEF StateOf, Source, Current
<1>10. \A p \in AtHome' : p \in AtHome
  <2>1. w \in AtHome' => w \in AtHome
    BY <1>4, <1>6 DEF AtHome, StateOf
  <2>. QED
    BY <1>4, <1>9, <2>1 DEF AtHome
<1>11. \A p : /\ ~ Telling(c, p) /\ ~ Arriving(c, p)
              /\ p # w => ~ Storing(c, p)
  BY <1>0, <1>1 DEF Telling, Storing, Arriving
<1>. QED
  BY <1>1, <1>2, <1>4, <1>5, <1>7, <1>8, <1>9, <1>10, <1>11, TellKept

LEMMA TellKeeps ==
  ASSUME Apart, BaseInv, BaseInv', TellInv, NEW c \in Callers, Tell(c) \/ TellRemoved(c)
  PROVE  TellInv'
<1>0. PICK w : w = call[c].who
  OBVIOUS
<1>1. /\ call[c].step \in {"tell", "tellRemoved"} /\ GoTo(c, Idle)
      /\ UNCHANGED <<persons, db, crowd, cut, faults>>
  BY DEF Tell, TellRemoved, At, KeepMemory, memory, ghosts
<1>2. /\ KeepsRows /\ Present' = Present /\ AtHome' = AtHome
      /\ \A p : StateOf(p)' = StateOf(p) /\ Source(p)' = Source(p) /\ Current(p)' = Current(p)
  BY <1>1, SamePersons
<1>3. call'[c] = Idle /\ OthersStay(c)
  BY <1>1, Went DEF BaseInv
<1>4. call[c] # Idle /\ w \in Persons
  BY <1>0, <1>1 DEF BaseInv, CallsOK, CallOK, Idle
<1>5. HeldInv'
  <2>1. Held(call[c])'
    BY <1>3 DEF Held, Idle
  <2>. QED
    BY <1>2, <1>3, <1>4, <2>1, OthersHeld DEF TellInv
<1>6. /\ w \in Present => said'[w] = StateOf(w)
      /\ \A p \in Present \ {w} : said'[p] = said[p]
  <2>1. CASE Tell(c)
    <3>1. said' = [said EXCEPT ![w] = call[c].rec.row.state] /\ call[c].step = "tell"
      BY <1>0, <2>1 DEF Tell, At
    <3>2. call[c].rec = persons[w]
      BY <1>0, <3>1 DEF TellInv, HeldInv, Held
    <3>. QED
      BY <1>4, <3>1, <3>2 DEF BaseInv, MapsOK, Present, StateOf
  <2>2. CASE TellRemoved(c)
    <3>1. said' = [said EXCEPT ![w] = Absent] /\ call[c].step = "tellRemoved"
      BY <1>0, <2>2 DEF TellRemoved, At
    <3>2. w \notin Present
      BY <1>0, <3>1 DEF TellInv, HeldInv, Held
    <3>. QED
      BY <3>1, <3>2 DEF BaseInv, MapsOK, Present
  <2>. QED
    BY <2>1, <2>2
<1>7. \A p : /\ ~ Storing(c, p) /\ ~ Arriving(c, p)
             /\ p # w => ~ Telling(c, p)
  BY <1>0, <1>1 DEF Telling, Storing, Arriving
<1>. QED
  BY <1>1, <1>2, <1>3, <1>5, <1>6, <1>7, TellKept

LEMMA RemoveRowKeeps ==
  ASSUME Apart, BaseInv, BaseInv', TellInv, NEW c \in Callers, NEW w \in Persons, RemoveRow(c, w)
  PROVE  TellInv'
<1>1. PICK k : k = [kind |-> "remove", step |-> "dropPerson", who |-> w]
  OBVIOUS
<1>2. /\ call[c] = Idle /\ UNCHANGED <<persons, said, crowd, cut, faults>> /\ GoTo(c, k)
      /\ db' = [db EXCEPT !.persons[w] = Absent, !.links[w] = {}]
  BY <1>1 DEF RemoveRow, Begin, KeepMemory, KeepRest, memory, told, ghosts
<1>3. /\ KeepsRows /\ Present' = Present /\ AtHome' = AtHome
      /\ \A p : StateOf(p)' = StateOf(p) /\ Source(p)' = Source(p)
  BY <1>2, SamePersons
<1>4. /\ call'[c] = k /\ OthersStay(c) /\ k.step = "dropPerson" /\ k.who = w
      /\ call[c].step = "idle" /\ k # Idle
  BY <1>1, <1>2, Went DEF BaseInv, Idle
<1>5. \A p \in Persons \ {w} : db'.persons[p] = db.persons[p]
  BY <1>2 DEF BaseInv, TablesOK
<1>6. HeldInv'
  <2>1. Held(call[c])'
    BY <1>4 DEF Held
  <2>. QED
    BY <1>3, <1>4, <2>1, OthersHeld DEF TellInv
<1>7. Storing(c, w)' /\ \A p \in Present \ {w} : Current(p)' = Current(p)
  BY <1>3, <1>4, <1>5 DEF Storing, Current, Present
<1>8. \A p : ~ Telling(c, p) /\ ~ Storing(c, p) /\ ~ Arriving(c, p)
  BY <1>4 DEF Telling, Storing, Arriving
<1>. QED
  BY <1>2, <1>3, <1>4, <1>6, <1>7, <1>8, TellKept

LEMMA DropPersonKeeps ==
  ASSUME Apart, BaseInv, BaseInv', TellInv, NEW c \in Callers, DropPerson(c)
  PROVE  TellInv'
<1>0. PICK w : w = call[c].who
  OBVIOUS
<1>1. /\ call[c].step = "dropPerson" /\ UNCHANGED <<db, said, crowd, cut, faults>>
      /\ GoTo(c, [call[c] EXCEPT !.step = "tellRemoved"])
      /\ persons' = [persons EXCEPT ![w] = Absent]
  BY <1>0 DEF DropPerson, At, KeepRest, told, ghosts
<1>2. /\ OthersStay(c) /\ call[c] # Idle /\ w \in Persons
      /\ call'[c].step = "tellRemoved" /\ call'[c].who = w
  BY <1>0, <1>1, PersonStepped
<1>3. w \notin Present' /\ \A p \in Present' : p \in Present /\ persons'[p] = persons[p]
  BY <1>1, <1>2 DEF BaseInv, MapsOK, Present
<1>4. KeepsRows
  BY <1>3 DEF KeepsRows
<1>5. HeldInv'
  <2>1. Held(call[c])'
    BY <1>2, <1>3 DEF Held
  <2>. QED
    BY <1>2, <1>4, <2>1, OthersHeld DEF TellInv
<1>6. \A p \in Present' : StateOf(p)' = StateOf(p) /\ (Current(p) => Current(p)') /\ p # w
  BY <1>1, <1>3 DEF StateOf, Source, Current
<1>7. \A p \in AtHome' : p \in AtHome
  BY <1>3, <1>6 DEF AtHome
<1>8. \A p : /\ ~ Telling(c, p) /\ ~ Arriving(c, p)
             /\ p # w => ~ Storing(c, p)
  BY <1>0, <1>1 DEF Telling, Storing, Arriving
<1>. QED
  BY <1>1, <1>2, <1>3, <1>5, <1>6, <1>7, <1>8, TellKept

-----------------------------------------------------------------------------
\* Faults: what a request leaves half done is cut short

LEMMA StoppedKeeps ==
  ASSUME Apart, BaseInv, BaseInv', TellInv, faults \in Nat, NEW c \in Callers,
         StoreFails(c) \/ Dropped(c)
  PROVE  TellInv'
<1>1. /\ UNCHANGED <<persons, db, said, crowd>> /\ cut' = cut \cup Halves(call[c])
      /\ call[c] # Idle /\ faults' = faults + 1
      /\ (lock = c /\ Release(c)) \/ GoTo(c, Idle)
  BY DEF StoreFails, Dropped, Fault, KeepMemory, memory, told
<1>2. /\ KeepsRows /\ Present' = Present /\ AtHome' = AtHome
      /\ \A p : StateOf(p)' = StateOf(p) /\ Source(p)' = Source(p) /\ Current(p)' = Current(p)
  BY <1>1, SamePersons
<1>3. OthersStay(c) /\ call'[c].step \in {"idle", "derive"}
  <2>1. CASE lock = c /\ Release(c)
    BY <2>1, Released DEF BaseInv, LockInv
  <2>2. CASE GoTo(c, Idle)
    BY <2>2, Went DEF BaseInv, Idle
  <2>. QED
    BY <1>1, <2>1, <2>2
<1>4. HeldInv'
  <2>1. Held(call[c])'
    BY <1>3 DEF Held
  <2>. QED
    BY <1>1, <1>2, <1>3, <2>1, OthersHeld DEF TellInv
<1>5. \A p : Telling(c, p) \/ Storing(c, p) => p \in cut'
  <2>1. call[c].step \in LockSteps \cup PersonSteps \cup RemoveSteps => "who" \in DOMAIN call[c]
    BY DEF BaseInv, CallsOK, CallOK, Idle
  <2>2. \A p : Telling(c, p) \/ Storing(c, p) => "who" \in DOMAIN call[c] /\ call[c].who = p
    BY <2>1 DEF Telling, Storing
  <2>. QED
    BY <1>1, <2>2 DEF Halves
<1>6. faults' # 0 /\ cut \subseteq cut'
  BY <1>1
<1>. QED
  BY <1>1, <1>2, <1>3, <1>4, <1>5, <1>6, TellKept

LEMMA RestartKeeps ==
  ASSUME BaseInv, BaseInv', NEW c \in Callers, Restart(c)
  PROVE  TellInv'
<1>1. PICK list : persons' = [p \in Persons |->
                    IF db.persons[p] = Absent THEN Absent
                    ELSE [trackers |-> list[p], row |-> db.persons[p]]]
  BY DEF Restart
<1>2. /\ db' = [db EXCEPT !.zones[Home] = HomeArea]
      /\ said' = [p \in Persons |-> IF db.persons[p] = Absent THEN Absent
                                    ELSE db.persons[p].state]
      /\ call' = [o \in Callers |->
           IF o = c THEN [kind |-> "start", step |-> "deriveAll"] ELSE Idle]
      /\ crowd' = IF \E p \in Persons : said'[p] = "home" THEN "home" ELSE "none"
  BY DEF Restart
<1>3. db'.persons = db.persons
  BY <1>2 DEF BaseInv, TablesOK
<1>4. \A p \in Present' :
        /\ p \in Persons /\ db.persons[p] # Absent
        /\ StateOf(p)' = db.persons[p].state /\ Source(p)' = db.persons[p].source
  <2>1. \A p \in Persons : db.persons[p] # Absent => persons'[p].row = db.persons[p]
    BY <1>1
  <2>. QED
    BY <1>1, <2>1 DEF Present, StateOf, Source
<1>5. HeldInv'
  <2>1. \A o \in Callers : call'[o].step \in {"idle", "deriveAll"}
    BY <1>2 DEF Idle
  <2>. QED
    BY <2>1 DEF HeldInv, Held
<1>6. ToldInv' /\ RowInv'
  BY <1>2, <1>3, <1>4 DEF ToldInv, RowInv, Current
<1>7. CrowdInv'
  BY <1>2, <1>4 DEF CrowdInv, AtHome
<1>. QED
  BY <1>5, <1>6, <1>7 DEF TellInv

-----------------------------------------------------------------------------
\* What has been told and stored is what the registry holds

LEMMA FaultsType ==
  ASSUME faults \in Nat, [Next]_personVars
  PROVE  faults' \in Nat
<1>1. ASSUME NEW c \in Callers, Request(c) PROVE UNCHANGED faults
  BY <1>1 DEF Request, IngestLooks, LinkReads, UnlinkReads, Relink, CreatePerson, UpdatePerson,
     SavePerson, RemoveRow, RemoveZone, CreateZone, UpdateZone, SaveZone, Begin
<1>2. ASSUME NEW c \in Callers, Continue(c) PROVE UNCHANGED faults
  BY <1>2 DEF Continue, IngestLinked, IngestReadsLinks, ClearRows, InsertRow, LinkWrite,
     HandleReads, FixWrite, DeriveReads, Drift, StateWrite, RowRead, RowWrite, Announce, Crowd,
     SaveRow, PutPerson, Tell, DropPerson, TellRemoved, ZoneRow, PutZone, DropZone, DeriveAll, At
<1>3. ASSUME NEW c \in Callers, StoreFails(c) \/ Dropped(c) \/ Restart(c)
      PROVE  faults' = faults + 1
  BY <1>3 DEF StoreFails, Dropped, Restart, Fault
<1>4. CASE UNCHANGED personVars
  BY <1>4 DEF personVars
<1>. QED
  BY <1>1, <1>2, <1>3, <1>4 DEF Next

LEMMA TellInit == Init => TellInv
<1>. SUFFICES ASSUME Init PROVE TellInv
  OBVIOUS
<1>1. NewRow \in Row /\ NewRow.state = "unknown" /\ NewRow # Absent
  BY AbsentAssumption DEF NewRow, Row, State
<1>2. \A p \in Persons : /\ persons[p].row = NewRow /\ db.persons[p] = NewRow
                         /\ said[p] = "unknown"
  BY DEF Init
<1>3. HeldInv
  BY DEF Init, HeldInv, Held, Idle
<1>4. ToldInv /\ RowInv /\ CrowdInv
  BY <1>1, <1>2 DEF ToldInv, RowInv, CrowdInv, Current, StateOf, Source, Present, AtHome
<1>. QED
  BY <1>3, <1>4 DEF TellInv

LEMMA TellNext ==
  ASSUME Apart, BaseInv, BaseInv', TellInv, faults \in Nat, [Next]_personVars
  PROVE  TellInv'
<1>1. ASSUME NEW c \in Callers, Request(c) PROVE TellInv'
  <2>1. ASSUME NEW p \in Persons, CreatePerson(c, p) \/ UpdatePerson(c, p) PROVE TellInv'
    BY <2>1, SavePersonPlain, PlainKeeps
  <2>2. ASSUME NEW p \in Persons, RemoveRow(c, p) PROVE TellInv'
    BY <2>2, RemoveRowKeeps
  <2>. QED
    BY <1>1, <2>1, <2>2, LinkStepsPlain, OtherStepsPlain, PlainKeeps, Zenon DEF Request
<1>2. ASSUME NEW c \in Callers, Continue(c) PROVE TellInv'
  <2>1. ASSUME Plain(c) PROVE TellInv'
    BY <2>1, PlainKeeps
  <2>2. CASE \/ IngestLinked(c) \/ IngestReadsLinks(c) \/ ClearRows(c) \/ InsertRow(c)
             \/ LinkWrite(c) \/ HandleReads(c) \/ FixWrite(c) \/ DeriveReads(c)
             \/ ZoneRow(c) \/ PutZone(c) \/ DropZone(c) \/ DeriveAll(c)
    BY <2>1, <2>2, LinkStepsPlain, OtherStepsPlain, DeriveReadsPlain, Zenon
  <2>3. CASE \/ Drift(c) \/ StateWrite(c) \/ RowRead(c) \/ RowWrite(c)
             \/ Announce(c) \/ Crowd(c)
    BY <2>3, DriftKeeps, StateWriteKeeps, RowReadKeeps, RowWriteKeeps, AnnounceKeeps, CrowdKeeps
  <2>4. CASE \/ SaveRow(c) \/ PutPerson(c) \/ Tell(c) \/ DropPerson(c) \/ TellRemoved(c)
    BY <2>4, SaveRowKeeps, PutPersonKeeps, TellKeeps, DropPersonKeeps
  <2>. QED
    BY <1>2, <2>2, <2>3, <2>4, Zenon DEF Continue
<1>3. CASE UNCHANGED personVars
  BY <1>3 DEF personVars, memory, told, ghosts, TellInv, HeldInv, Held, ToldInv, RowInv, CrowdInv,
     Telling, Storing, Arriving, Current, StateOf, Source, Present, AtHome
<1>. QED
  BY <1>1, <1>2, <1>3, StoppedKeeps, RestartKeeps DEF Next

LEMMA TellAlways ==
  ASSUME Apart
  PROVE  Spec => [](BaseInv /\ TellInv)
<1>1. Init => faults \in Nat
  BY DEF Init
<1>2. BaseInv /\ TellInv /\ faults \in Nat /\ [Next]_personVars =>
        BaseInv' /\ TellInv' /\ (faults \in Nat)'
  BY BaseNext, TellNext, FaultsType
<1>. QED
  BY <1>1, <1>2, BaseInit, TellInit, PTL DEF Spec

\* When no request is under way, the last state the bus told of a person is the
\* person's state: each change is announced, once and in order, unless a store
\* error or a dropped request cut one short.
THEOREM ToldAlways ==
  ASSUME Apart
  PROVE  Spec => []Told
<1>1. BaseInv /\ TellInv => Told
  BY DEF TellInv, ToldInv, Told, Telling, Quiet, Idle
<1>. QED
  BY <1>1, TellAlways, PTL

\* When no request is under way, the row a restart would load holds the person's
\* state and the tracker it came from.
THEOREM RowCurrentAlways ==
  ASSUME Apart
  PROVE  Spec => []RowCurrent
<1>1. BaseInv /\ TellInv => RowCurrent
  BY DEF TellInv, RowInv, RowCurrent, Storing, Current, Source, Quiet, Idle
<1>. QED
  BY <1>1, TellAlways, PTL

\* Without faults, AnyPersonHome was the last word as long as somebody is home.
THEOREM CrowdTrueAlways ==
  ASSUME Apart
  PROVE  Spec => []CrowdTrue
<1>1. BaseInv /\ TellInv => CrowdTrue
  BY DEF TellInv, CrowdInv, CrowdTrue, Arriving, Quiet, Idle
<1>. QED
  BY <1>1, TellAlways, PTL

-----------------------------------------------------------------------------
\* Where the latest fix of a person's trackers is

Latest(p) ==
  {d \in TrackersOf(p) :
     /\ fixes[d] # Absent
     /\ \A e \in TrackersOf(p) : fixes[e] # Absent => fixes[e].at <= fixes[d].at}

\* A person may be in this state.
IsAt(p, s) ==
  IF \A d \in TrackersOf(p) : fixes[d] = Absent THEN s = "unknown"
  ELSE \E d \in Latest(p) : s \in StatesAt(fixes[d].pos)

LEMMA DerivedIsAt ==
  ASSUME NEW p, NEW s
  PROVE  s \in {row.state : row \in Derived(p)} <=> IsAt(p, s)
<1>. DEFINE known == {d \in TrackersOf(p) : fixes[d] # Absent}
            latest == {d \in known : \A e \in known : fixes[e].at <= fixes[d].at}
<1>1. latest = Latest(p)
  BY DEF Latest
<1>2. CASE known = {}
  <2>1. Derived(p) = {[NewRow EXCEPT !.at = clock]}
    BY <1>2 DEF Derived
  <2>2. [NewRow EXCEPT !.at = clock].state = "unknown"
    BY DEF NewRow
  <2>3. s \in {row.state : row \in Derived(p)} <=> s = "unknown"
    BY <2>1, <2>2
  <2>. QED
    BY <1>2, <2>3 DEF IsAt
<1>3. CASE known # {}
  <2>1. Derived(p) = UNION {[state : StatesAt(fixes[d].pos), source : {d},
                             pos : {fixes[d].pos}, at : {clock}] : d \in Latest(p)}
    BY <1>1, <1>3 DEF Derived
  <2>2. IsAt(p, s) <=> \E d \in Latest(p) : s \in StatesAt(fixes[d].pos)
    BY <1>3 DEF IsAt
  <2>3. ASSUME NEW row \in Derived(p), s = row.state
        PROVE  \E d \in Latest(p) : s \in StatesAt(fixes[d].pos)
    BY <2>1, <2>3
  <2>4. ASSUME NEW d \in Latest(p), s \in StatesAt(fixes[d].pos)
        PROVE  \E row \in Derived(p) : s = row.state
    <3>1. PICK row : row = [state |-> s, source |-> d, pos |-> fixes[d].pos, at |-> clock]
      OBVIOUS
    <3>2. row \in Derived(p) /\ row.state = s
      BY <2>1, <2>4, <3>1
    <3>. QED
      BY <3>2
  <2>. QED
    BY <2>2, <2>3, <2>4
<1>. QED
  BY <1>2, <1>3

LEMMA IsAtSame ==
  ASSUME NEW p, persons'[p].trackers = persons[p].trackers, UNCHANGED zones,
         \A d \in TrackersOf(p) : fixes'[d] = fixes[d]
  PROVE  TrackersOf(p)' = TrackersOf(p) /\ \A s : IsAt(p, s)' <=> IsAt(p, s)
<1>1. TrackersOf(p)' = TrackersOf(p)
  BY DEF TrackersOf
<1>2. \A x : StatesAt(x)' = StatesAt(x)
  BY DEF StatesAt, Covers
<1>3. Latest(p)' = Latest(p)
  BY <1>1 DEF Latest
<1>4. \A d \in Latest(p) : d \in TrackersOf(p)
  BY DEF Latest
<1>. QED
  BY <1>1, <1>2, <1>3, <1>4 DEF IsAt

\* A request will derive the person again.
Covered(c, p) ==
  LET k == call[c] IN
  \/ k.step = "deriveAll"
  \/ k.step = "handle" /\ k.who = p /\ k.dev \in TrackersOf(p)
  \/ k.step \in {"fixWrite", "derive"} /\ p \in k.todo
  \/ k.step \in LockSteps /\ p \in k.todo \ {k.who}

\* A derivation is about to write the person's state.
Writing(c, p) == call[c].step = "stateWrite" /\ call[c].who = p

\* Unless a request will derive the person again, it is where its latest fix is,
\* or will be when the derivation under way has written its state.
Placed(p) ==
  \/ \E c \in Callers : Covered(c, p)
  \/ /\ \A c \in Callers : Writing(c, p) => IsAt(p, call[c].new.state)
     /\ (\E c \in Callers : Writing(c, p)) \/ IsAt(p, StateOf(p))

SettledInv == \A p \in Present \ behind : Placed(p)

\* A person is placed still if nothing of it changed and whoever moved neither
\* was to derive it nor was or is about to write its state.
LEMMA PlacedStill ==
  ASSUME NEW c \in Callers, OthersStay(c), NEW p, Placed(p),
         TrackersOf(p)' = TrackersOf(p), \A s : IsAt(p, s)' <=> IsAt(p, s),
         StateOf(p)' = StateOf(p),
         Covered(c, p) => Covered(c, p)', ~ Writing(c, p), ~ Writing(c, p)'
  PROVE  Placed(p)'
<1>1. ASSUME NEW o \in Callers
      PROVE  /\ Covered(o, p) => Covered(o, p)'
             /\ Writing(o, p)' <=> Writing(o, p)
             /\ Writing(o, p) => call'[o].new = call[o].new
  <2>1. CASE o = c
    BY <2>1
  <2>2. CASE o # c
    <3>1. call'[o] = call[o]
      BY <2>2 DEF OthersStay
    <3>. QED
      BY <3>1 DEF Covered, Writing
  <2>. QED
    BY <2>1, <2>2
<1>2. CASE \E o \in Callers : Covered(o, p)
  BY <1>1, <1>2 DEF Placed
<1>3. CASE /\ \A o \in Callers : Writing(o, p) => IsAt(p, call[o].new.state)
           /\ (\E o \in Callers : Writing(o, p)) \/ IsAt(p, StateOf(p))
  <2>1. \A o \in Callers : Writing(o, p)' => IsAt(p, call[o].new.state)'
    <3>. SUFFICES ASSUME NEW o \in Callers, Writing(o, p)' PROVE IsAt(p, call[o].new.state)'
      OBVIOUS
    <3>1. PICK s : s = call[o].new.state
      OBVIOUS
    <3>2. IsAt(p, s)' /\ call'[o].new.state = s
      BY <1>1, <1>3, <3>1
    <3>. QED
      BY <3>2 DEF IsAt
  <2>2. (\E o \in Callers : Writing(o, p)') \/ IsAt(p, StateOf(p))'
    <3>1. CASE \E o \in Callers : Writing(o, p)
      BY <1>1, <3>1
    <3>2. CASE IsAt(p, StateOf(p))
      <4>1. PICK s : s = StateOf(p)
        OBVIOUS
      <4>2. IsAt(p, s)' /\ StateOf(p)' = s
        BY <3>2, <4>1
      <4>. QED
        BY <4>2 DEF IsAt
    <3>. QED
      BY <1>3, <3>1, <3>2
  <2>. QED
    BY <2>1, <2>2 DEF Placed
<1>. QED
  BY <1>2, <1>3 DEF Placed

-----------------------------------------------------------------------------
\* Steps that leave fixes, zones, trackers and states alone

Calm(c) ==
  /\ OthersStay(c) /\ UNCHANGED <<zones, fixes>> /\ behind \subseteq behind'
  /\ \A p \in Present' :
       /\ p \in Present
       /\ persons'[p].trackers = persons[p].trackers /\ persons'[p].row.state = persons[p].row.state
  /\ call[c].step # "stateWrite" /\ call'[c].step # "stateWrite"
  /\ \A p \in Present' : Covered(c, p) => Covered(c, p)'

LEMMA CalmSettles ==
  ASSUME SettledInv, NEW c \in Callers, Calm(c)
  PROVE  SettledInv'
<1>. SUFFICES ASSUME NEW p \in Present' \ behind' PROVE Placed(p)'
  BY DEF SettledInv
<1>1. p \in Present \ behind /\ Placed(p)
  BY DEF Calm, SettledInv
<1>2. TrackersOf(p)' = TrackersOf(p) /\ \A s : IsAt(p, s)' <=> IsAt(p, s)
  BY IsAtSame DEF Calm
<1>3. StateOf(p)' = StateOf(p) /\ ~ Writing(c, p) /\ ~ Writing(c, p)'
  BY DEF Calm, StateOf, Writing
<1>. QED
  BY <1>1, <1>2, <1>3, PlacedStill DEF Calm

\* Steps that were not to derive anybody.
UncoveredSteps == {"idle", "isLinked", "readLinks", "zoneRow", "putZone", "dropZone"}
                  \cup LinkSteps \cup PersonSteps \cup RemoveSteps

LEMMA UncoveredCalm ==
  ASSUME BaseInv, NEW c \in Callers, NEW k, GoTo(c, k), call[c].step \in UncoveredSteps,
         k.step # "stateWrite", UNCHANGED <<persons, zones, fixes, behind>>
  PROVE  Calm(c)
<1>1. call'[c] = k /\ OthersStay(c)
  BY Went DEF BaseInv
<1>2. \A p : ~ Covered(c, p)
  BY DEF Covered, UncoveredSteps
<1>3. Present' = Present
  BY DEF Present
<1>. QED
  BY <1>1, <1>2, <1>3 DEF Calm, UncoveredSteps

LEMMA BeginCalm ==
  ASSUME BaseInv, NEW c \in Callers, Request(c)
  PROVE  Calm(c)
<1>1. ASSUME NEW kind, Begin(c, kind), KeepMemory, KeepRest, NEW k, GoTo(c, k), k.step # "stateWrite"
      PROVE  Calm(c)
  BY <1>1, Begun, UncoveredCalm DEF KeepMemory, KeepRest, memory, ghosts, UncoveredSteps
<1>2. ASSUME NEW kind, NEW p, NEW d, NEW list, Relink(c, kind, p, d, list)
      PROVE  Calm(c)
  BY <1>1, <1>2 DEF Relink, Rewriting
<1>3. ASSUME NEW link \in Links, NEW x \in Positions, IngestLooks(c, link[1], link[2], x)
      PROVE  Calm(c)
  BY <1>1, <1>3 DEF IngestLooks
<1>4. ASSUME NEW link \in Links, LinkReads(c, link[1], link[2]) \/ UnlinkReads(c, link[1], link[2])
      PROVE  Calm(c)
  BY <1>2, <1>4, Zenon DEF LinkReads, UnlinkReads
<1>5. ASSUME NEW p \in Persons, CreatePerson(c, p) \/ UpdatePerson(c, p) \/ RemoveRow(c, p)
      PROVE  Calm(c)
  BY <1>1, <1>5 DEF CreatePerson, UpdatePerson, SavePerson, RemoveRow
<1>6. ASSUME NEW z \in Zones, RemoveZone(c, z)
      PROVE  Calm(c)
  BY <1>1, <1>6 DEF RemoveZone
<1>7. ASSUME NEW z \in Zones, NEW area \in Areas, CreateZone(c, z, area) \/ UpdateZone(c, z, area)
      PROVE  Calm(c)
  BY <1>1, <1>7 DEF CreateZone, UpdateZone, SaveZone
<1>. QED
  BY <1>3, <1>4, <1>5, <1>6, <1>7, Zenon DEF Request

\* Links, rows and events are read and written beside the registry's own state.
LEMMA BesideCalm ==
  ASSUME BaseInv, NEW c \in Callers,
         \/ IngestLinked(c) \/ IngestReadsLinks(c) \/ ClearRows(c) \/ InsertRow(c)
         \/ SaveRow(c) \/ Tell(c) \/ TellRemoved(c) \/ ZoneRow(c)
  PROVE  Calm(c)
<1>0. CallOK(call[c]) /\ "step" \in DOMAIN call[c]
  BY DEF BaseInv, CallsOK, CallOK
<1>1. UNCHANGED <<persons, zones, fixes, behind>>
  BY DEF IngestLinked, IngestReadsLinks, ClearRows, InsertRow, SaveRow, Tell, TellRemoved, ZoneRow,
     KeepMemory, KeepRest, memory, ghosts
<1>2. call[c].step \in {"isLinked", "readLinks", "clearRows", "insertRows", "saveRow", "tell",
                        "tellRemoved", "zoneRow"}
  BY DEF IngestLinked, IngestReadsLinks, ClearRows, InsertRow, SaveRow, Tell, TellRemoved, ZoneRow, At
<1>3. \/ GoTo(c, Idle)
      \/ \E s \in Steps \ {"stateWrite"} : GoTo(c, [call[c] EXCEPT !.step = s])
      \/ GoTo(c, [call[c] EXCEPT !.left = Tail(@)])
      \/ \E list : GoTo(c, Rewriting(call[c], list))
  BY DEF IngestLinked, IngestReadsLinks, ClearRows, InsertRow, SaveRow, Tell, TellRemoved, ZoneRow
<1>4. /\ Idle.step # "stateWrite"
      /\ \A s \in Steps \ {"stateWrite"} : [call[c] EXCEPT !.step = s].step # "stateWrite"
      /\ [call[c] EXCEPT !.left = Tail(@)].step # "stateWrite"
      /\ \A list : Rewriting(call[c], list).step # "stateWrite"
  BY <1>0, <1>2 DEF Idle, Rewriting
<1>5. \E k : GoTo(c, k) /\ k.step # "stateWrite"
  BY <1>3, <1>4
<1>. QED
  BY <1>1, <1>2, <1>5, UncoveredCalm DEF UncoveredSteps

LEMMA DropPersonCalm ==
  ASSUME BaseInv, NEW c \in Callers, DropPerson(c)
  PROVE  Calm(c)
<1>0. PICK w : w = call[c].who
  OBVIOUS
<1>1. /\ call[c].step = "dropPerson" /\ UNCHANGED <<zones, fixes, behind>>
      /\ GoTo(c, [call[c] EXCEPT !.step = "tellRemoved"])
      /\ persons' = [persons EXCEPT ![w] = Absent]
  BY <1>0 DEF DropPerson, At, KeepRest, ghosts
<1>2. OthersStay(c) /\ w \in Persons /\ call'[c].step = "tellRemoved"
  BY <1>0, <1>1, PersonStepped
<1>3. \A p \in Present' : p \in Present /\ persons'[p] = persons[p]
  BY <1>1, <1>2 DEF BaseInv, MapsOK, Present
<1>4. \A p : ~ Covered(c, p)
  BY <1>1 DEF Covered
<1>. QED
  BY <1>1, <1>2, <1>3, <1>4 DEF Calm

\* Whoever is left to derive is covered.
LEMMA NextCovers ==
  ASSUME BaseInv, NEW c \in Callers, NEW todo \in SUBSET Persons, DeriveNext(c, todo)
  PROVE  /\ OthersStay(c) /\ call'[c].step \in {"idle", "derive"}
         /\ \A p \in todo : Covered(c, p)'
<1>1. PICK k : /\ GoTo(c, k) /\ k.step \in {"idle", "derive"}
               /\ k.step = "derive" => k.todo = todo
               /\ todo # {} => k.step = "derive"
  BY NextOK
<1>2. call'[c] = k /\ OthersStay(c)
  BY <1>1, Went DEF BaseInv
<1>. QED
  BY <1>1, <1>2 DEF Covered

LEMMA ReleaseCalm ==
  ASSUME BaseInv, NEW c \in Callers, call[c].step \in LockSteps \ {"stateWrite"}, Release(c),
         UNCHANGED <<persons, zones, fixes, behind>>
  PROVE  Calm(c)
<1>1. call[c].todo \subseteq Persons
  BY DEF BaseInv, CallsOK, CallOK, Idle
<1>2. /\ OthersStay(c) /\ call'[c].step \in {"idle", "derive"}
      /\ \A p \in call[c].todo \ {call[c].who} : Covered(c, p)'
  BY <1>1, NextCovers DEF Release
<1>3. \A p : Covered(c, p) => Covered(c, p)'
  BY <1>2 DEF Covered
<1>4. Present' = Present
  BY DEF Present
<1>. QED
  BY <1>2, <1>3, <1>4 DEF Calm

LEMMA LockStepsCalm ==
  ASSUME BaseInv, NEW c \in Callers,
         Drift(c) \/ RowRead(c) \/ RowWrite(c) \/ Announce(c) \/ Crowd(c)
  PROVE  Calm(c)
<1>0. CallsOK /\ CallOK(call[c])
  BY DEF BaseInv, CallsOK
<1>1. call[c].step \in LockSteps \ {"stateWrite"} /\ UNCHANGED <<zones, fixes, behind>>
  BY DEF Drift, RowRead, RowWrite, Announce, Crowd, At, KeepMemory, KeepRest, memory, ghosts
<1>2. ASSUME NEW k, k.step \in LockSteps \ {"stateWrite"}, k.todo = call[c].todo, k.who = call[c].who,
             GoTo(c, k), UNCHANGED persons
      PROVE  Calm(c)
  <2>1. call'[c] = k /\ OthersStay(c)
    BY <1>0, <1>2, Went
  <2>2. \A p : Covered(c, p) => Covered(c, p)'
    BY <1>1, <1>2, <2>1 DEF Covered
  <2>3. Present' = Present
    BY <1>2 DEF Present
  <2>. QED
    BY <1>1, <1>2, <2>1, <2>2, <2>3 DEF Calm
<1>3. ASSUME NEW s \in LockSteps \ {"stateWrite"}, GoTo(c, [call[c] EXCEPT !.step = s]),
             UNCHANGED persons
      PROVE  Calm(c)
  <2>1. PICK k : k = [call[c] EXCEPT !.step = s]
    OBVIOUS
  <2>2. k.step = s /\ k.todo = call[c].todo /\ k.who = call[c].who
    BY <1>0, <1>1, <2>1, LockStepOK
  <2>. QED
    BY <1>2, <1>3, <2>1, <2>2
<1>4. CASE Drift(c)
  <2>0. call[c].todo \subseteq Persons /\ Release(c)
    BY <1>0, <1>1, <1>4 DEF CallOK, Idle, Drift
  <2>1. /\ OthersStay(c) /\ call'[c].step \in {"idle", "derive"}
        /\ \A p \in call[c].todo \ {call[c].who} : Covered(c, p)'
    BY <2>0, NextCovers DEF Release
  <2>2. \A p \in Present' :
          /\ p \in Present
          /\ persons'[p].trackers = persons[p].trackers /\ persons'[p].row.state = persons[p].row.state
    <3>1. CASE call[c].new.pos # None /\ call[c].who \in Present
      <4>1. persons[call[c].who] \in Person /\ call[c].who \in Persons
        BY <3>1, TrackersType DEF BaseInv
      <4>2. PICK q : q = [persons[call[c].who] EXCEPT !.row.pos = call[c].new.pos,
                                                      !.row.at = call[c].new.at]
        OBVIOUS
      <4>3. q.row.state = persons[call[c].who].row.state /\ q.trackers = persons[call[c].who].trackers
        BY <4>1, <4>2 DEF Person, Row
      <4>4. persons' = [persons EXCEPT ![call[c].who] = q]
        BY <1>4, <3>1, <4>2 DEF Drift
      <4>. QED
        BY <3>1, <4>1, <4>3, <4>4 DEF Present, BaseInv, MapsOK
    <3>. QED
      BY <1>4, <3>1 DEF Drift, Present
  <2>3. call[c].step = "drift"
    BY <1>4 DEF Drift, At
  <2>4. \A p : Covered(c, p) => Covered(c, p)'
    BY <2>1, <2>3 DEF Covered
  <2>. QED
    BY <1>1, <2>1, <2>2, <2>3, <2>4 DEF Calm
<1>5. CASE RowRead(c)
  <2>1. UNCHANGED persons
    BY <1>5 DEF RowRead, KeepMemory, memory
  <2>2. CASE call[c].who \notin Present
    BY <1>3, <1>5, <2>1, <2>2 DEF RowRead
  <2>3. CASE call[c].who \in Present
    <3>1. PICK k : k = [call[c] EXCEPT !.step = "rowWrite", !.row = persons[call[c].who].row]
      OBVIOUS
    <3>2. k.step = "rowWrite" /\ k.todo = call[c].todo /\ k.who = call[c].who
      BY <1>0, <1>1, <3>1 DEF CallOK, Idle
    <3>. QED
      BY <1>2, <1>5, <2>1, <2>3, <3>1, <3>2 DEF RowRead
  <2>. QED
    BY <2>2, <2>3
<1>6. CASE RowWrite(c)
  BY <1>3, <1>6 DEF RowWrite, KeepMemory, memory
<1>7. CASE Announce(c) \/ Crowd(c)
  <2>1. UNCHANGED persons /\ (Release(c) \/ GoTo(c, [call[c] EXCEPT !.step = "crowd"]))
    BY <1>7 DEF Announce, Crowd, KeepMemory, memory
  <2>. QED
    BY <1>1, <1>3, <2>1, ReleaseCalm
<1>. QED
  BY <1>4, <1>5, <1>6, <1>7

\* A report and a derivation of everybody hand on whom they were to derive.
LEMMA HandOnCalm ==
  ASSUME BaseInv, NEW c \in Callers, HandleReads(c) \/ DeriveAll(c)
  PROVE  Calm(c)
<1>1. /\ UNCHANGED <<persons, zones, fixes, behind>> /\ Present' = Present
      /\ call[c].step \in {"handle", "deriveAll"}
  BY DEF HandleReads, DeriveAll, At, KeepMemory, KeepRest, memory, ghosts, Present
<1>2. /\ OthersStay(c) /\ call'[c].step # "stateWrite"
      /\ \A p \in Present' : Covered(c, p) => Covered(c, p)'
  <2>1. CASE DeriveAll(c)
    <3>1. DeriveNext(c, Present) /\ Present \in SUBSET Persons
      BY <2>1 DEF DeriveAll, Present
    <3>. QED
      BY <1>1, <3>1, NextCovers
  <2>2. CASE HandleReads(c)
    <3>1. PICK d : d = call[c].dev
      OBVIOUS
    <3>2. call[c].step = "handle"
      BY <2>2 DEF HandleReads, At
    <3>3. \A p \in Present : Covered(c, p) => p \in LinkedTo(d)
      BY <3>1, <3>2 DEF Covered, LinkedTo
    <3>4. CASE LinkedTo(d) = {} /\ GoTo(c, Idle)
      BY <1>1, <3>3, <3>4, Went DEF BaseInv, Idle
    <3>5. CASE GoTo(c, [kind |-> "ingest", step |-> "fixWrite", dev |-> d,
                        fix |-> [pos |-> call[c].pos, at |-> clock + 1], todo |-> LinkedTo(d)])
      <4>1. PICK k : k = [kind |-> "ingest", step |-> "fixWrite", dev |-> d,
                          fix |-> [pos |-> call[c].pos, at |-> clock + 1], todo |-> LinkedTo(d)]
        OBVIOUS
      <4>2. k.step = "fixWrite" /\ k.todo = LinkedTo(d)
        BY <4>1
      <4>3. call'[c] = k /\ OthersStay(c)
        BY <3>5, <4>1, Went DEF BaseInv
      <4>4. \A p \in LinkedTo(d) : Covered(c, p)'
        BY <4>2, <4>3 DEF Covered
      <4>. QED
        BY <1>1, <3>3, <4>2, <4>3, <4>4
    <3>. QED
      BY <2>2, <3>1, <3>4, <3>5 DEF HandleReads
  <2>. QED
    BY <2>1, <2>2
<1>. QED
  BY <1>1, <1>2 DEF Calm

\* A store error leaves the rest of a derivation of several persons to do.
LEMMA StoreFailsCalm ==
  ASSUME BaseInv, NEW c \in Callers, StoreFails(c)
  PROVE  Calm(c)
<1>1. /\ UNCHANGED <<persons, zones, fixes, behind>> /\ call[c].step \in StoreSteps
      /\ IF lock = c THEN Release(c) ELSE GoTo(c, Idle)
  BY DEF StoreFails, KeepMemory, memory
<1>2. CASE lock = c
  <2>1. call[c].step \in LockSteps \ {"stateWrite"}
    BY <1>1, <1>2 DEF BaseInv, LockInv, StoreSteps
  <2>. QED
    BY <1>1, <1>2, <2>1, ReleaseCalm
<1>3. CASE lock # c
  <2>1. call[c].step \in UncoveredSteps
    BY <1>1, <1>3 DEF BaseInv, LockInv, StoreSteps, UncoveredSteps
  <2>2. Idle.step # "stateWrite"
    BY DEF Idle
  <2>. QED
    BY <1>1, <1>3, <2>1, <2>2, UncoveredCalm
<1>. QED
  BY <1>2, <1>3

-----------------------------------------------------------------------------
\* Steps that change what a state is derived from, derive it or write it

LEMMA LinkWriteSettles ==
  ASSUME BaseInv, SettledInv, NEW c \in Callers, LinkWrite(c)
  PROVE  SettledInv'
<1>0. PICK w : w = call[c].who
  OBVIOUS
<1>1. /\ call[c].step = "linkWrite" /\ UNCHANGED <<zones, fixes, behind>> /\ w \in Persons
      /\ call[c].kind = "ingest" => call[c].dev \in Range(call[c].list)
  BY <1>0 DEF LinkWrite, At, KeepRest, ghosts, BaseInv, CallsOK, CallOK, Idle
<1>2. /\ Present' = Present
      /\ w \in Present => persons'[w].trackers = call[c].list
      /\ \A p \in Present \ {w} : persons'[p] = persons[p]
  <2>1. CASE w \in Present
    <3>1. persons[w] \in Person
      BY <2>1, TrackersType DEF BaseInv
    <3>2. PICK q : q = [persons[w] EXCEPT !.trackers = call[c].list]
      OBVIOUS
    <3>3. q.trackers = call[c].list /\ q \in [trackers : {call[c].list}, row : Row]
      BY <3>1, <3>2 DEF Person
    <3>4. q # Absent
      <4>1. call[c].list \in Seq(Devices)
        BY <1>1 DEF BaseInv, CallsOK, CallOK, Idle
      <4>. QED
        BY <3>3, <4>1, AbsentAssumption DEF Person
    <3>5. persons' = [persons EXCEPT ![w] = q]
      BY <1>0, <2>1, <3>2 DEF LinkWrite
    <3>. QED
      BY <1>1, <2>1, <3>3, <3>4, <3>5 DEF Present, BaseInv, MapsOK
  <2>2. CASE w \notin Present
    BY <1>0, <2>2 DEF LinkWrite, Present
  <2>. QED
    BY <2>1, <2>2
<1>3. /\ OthersStay(c) /\ call'[c].step # "stateWrite"
      /\ w \in Present => Covered(c, w)'
  <2>1. CASE call[c].kind = "ingest"
    <3>1. PICK k : k = [kind |-> "ingest", step |-> "handle", who |-> w,
                        dev |-> call[c].dev, pos |-> call[c].pos]
      OBVIOUS
    <3>2. k.step = "handle" /\ k.who = w /\ k.dev = call[c].dev
      BY <3>1
    <3>3. GoTo(c, k)
      BY <1>0, <2>1, <3>1 DEF LinkWrite
    <3>4. call'[c] = k /\ OthersStay(c)
      BY <3>3, Went DEF BaseInv
    <3>5. w \in Present => k.dev \in Range(persons'[w].trackers)
      BY <1>1, <1>2, <2>1, <3>2
    <3>. QED
      BY <3>2, <3>4, <3>5 DEF Covered, TrackersOf
  <2>2. CASE call[c].kind # "ingest"
    <3>1. DeriveNext(c, {w} \cap Present) /\ {w} \cap Present \in SUBSET Persons
      BY <1>0, <2>2 DEF LinkWrite, Present
    <3>. QED
      BY <3>1, NextCovers
  <2>. QED
    BY <2>1, <2>2
<1>4. \A p : ~ Covered(c, p) /\ ~ Writing(c, p) /\ ~ Writing(c, p)'
  BY <1>1, <1>3 DEF Covered, Writing
<1>5. ASSUME NEW p \in Present' \ behind'
      PROVE  Placed(p)'
  <2>1. CASE p = w
    BY <1>2, <1>3, <2>1 DEF Placed
  <2>2. CASE p # w
    <3>1. p \in Present /\ Placed(p) /\ persons'[p] = persons[p]
      BY <1>1, <1>2, <1>5, <2>2 DEF SettledInv
    <3>2. TrackersOf(p)' = TrackersOf(p) /\ \A s : IsAt(p, s)' <=> IsAt(p, s)
      BY <1>1, <3>1, IsAtSame
    <3>. QED
      BY <1>3, <1>4, <3>1, <3>2, PlacedStill DEF StateOf
  <2>. QED
    BY <2>1, <2>2
<1>. QED
  BY <1>5 DEF SettledInv

LEMMA FixWriteSettles ==
  ASSUME BaseInv, SettledInv, NEW c \in Callers, FixWrite(c)
  PROVE  SettledInv'
<1>0. PICK d, todo : d = call[c].dev /\ todo = call[c].todo
  OBVIOUS
<1>1. /\ call[c].step = "fixWrite" /\ UNCHANGED <<persons, zones>>
      /\ d \in Devices /\ todo \in SUBSET Persons /\ DeriveNext(c, todo)
      /\ fixes' = [fixes EXCEPT ![d] = call[c].fix]
      /\ behind' = behind \cup (LinkedTo(d) \ todo)
  BY <1>0 DEF FixWrite, At, BaseInv, CallsOK, CallOK, Idle
<1>2. /\ OthersStay(c) /\ call'[c].step \in {"idle", "derive"}
      /\ \A p \in todo : Covered(c, p)'
  BY <1>1, NextCovers
<1>3. ASSUME NEW p \in Present' \ behind'
      PROVE  Placed(p)'
  <2>1. CASE p \in todo
    BY <1>2, <2>1 DEF Placed
  <2>2. CASE p \notin todo
    <3>1. p \in Present /\ Placed(p) /\ p \notin LinkedTo(d)
      BY <1>1, <1>3, <2>2 DEF SettledInv, Present
    <3>2. d \notin TrackersOf(p)
      BY <3>1 DEF LinkedTo
    <3>3. \A e \in TrackersOf(p) : fixes'[e] = fixes[e]
      <4>1. TrackersOf(p) \subseteq Devices
        BY <3>1, TrackersType DEF BaseInv
      <4>. QED
        BY <1>1, <3>2, <4>1 DEF BaseInv, MapsOK
    <3>4. TrackersOf(p)' = TrackersOf(p) /\ \A s : IsAt(p, s)' <=> IsAt(p, s)
      BY <1>1, <3>3, IsAtSame
    <3>5. ~ Covered(c, p) /\ ~ Writing(c, p) /\ ~ Writing(c, p)' /\ StateOf(p)' = StateOf(p)
      BY <1>0, <1>1, <1>2, <2>2 DEF Covered, Writing, StateOf
    <3>. QED
      BY <1>2, <3>1, <3>4, <3>5, PlacedStill
  <2>. QED
    BY <2>1, <2>2
<1>. QED
  BY <1>3 DEF SettledInv

LEMMA DeriveReadsSettles ==
  ASSUME BaseInv, SettledInv, NEW c \in Callers, DeriveReads(c)
  PROVE  SettledInv'
<1>0. CallsOK /\ LockInv
  BY DEF BaseInv
<1>1. /\ call[c].step = "derive" /\ lock = None /\ UNCHANGED <<persons, zones, fixes>>
      /\ call[c].todo \subseteq Persons
  BY <1>0 DEF DeriveReads, At, KeepMemory, memory, CallsOK, CallOK, Idle
<1>2. PICK w \in call[c].todo :
        IF w \notin Present
          THEN /\ DeriveNext(c, call[c].todo \ {w})
               /\ UNCHANGED <<lock, behind>>
          ELSE \E new \in Derived(w) :
                 /\ lock' = c
                 /\ behind' = behind \ {w}
                 /\ GoTo(c, Deriving(call[c], IF new.state # StateOf(w)
                                                THEN "stateWrite" ELSE "drift", w, new))
  BY DEF DeriveReads
<1>3. /\ Present' = Present
      /\ \A p : StateOf(p)' = StateOf(p)
      /\ \A p : TrackersOf(p)' = TrackersOf(p) /\ \A s : IsAt(p, s)' <=> IsAt(p, s)
  BY <1>1, IsAtSame DEF Present, StateOf
<1>4. \A o \in Callers : \A p : ~ Writing(o, p)
  <2>1. None \notin Callers
    BY PersonAssumption DEF PersonAssumption
  <2>. QED
    BY <1>0, <1>1, <2>1 DEF Writing, LockInv
<1>5. ASSUME OthersStay(c), NEW p \in Present \ behind, ~ Writing(c, p)', Covered(c, p) => Covered(c, p)'
      PROVE  Placed(p)'
  BY <1>3, <1>4, <1>5, PlacedStill DEF SettledInv
<1>6. CASE w \notin Present
  <2>1. DeriveNext(c, call[c].todo \ {w}) /\ UNCHANGED behind
        /\ call[c].todo \ {w} \in SUBSET Persons
    BY <1>1, <1>2, <1>6
  <2>2. /\ OthersStay(c) /\ call'[c].step \in {"idle", "derive"}
        /\ \A p \in call[c].todo \ {w} : Covered(c, p)'
    BY <2>1, NextCovers
  <2>3. \A p \in Present : ~ Writing(c, p)' /\ (Covered(c, p) => Covered(c, p)')
    BY <1>1, <1>6, <2>2 DEF Covered, Writing
  <2>. QED
    BY <1>3, <1>5, <2>1, <2>2, <2>3 DEF SettledInv
<1>7. CASE w \in Present
  <2>1. PICK new \in Derived(w) :
          /\ behind' = behind \ {w}
          /\ GoTo(c, Deriving(call[c], IF new.state # StateOf(w)
                                         THEN "stateWrite" ELSE "drift", w, new))
    BY <1>2, <1>7
  <2>2. PICK k : k = Deriving(call[c], IF new.state # StateOf(w)
                                         THEN "stateWrite" ELSE "drift", w, new)
    OBVIOUS
  <2>3. /\ call'[c] = k /\ OthersStay(c)
        /\ k.step = IF new.state # StateOf(w) THEN "stateWrite" ELSE "drift"
        /\ k.who = w /\ k.new = new /\ k.todo = call[c].todo
    <3>1. GoTo(c, k)
      BY <2>1, <2>2
    <3>. QED
      BY <1>0, <2>2, <3>1, Went DEF Deriving
  <2>4. IsAt(w, new.state)
    BY DerivedIsAt
  <2>5. \A p \in Present \ {w} : ~ Writing(c, p)' /\ (Covered(c, p) => Covered(c, p)')
    BY <1>1, <2>3 DEF Covered, Writing
  <2>6. Placed(w)'
    <3>1. PICK s : s = new.state
      OBVIOUS
    <3>2. \A o \in Callers : Writing(o, w)' => call'[o].new.state = s
      BY <1>4, <2>3, <3>1 DEF Writing, OthersStay
    <3>3. IsAt(w, s)'
      BY <1>3, <2>4, <3>1
    <3>4. \A o \in Callers : Writing(o, w)' => IsAt(w, call[o].new.state)'
      BY <3>2, <3>3 DEF IsAt
    <3>5. CASE new.state # StateOf(w)
      <4>1. Writing(c, w)'
        BY <2>3, <3>5 DEF Writing
      <4>. QED
        BY <3>4, <4>1 DEF Placed
    <3>6. CASE new.state = StateOf(w)
      <4>1. StateOf(w)' = s
        BY <1>3, <3>1, <3>6
      <4>2. IsAt(w, StateOf(w))'
        BY <3>3, <4>1 DEF IsAt
      <4>. QED
        BY <3>4, <4>2 DEF Placed
    <3>. QED
      BY <3>5, <3>6
  <2>. QED
    BY <1>3, <1>5, <2>1, <2>3, <2>5, <2>6 DEF SettledInv
<1>. QED
  BY <1>6, <1>7

LEMMA StateWriteSettles ==
  ASSUME BaseInv, SettledInv, NEW c \in Callers, StateWrite(c)
  PROVE  SettledInv'
<1>0. PICK w : w = call[c].who
  OBVIOUS
<1>1. /\ call[c].step = "stateWrite" /\ UNCHANGED <<zones, fixes, behind>>
      /\ GoTo(c, [call[c] EXCEPT !.step = "rowRead"])
  BY DEF StateWrite, At
<1>2. CallsOK /\ CallOK(call[c]) /\ LockInv /\ lock = c /\ w \in Persons /\ call[c].new \in Row
  BY <1>0, <1>1 DEF BaseInv, CallsOK, LockInv, CallOK, Idle
<1>3. /\ OthersStay(c) /\ call'[c].step = "rowRead"
      /\ \A p : Covered(c, p) => Covered(c, p)'
  <2>1. PICK k : k = [call[c] EXCEPT !.step = "rowRead"]
    OBVIOUS
  <2>2. k.step = "rowRead" /\ k.todo = call[c].todo /\ k.who = call[c].who
    BY <1>1, <1>2, <2>1, LockStepOK
  <2>3. call'[c] = k /\ OthersStay(c)
    BY <1>1, <1>2, <2>1, Went
  <2>. QED
    BY <1>1, <2>2, <2>3 DEF Covered
<1>4. /\ Present' = Present
      /\ w \in Present => StateOf(w)' = call[c].new.state
      /\ \A p \in Present : persons'[p].trackers = persons[p].trackers
      /\ \A p \in Present \ {w} : StateOf(p)' = StateOf(p)
  <2>1. CASE w \in Present
    <3>1. persons[w] \in Person
      BY <2>1, TrackersType DEF BaseInv
    <3>2. PICK q : q = [persons[w] EXCEPT !.row = call[c].new]
      OBVIOUS
    <3>3. q \in Person /\ q.row = call[c].new /\ q.trackers = persons[w].trackers
      BY <1>2, <3>1, <3>2 DEF Person
    <3>4. q # Absent
      BY <3>3, AbsentAssumption
    <3>5. persons' = [persons EXCEPT ![w] = q]
      BY <1>0, <2>1, <3>2 DEF StateWrite
    <3>. QED
      BY <1>2, <2>1, <3>3, <3>4, <3>5 DEF Present, StateOf, BaseInv, MapsOK
  <2>2. CASE w \notin Present
    BY <1>0, <2>2 DEF StateWrite, Present, StateOf
  <2>. QED
    BY <2>1, <2>2
<1>5. ASSUME NEW p \in Present' \ behind'
      PROVE  Placed(p)'
  <2>1. /\ p \in Present /\ Placed(p)
        /\ TrackersOf(p)' = TrackersOf(p) /\ \A s : IsAt(p, s)' <=> IsAt(p, s)
    <3>1. persons'[p].trackers = persons[p].trackers /\ p \in Present \ behind
      BY <1>1, <1>4, <1>5
    <3>. QED
      BY <1>1, <3>1, IsAtSame DEF SettledInv
  <2>2. CASE p # w
    BY <1>0, <1>1, <1>3, <1>4, <2>1, <2>2, PlacedStill DEF Writing
  <2>3. CASE p = w
    <3>1. Writing(c, w)
      BY <1>0, <1>1 DEF Writing
    <3>2. CASE \E o \in Callers : Covered(o, w)
      <4>1. PICK o \in Callers : Covered(o, w)
        BY <3>2
      <4>2. Covered(o, w)'
        <5>1. CASE o = c
          BY <1>3, <4>1, <5>1
        <5>2. CASE o # c
          <6>1. call'[o] = call[o] /\ TrackersOf(w)' = TrackersOf(w)
            BY <1>3, <2>1, <2>3, <5>2 DEF OthersStay
          <6>. QED
            BY <4>1, <6>1 DEF Covered
        <5>. QED
          BY <5>1, <5>2
      <4>. QED
        BY <2>3, <4>2 DEF Placed
    <3>3. CASE IsAt(w, call[c].new.state)
      <4>1. PICK s : s = call[c].new.state
        OBVIOUS
      <4>2. IsAt(w, s)' /\ StateOf(w)' = s
        BY <1>4, <2>1, <2>3, <3>3, <4>1
      <4>3. IsAt(w, StateOf(w))'
        BY <4>2 DEF IsAt
      <4>4. \A o \in Callers : ~ Writing(o, w)'
        <5>1. ASSUME NEW o \in Callers \ {c}, call[o].step = "stateWrite" PROVE FALSE
          BY <1>2, <5>1 DEF LockInv
        <5>. QED
          BY <1>3, <5>1 DEF Writing, OthersStay
      <4>. QED
        BY <2>3, <4>3, <4>4 DEF Placed
    <3>. QED
      BY <2>1, <2>3, <3>1, <3>2, <3>3 DEF Placed
  <2>. QED
    BY <2>2, <2>3
<1>. QED
  BY <1>5 DEF SettledInv

LEMMA PutPersonSettles ==
  ASSUME Apart, BaseInv, HeldInv, SettledInv, NEW c \in Callers, PutPerson(c)
  PROVE  SettledInv'
<1>0. PICK w : w = call[c].who
  OBVIOUS
<1>1. /\ call[c].step = "putPerson" /\ UNCHANGED <<zones, fixes, behind>>
      /\ GoTo(c, [call[c] EXCEPT !.step = "tell"])
      /\ persons' = [persons EXCEPT ![w] = call[c].rec]
  BY <1>0 DEF PutPerson, At, KeepRest, ghosts
<1>2. OthersStay(c) /\ w \in Persons /\ call'[c].step = "tell"
  BY <1>0, <1>1, PersonStepped
<1>3. /\ \A o \in Callers \ {c} : call[o] = Idle
      /\ \A o \in Callers : call'[o].step \in {"tell", "idle"}
  <2>1. \A o \in Callers \ {c} : call[o] = Idle
    BY <1>1, NobodyElse
  <2>. QED
    BY <1>2, <2>1 DEF OthersStay, Idle
<1>4. \A p \in Present \ behind : IsAt(p, StateOf(p))
  <2>1. \A o \in Callers : call[o].step \in {"putPerson", "idle"}
    BY <1>1, <1>3 DEF Idle
  <2>. QED
    BY <2>1 DEF SettledInv, Placed, Covered, Writing
<1>5. ASSUME NEW p \in Present' \ behind'
      PROVE  IsAt(p, StateOf(p))'
  <2>1. CASE p \in Present /\ persons'[p] = persons[p]
    <3>1. PICK s : s = StateOf(p)
      OBVIOUS
    <3>2. \A t : IsAt(p, t)' <=> IsAt(p, t)
      BY <1>1, <2>1, IsAtSame
    <3>3. IsAt(p, s)' /\ StateOf(p)' = s
      BY <1>1, <1>4, <1>5, <2>1, <3>1, <3>2 DEF StateOf
    <3>. QED
      BY <3>3 DEF IsAt
  <2>2. CASE p = w /\ call[c].rec.trackers = <<>> /\ call[c].rec.row.state = "unknown"
    <3>1. persons'[p].trackers = <<>> /\ StateOf(p)' = "unknown"
      BY <1>1, <1>2, <2>2 DEF StateOf, BaseInv, MapsOK
    <3>2. TrackersOf(p)' = {}
      BY <3>1 DEF TrackersOf, Range
    <3>. QED
      BY <3>1, <3>2 DEF IsAt
  <2>. QED
    <3>1. \/ call[c].rec.trackers = <<>> /\ call[c].rec.row.state = "unknown"
          \/ w \in Present /\ call[c].rec = persons[w]
      BY <1>0, <1>1 DEF HeldInv, Held
    <3>2. p = w \/ (p \in Present /\ persons'[p] = persons[p])
      BY <1>1, <1>2 DEF Present, BaseInv, MapsOK
    <3>3. persons'[w] = call[c].rec
      BY <1>1, <1>2 DEF BaseInv, MapsOK
    <3>. QED
      BY <2>1, <2>2, <3>1, <3>2, <3>3
<1>6. \A p : \A o \in Callers : ~ Writing(o, p)'
  BY <1>3 DEF Writing
<1>. QED
  BY <1>5, <1>6 DEF SettledInv, Placed

LEMMA ZonesSettle ==
  ASSUME BaseInv, SettledInv, NEW c \in Callers, PutZone(c) \/ DropZone(c)
  PROVE  SettledInv'
<1>1. CASE \E kind : GoTo(c, [kind |-> kind, step |-> "deriveAll"])
  <2>1. call'[c].step = "deriveAll"
    BY <1>1, Went DEF BaseInv
  <2>. QED
    BY <2>1 DEF SettledInv, Placed, Covered
<1>2. CASE behind' = Persons
  BY <1>2 DEF SettledInv, Present
<1>. QED
  BY <1>1, <1>2 DEF PutZone, DropZone

LEMMA RestartSettles ==
  ASSUME NEW c \in Callers, Restart(c)
  PROVE  SettledInv'
<1>1. call' = [o \in Callers |->
        IF o = c THEN [kind |-> "start", step |-> "deriveAll"] ELSE Idle]
  BY DEF Restart
<1>2. call'[c].step = "deriveAll"
  BY <1>1
<1>. QED
  BY <1>2 DEF SettledInv, Placed, Covered

LEMMA DroppedSettles ==
  ASSUME BaseInv, SettledInv, NEW c \in Callers, Dropped(c)
  PROVE  SettledInv'
<1>1. /\ UNCHANGED <<persons, zones, fixes>> /\ behind' = behind \cup Owes(call[c])
      /\ GoTo(c, Idle)
  BY DEF Dropped, KeepMemory, memory
<1>2. call'[c] = Idle /\ OthersStay(c) /\ Idle.step = "idle"
  BY <1>1, Went DEF BaseInv, Idle
<1>3. \A p \in Present : Covered(c, p) \/ Writing(c, p) => p \in Owes(call[c])
  <2>0. CallOK(call[c])
    BY DEF BaseInv, CallsOK
  <2>1. CASE call[c].step = "deriveAll"
    <3>1. Owes(call[c]) = Persons
      BY <2>1 DEF Owes
    <3>. QED
      BY <3>1 DEF Present
  <2>2. CASE call[c].step = "handle"
    <3>1. Owes(call[c]) = {call[c].who}
      BY <2>2 DEF Owes
    <3>. QED
      BY <2>2, <3>1 DEF Covered, Writing
  <2>3. CASE call[c].step \in {"fixWrite", "derive"} \cup LockSteps
    <3>1. "todo" \in DOMAIN call[c] /\ (call[c].step \in LockSteps => call[c].who \in call[c].todo)
      BY <2>0, <2>3 DEF CallOK, Idle
    <3>2. Owes(call[c]) = call[c].todo
      BY <2>3, <3>1 DEF Owes
    <3>. QED
      BY <2>3, <3>1, <3>2 DEF Covered, Writing
  <2>. QED
    BY <2>1, <2>2, <2>3 DEF Covered, Writing
<1>4. ASSUME NEW p \in Present' \ behind'
      PROVE  Placed(p)'
  <2>1. p \in Present \ behind /\ Placed(p) /\ StateOf(p)' = StateOf(p)
        /\ ~ Covered(c, p) /\ ~ Writing(c, p)
    BY <1>1, <1>3, <1>4 DEF SettledInv, Present, StateOf
  <2>2. TrackersOf(p)' = TrackersOf(p) /\ \A s : IsAt(p, s)' <=> IsAt(p, s)
    BY <1>1, IsAtSame
  <2>3. ~ Writing(c, p)'
    BY <1>2 DEF Writing
  <2>. QED
    BY <1>2, <2>1, <2>2, <2>3, PlacedStill
<1>. QED
  BY <1>4 DEF SettledInv

LEMMA SettledInit == Init => SettledInv
<1>. SUFFICES ASSUME Init, NEW p \in Persons PROVE Placed(p)
  BY DEF SettledInv, Present
<1>1. persons[p].trackers = <<>> /\ StateOf(p) = "unknown"
  BY DEF Init, StateOf, NewRow
<1>2. TrackersOf(p) = {}
  BY <1>1 DEF TrackersOf, Range
<1>3. \A c \in Callers : ~ Writing(c, p)
  BY DEF Init, Writing, Idle
<1>. QED
  BY <1>1, <1>2, <1>3 DEF Placed, IsAt

LEMMA SettledNext ==
  ASSUME Apart, BaseInv, TellInv, SettledInv, [Next]_personVars
  PROVE  SettledInv'
<1>1. ASSUME NEW c \in Callers, Calm(c) PROVE SettledInv'
  BY <1>1, CalmSettles
<1>2. ASSUME NEW c \in Callers, Continue(c) PROVE SettledInv'
  <2>1. CASE \/ IngestLinked(c) \/ IngestReadsLinks(c) \/ ClearRows(c) \/ InsertRow(c)
             \/ SaveRow(c) \/ Tell(c) \/ TellRemoved(c) \/ ZoneRow(c) \/ DropPerson(c)
             \/ Drift(c) \/ RowRead(c) \/ RowWrite(c) \/ Announce(c) \/ Crowd(c)
             \/ HandleReads(c) \/ DeriveAll(c)
    BY <1>1, <2>1, BesideCalm, DropPersonCalm, LockStepsCalm, HandOnCalm, Zenon
  <2>2. CASE \/ LinkWrite(c) \/ FixWrite(c) \/ DeriveReads(c) \/ StateWrite(c)
             \/ PutPerson(c) \/ PutZone(c) \/ DropZone(c)
    BY <2>2, LinkWriteSettles, FixWriteSettles, DeriveReadsSettles, StateWriteSettles,
       PutPersonSettles, ZonesSettle DEF TellInv
  <2>. QED
    BY <1>2, <2>1, <2>2, Zenon DEF Continue
<1>3. CASE UNCHANGED personVars
  <2>1. UNCHANGED <<persons, zones, fixes, call, behind>>
    BY <1>3 DEF personVars, memory, ghosts
  <2>2. /\ Present' = Present /\ \A p : StateOf(p)' = StateOf(p)
        /\ \A p : TrackersOf(p)' = TrackersOf(p) /\ \A s : IsAt(p, s)' <=> IsAt(p, s)
    BY <2>1, IsAtSame DEF Present, StateOf
  <2>3. ASSUME NEW p \in Present \ behind PROVE Placed(p)'
    <3>1. \A c \in Callers : Covered(c, p)' <=> Covered(c, p)
      BY <2>1, <2>2 DEF Covered
    <3>2. \A c \in Callers : Writing(c, p)' <=> Writing(c, p)
      BY <2>1 DEF Writing
    <3>3. ASSUME NEW c \in Callers, IsAt(p, call[c].new.state)
          PROVE  IsAt(p, call[c].new.state)'
      <4>1. PICK s : s = call[c].new.state
        OBVIOUS
      <4>2. IsAt(p, s)' /\ call'[c].new.state = s
        BY <2>1, <2>2, <3>3, <4>1
      <4>. QED
        BY <4>2 DEF IsAt
    <3>4. ASSUME IsAt(p, StateOf(p)) PROVE IsAt(p, StateOf(p))'
      <4>1. PICK s : s = StateOf(p)
        OBVIOUS
      <4>2. IsAt(p, s)' /\ StateOf(p)' = s
        BY <2>2, <3>4, <4>1
      <4>. QED
        BY <4>2 DEF IsAt
    <3>. QED
      BY <3>1, <3>2, <3>3, <3>4 DEF SettledInv, Placed
  <2>. QED
    BY <2>1, <2>2, <2>3 DEF SettledInv
<1>. QED
  BY <1>1, <1>2, <1>3, BeginCalm, StoreFailsCalm, DroppedSettles, RestartSettles DEF Next

\* When no request is under way, every person is where the latest fix of its
\* trackers is, in the zones as they are: no fix, link or zone that changed
\* while a person was being derived is lost.
THEOREM SettledAlways ==
  ASSUME Apart
  PROVE  Spec => []Settled
<1>1. ASSUME SettledInv PROVE Settled
  <2>. SUFFICES ASSUME Quiet, NEW p \in Present \ behind
                PROVE  StateOf(p) \in {row.state : row \in Derived(p)}
    BY DEF Settled
  <2>1. \A c \in Callers : ~ Covered(c, p) /\ ~ Writing(c, p)
    BY DEF Quiet, Covered, Writing, Idle
  <2>2. IsAt(p, StateOf(p))
    BY <1>1, <2>1 DEF SettledInv, Placed
  <2>. QED
    BY <2>2, DerivedIsAt
<1>2. BaseInv /\ TellInv /\ SettledInv /\ [Next]_personVars => SettledInv'
  BY SettledNext
<1>3. Spec => [](BaseInv /\ TellInv)
  BY TellAlways
<1>. QED
  BY <1>1, <1>2, <1>3, SettledInit, PTL DEF Spec

=============================================================================
