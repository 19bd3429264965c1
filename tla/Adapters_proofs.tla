--------------------------- MODULE Adapters_proofs ---------------------------
(***************************************************************************)
(* Proofs about Adapters, for every set of adapters of either kind, every  *)
(* set of requests, every capacity of the bus and any number of polls,     *)
(* panics, exits and reports: type correctness, and that what /ready says  *)
(* is what was published.                                                  *)
(***************************************************************************)
EXTENDS Adapters, SequenceTheorems, TLAPS

-----------------------------------------------------------------------------
\* Events and the receiver

LEMMA EventsAre ==
  /\ Device \in Event /\ RunError \in Event
  /\ \A a \in AllAdapters : Started(a) \in Event
  /\ \A a \in Wasm : PollError(a) \in Event /\ PollError(a).type = "error"
  BY DEF Event, Device, RunError, Started, PollError, AllAdapters

LEMMA EventKinds ==
  ASSUME NEW e \in Event
  PROVE  /\ e.type \in {"started", "error", "device"}
         /\ e.type = "started" => e.adapter \in AllAdapters /\ e = Started(e.adapter)
         /\ e.type = "error" =>
              /\ e.adapter \in AllAdapters \cup {Nobody}
              /\ e = [type |-> "error", adapter |-> e.adapter]
         /\ e.type = "device" => e = Device
  BY DEF Event, Started, Device

\* A full ring loses an event, which the receiver is told; another takes the
\* event behind the others.
LEMMA PublishedIs ==
  ASSUME NEW rx \in Receiver(Event), Len(rx.buf) <= Capacity, NEW e \in Event
  PROVE  /\ Published(rx, e) \in Receiver(Event)
         /\ Len(Published(rx, e).buf) <= Capacity
         /\ \/ Published(rx, e).lagged
            \/ Published(rx, e).buf = Append(rx.buf, e) /\ Published(rx, e).lagged = rx.lagged
<1>1. rx.buf \in Seq(Event) /\ rx.lagged \in BOOLEAN /\ Len(rx.buf) \in Nat
  BY LenProperties DEF Receiver
<1>2. CASE Len(rx.buf) < Capacity
  <2>1. Published(rx, e) = [buf |-> Append(rx.buf, e), lagged |-> rx.lagged]
    BY <1>2 DEF Published, Receiver
  <2>2. Append(rx.buf, e) \in Seq(Event) /\ Len(Append(rx.buf, e)) = Len(rx.buf) + 1
    BY <1>1, AppendProperties
  <2>. QED
    BY <1>1, <1>2, <2>1, <2>2, CapacityAssumption DEF Receiver
<1>3. CASE ~ (Len(rx.buf) < Capacity)
  <2>1. Published(rx, e) = [buf |-> Append(Tail(rx.buf), e), lagged |-> TRUE]
    BY <1>3 DEF Published
  <2>2. rx.buf # <<>> /\ Len(rx.buf) = Capacity
    BY <1>1, <1>3, CapacityAssumption, EmptySeq
  <2>3. Tail(rx.buf) \in Seq(Event) /\ Len(Tail(rx.buf)) = Len(rx.buf) - 1
    BY <1>1, <2>2, HeadTailProperties
  <2>4. Append(Tail(rx.buf), e) \in Seq(Event) /\ Len(Append(Tail(rx.buf), e)) = Len(rx.buf)
    BY <1>1, <2>3, AppendProperties
  <2>. QED
    BY <2>1, <2>2, <2>4 DEF Receiver
<1>. QED
  BY <1>2, <1>3

LEMMA PublishType ==
  ASSUME AdaptersTypeOK, NEW e \in Event, Publish(e)
  PROVE  /\ receiver' \in Receiver(Event) /\ Len(receiver'.buf) <= Capacity
         /\ told' \in [adapter : [AllAdapters -> Signs], error : BOOLEAN, covered : BOOLEAN]
         /\ told'.covered = told.covered
<1>1. receiver' \in Receiver(Event) /\ Len(receiver'.buf) <= Capacity
  BY PublishedIs DEF Publish, AdaptersTypeOK
<1>2. CASE e.type = "started"
  <2>1. told' = [told EXCEPT !.adapter[e.adapter] = "ok"] /\ e.adapter \in AllAdapters
    BY <1>2, EventKinds DEF Publish
  <2>. QED
    BY <1>1, <2>1 DEF AdaptersTypeOK, Signs
<1>3. CASE e.type = "error" /\ e.adapter # Nobody
  <2>1. told' = [told EXCEPT !.adapter[e.adapter] = "error"] /\ e.adapter \in AllAdapters
    BY <1>3, EventKinds DEF Publish
  <2>. QED
    BY <1>1, <2>1 DEF AdaptersTypeOK, Signs
<1>4. CASE e.type = "error" /\ e.adapter = Nobody
  <2>1. told' = [told EXCEPT !.error = TRUE]
    BY <1>4 DEF Publish
  <2>. QED
    BY <1>1, <2>1 DEF AdaptersTypeOK
<1>5. CASE e.type = "device"
  <2>1. told' = told
    BY <1>5 DEF Publish
  <2>. QED
    BY <1>1, <2>1 DEF AdaptersTypeOK
<1>. QED
  BY <1>2, <1>3, <1>4, <1>5, EventKinds

LEMMA ReadType ==
  ASSUME AdaptersTypeOK, HasEvent(receiver)
  PROVE  /\ AfterEvent(receiver) \in Receiver(Event) /\ Len(AfterEvent(receiver).buf) <= Capacity
         /\ Head(receiver.buf) \in Event
         /\ AfterEvent(receiver).buf = Tail(receiver.buf) /\ ~ AfterEvent(receiver).lagged
<1>1. /\ receiver \in Receiver(Event) /\ receiver.buf \in Seq(Event) /\ receiver.buf # <<>>
      /\ Len(receiver.buf) <= Capacity /\ ~ receiver.lagged
  BY DEF AdaptersTypeOK, Receiver, HasEvent
<1>2. /\ Tail(receiver.buf) \in Seq(Event) /\ Len(Tail(receiver.buf)) = Len(receiver.buf) - 1
      /\ Head(receiver.buf) \in Event
  BY <1>1, HeadTailProperties
<1>. QED
  BY <1>1, <1>2, LenProperties, CapacityAssumption DEF AfterEvent, Receiver

-----------------------------------------------------------------------------
\* Type correctness

LEMMA TypeInit == Init => AdaptersTypeOK
<1>. SUFFICES ASSUME Init PROVE AdaptersTypeOK
  OBVIOUS
<1>1. HostTypeOK
  <2>1. 1 \in 1..60 /\ 0 \in 0..MaxExits
    BY ExitsAssumption
  <2>. QED
    BY <2>1, Zenon DEF Init, HostInit, HostTypeOK
<1>2. receiver \in Receiver(Event) /\ Len(receiver.buf) <= Capacity
  BY CapacityAssumption DEF Init, RuntimeInit, Subscribed, Receiver
<1>. QED
  BY <1>1, <1>2, NamesAssumption DEF Init, RuntimeInit, AdaptersTypeOK, Signs

\* The variables of the runtime that AdaptersTypeOK speaks of.
RuntimeType ==
  /\ run \in [Wasm -> {"none", "spawned", "due", "polling", "failed", "joined"}]
  /\ lock \in [Wasm -> {"free", "poll", "hung"} \cup Requests]
  /\ poisoned \subseteq Wasm
  /\ driver \in {"waiting", "running", "returned", "cancelled"}
  /\ command \in [Requests -> Wasm \cup {Nobody}]
  /\ \A a \in Wasm : run[a] = "polling" => lock[a] \in {"poll", "hung"}
  /\ \A a \in Wasm, q \in Requests : lock[a] = q => command[q] = a

HealthType ==
  /\ monitor \in {"none", "running", "aborted"}
  /\ receiver \in Receiver(Event) /\ Len(receiver.buf) <= Capacity
  /\ told \in [adapter : [AllAdapters -> Signs], error : BOOLEAN, covered : BOOLEAN]
  /\ health \in [startup : BOOLEAN, runtime : Signs, adapter : [AllAdapters -> Signs]]

LEMMA TypeParts == AdaptersTypeOK <=> HostTypeOK /\ RuntimeType /\ HealthType
  BY DEF AdaptersTypeOK, RuntimeType, HealthType

LEMMA RuntimeTypeStep ==
  ASSUME AdaptersTypeOK, Runtime
  PROVE  RuntimeType' /\ HealthType'
<1>. USE NamesAssumption
<1>t. RuntimeType /\ HealthType
  BY TypeParts
<1>1. CASE RunBegins
  BY <1>1, <1>t DEF RunBegins, RuntimeType, HealthType
<1>2. CASE AbortAdapters
  BY <1>2, <1>t DEF AbortAdapters, RuntimeType, HealthType
<1>3. ASSUME NEW a \in Wasm, AdapterStarts(a) PROVE RuntimeType' /\ HealthType'
  <2>1. Started(a) \in Event
    BY EventsAre DEF AllAdapters
  <2>. QED
    BY <1>3, <1>t, <2>1, PublishType DEF AdapterStarts, RuntimeType, HealthType
<1>4. ASSUME NEW a \in Wasm, PollBegins(a) PROVE RuntimeType' /\ HealthType'
  BY <1>4, <1>t DEF PollBegins, RuntimeType, HealthType
<1>5. ASSUME NEW a \in Wasm, PollReturns(a) PROVE RuntimeType' /\ HealthType'
  <2>1. RuntimeType'
    BY <1>5, <1>t DEF PollReturns, RuntimeType
  <2>2. HealthType'
    BY <1>5, <1>t, EventsAre, PublishType DEF PollReturns, HealthType
  <2>. QED
    BY <2>1, <2>2
<1>6. ASSUME NEW a \in Wasm, PollPanics(a) PROVE RuntimeType' /\ HealthType'
  BY <1>6, <1>t DEF PollPanics, RuntimeType, HealthType
<1>7. ASSUME NEW a \in Wasm, JoinFailed(a) PROVE RuntimeType' /\ HealthType'
  <2>1. RuntimeType'
    BY <1>7, <1>t DEF JoinFailed, RuntimeType
  <2>2. HealthType'
    BY <1>7, <1>t, EventsAre, PublishType DEF JoinFailed, HealthType
  <2>. QED
    BY <2>1, <2>2
<1>8. ASSUME NEW a \in Wasm, AbandonedPollEnds(a) PROVE RuntimeType' /\ HealthType'
  BY <1>8, <1>t DEF AbandonedPollEnds, RuntimeType, HealthType
<1>. QED
  BY <1>1, <1>2, <1>3, <1>4, <1>5, <1>6, <1>7, <1>8 DEF Runtime

LEMMA NotedType ==
  ASSUME AdaptersTypeOK, NEW e \in Event
  PROVE  Noted(e) \in [startup : BOOLEAN, runtime : Signs, adapter : [AllAdapters -> Signs]]
  BY EventKinds DEF Noted, AdaptersTypeOK, Signs

LEMMA MonitorTypeStep ==
  ASSUME AdaptersTypeOK, Monitor
  PROVE  RuntimeType' /\ HealthType'
<1>t. RuntimeType /\ HealthType
  BY TypeParts
<1>1. CASE MonitorReceives
  BY <1>1, <1>t, ReadType, NotedType DEF MonitorReceives, RuntimeType, HealthType
<1>2. CASE MonitorLags
  BY <1>2, <1>t DEF MonitorLags, RuntimeType, HealthType, Signs, AfterLagged, Receiver
<1>3. CASE MonitorAborted
  BY <1>3, <1>t DEF MonitorAborted, RuntimeType, HealthType
<1>. QED
  BY <1>1, <1>2, <1>3 DEF Monitor

LEMMA CommandsTypeStep ==
  ASSUME AdaptersTypeOK, Commands
  PROVE  RuntimeType' /\ HealthType'
<1>. USE NamesAssumption
<1>t. RuntimeType /\ HealthType
  BY TypeParts
<1>1. ASSUME NEW q \in Requests, NEW a \in Wasm, CommandBegins(q, a)
      PROVE  RuntimeType' /\ HealthType'
  BY <1>1, <1>t DEF CommandBegins, RuntimeType, HealthType
<1>2. ASSUME NEW q \in Requests, CommandLocks(q) PROVE RuntimeType' /\ HealthType'
  BY <1>2, <1>t DEF CommandLocks, RuntimeType, HealthType
<1>3. ASSUME NEW q \in Requests, CommandEnds(q) PROVE RuntimeType' /\ HealthType'
  BY <1>3, <1>t DEF CommandEnds, RuntimeType, HealthType
<1>. QED
  BY <1>1, <1>2, <1>3 DEF Commands

LEMMA ChildrenTypeStep ==
  ASSUME HostTypeOK, Children
  PROVE  HostTypeOK'
<1>1. \A pause \in 1..60 : Doubled(pause) \in 1..60
  BY DEF Doubled
<1>2. ASSUME NEW a \in Ipc,
             SpawnChild(a) \/ ChildExits(a) \/ KillChild(a) \/ Pause(a) \/ PauseEnds(a)
      PROVE  HostTypeOK'
  <2>1. child' \in [Ipc -> {"top", "up", "down", "pausing", "stopped"}] /\ stopping' \in BOOLEAN
    BY <1>2 DEF HostTypeOK, SpawnChild, ChildExits, KillChild, Pause, PauseEnds, Turn
  <2>2. exits' \in [Ipc -> 0..MaxExits]
    BY <1>2, ExitsAssumption
       DEF HostTypeOK, SpawnChild, ChildExits, KillChild, Pause, PauseEnds, Turn
  <2>3. backoff' \in [Ipc -> 1..60]
    BY <1>1, <1>2 DEF HostTypeOK, SpawnChild, ChildExits, KillChild, Pause, PauseEnds, Turn
  <2>. QED
    BY <2>1, <2>2, <2>3 DEF HostTypeOK
<1>. QED
  BY <1>2 DEF Children

LEMMA TypeStep ==
  ASSUME AdaptersTypeOK, [Next]_vars
  PROVE  AdaptersTypeOK'
<1>. SUFFICES HostTypeOK' /\ RuntimeType' /\ HealthType'
  BY DEF AdaptersTypeOK, HostTypeOK, RuntimeType, HealthType
<1>t. HostTypeOK /\ RuntimeType /\ HealthType
  BY TypeParts
<1>k. ASSUME UNCHANGED hostVars PROVE HostTypeOK'
  BY <1>t, <1>k DEF hostVars, HostTypeOK
<1>r. ASSUME UNCHANGED runtimeVars PROVE RuntimeType' /\ HealthType'
  BY <1>t, <1>r DEF runtimeVars, RuntimeType, HealthType
<1>1. CASE Runtime
  BY <1>1, <1>k, RuntimeTypeStep DEF Runtime
<1>2. CASE Monitor
  BY <1>2, <1>k, MonitorTypeStep DEF Monitor
<1>3. CASE Commands
  BY <1>3, <1>k, CommandsTypeStep DEF Commands
<1>4. CASE Children
  BY <1>4, <1>t, <1>r, ChildrenTypeStep DEF Children
<1>5. ASSUME NEW a \in Ipc, Ingest(a) PROVE HostTypeOK' /\ RuntimeType' /\ HealthType'
  <2>1. Started(a) \in Event
    BY EventsAre DEF AllAdapters
  <2>. QED
    BY <1>5, <1>t, <1>k, <2>1, PublishType DEF Ingest, RuntimeType, HealthType
<1>6. ASSUME NEW a \in Ipc, Dispatch(a) PROVE HostTypeOK' /\ RuntimeType' /\ HealthType'
  BY <1>6, <1>t, <1>k, EventsAre, PublishType DEF Dispatch, CommandDispatched, RuntimeType, HealthType
<1>7. CASE Starts
  <2>1. health' \in [startup : BOOLEAN, runtime : Signs, adapter : [AllAdapters -> Signs]]
    BY <1>7, <1>t DEF Starts, StartupCompletes, HealthType, Signs
  <2>2. told' \in [adapter : [AllAdapters -> Signs], error : BOOLEAN, covered : BOOLEAN]
    BY <1>7, <1>t DEF Starts, StartupCompletes, HealthType
  <2>. QED
    BY <1>7, <1>t, <1>k, <2>1, <2>2 DEF Starts, StartupCompletes, RuntimeType, HealthType
<1>8. CASE Signal
  BY <1>8, <1>k, <1>r DEF Signal
<1>9. CASE StopRuntime
  BY <1>9, <1>t, <1>k, <1>r DEF StopRuntime, RuntimeTaskAborted, RuntimeType, HealthType
<1>10. CASE StopHost
  BY <1>10, <1>t, <1>r DEF StopHost, HostShutdown, HostTypeOK
<1>11. CASE UNCHANGED vars
  BY <1>11, <1>k, <1>r DEF vars
<1>. QED
  BY <1>1, <1>2, <1>3, <1>4, <1>5, <1>6, <1>7, <1>8, <1>9, <1>10, <1>11 DEF Next

\* Whatever the adapters, the plugins and the callers do, the tasks, mutexes and
\* health flags have their values, a plugin that is polled is held by the poll,
\* and one that a request holds is the one it called.
THEOREM AdaptersTypeCorrect == Spec => []AdaptersTypeOK
<1>1. AdaptersTypeOK /\ [Next]_vars => AdaptersTypeOK'
  BY TypeStep
<1>. QED
  BY <1>1, TypeInit, PTL DEF Spec

-----------------------------------------------------------------------------
\* What /ready says

Failed(a) == [type |-> "error", adapter |-> a]

\* An event was lost, or the runtime has failed, and the server is not ready.
Lost == receiver.lagged \/ health.runtime = "error"

\* The failure of an adapter is still to be read, and no good sign after it.
Unread(a) ==
  \E i \in DOMAIN receiver.buf :
    /\ receiver.buf[i] = Failed(a)
    /\ \A j \in DOMAIN receiver.buf : i < j => receiver.buf[j] # Started(a)

\* An adapter is not held to be well and nothing to be read says so.
Doubted(a) ==
  /\ health.adapter[a] # "ok"
  /\ \A j \in DOMAIN receiver.buf : receiver.buf[j] # Started(a)

\* The end of the startup covers an error at most once.
StageInv ==
  /\ stage = "starting" <=> ~ health.startup
  /\ stage = "starting" => ~ told.covered

\* Before the monitor subscribes no adapter has failed, and it holds none to be
\* well.
EarlyInv ==
  /\ driver = "waiting" => monitor = "none"
  /\ monitor = "none" =>
       /\ receiver = Subscribed /\ ~ told.error
       /\ \A a \in AllAdapters : health.adapter[a] = "starting"
       /\ \A a \in Wasm : run[a] \in {"none", "joined"}

\* A failure that was published is still to be read, is known, or is lost.
KnownInv ==
  /\ told.error => \E i \in DOMAIN receiver.buf : receiver.buf[i] = Failed(Nobody)
  /\ \A a \in AllAdapters : told.adapter[a] = "ok" \/ Unread(a) \/ Doubted(a)

HonestInv ==
  /\ StageInv /\ EarlyInv
  /\ monitor = "running" /\ ~ told.covered /\ ~ Lost => KnownInv

\* Whatever is published, a sign or a failure goes behind what is to be read.
LEMMA PublishKnown ==
  ASSUME AdaptersTypeOK, KnownInv, NEW e \in Event, Publish(e), monitor = "running",
         ~ receiver'.lagged, UNCHANGED health
  PROVE  KnownInv' /\ ~ receiver.lagged
<1>. DEFINE buf == receiver.buf
<1>1. buf \in Seq(Event) /\ Len(buf) \in Nat
  BY LenProperties DEF AdaptersTypeOK, Receiver
<1>2. receiver'.buf = Append(buf, e) /\ ~ receiver.lagged
  BY PublishedIs DEF Publish, AdaptersTypeOK
<1>3. /\ DOMAIN buf = 1 .. Len(buf)
      /\ DOMAIN receiver'.buf = 1 .. (Len(buf) + 1)
      /\ \A i \in 1 .. Len(buf) : receiver'.buf[i] = buf[i]
      /\ receiver'.buf[Len(buf) + 1] = e
  BY <1>1, <1>2, AppendProperties, LenProperties
<1>. HIDE DEF buf
<1>4. ASSUME told'.error
      PROVE  \E i \in DOMAIN receiver'.buf : receiver'.buf[i] = Failed(Nobody)
  <2>1. CASE told.error
    <3>1. PICK i \in DOMAIN buf : buf[i] = Failed(Nobody)
      BY <2>1 DEF KnownInv, buf
    <3>. QED
      BY <1>1, <1>3, <3>1
  <2>2. CASE ~ told.error
    <3>1. e = Failed(Nobody)
      BY <1>4, <2>2, EventKinds DEF Publish, AdaptersTypeOK, Failed
    <3>. QED
      BY <1>1, <1>3, <3>1
  <2>. QED
    BY <2>1, <2>2
<1>5. ASSUME NEW a \in AllAdapters, told'.adapter[a] # "ok"
      PROVE  Unread(a)' \/ Doubted(a)'
  <2>1. e # Started(a)
    BY <1>5 DEF Publish, Started, AdaptersTypeOK
  <2>2. CASE e = Failed(a)
    <3>1. Unread(a)'
      BY <1>1, <1>3, <2>2 DEF Unread
    <3>. QED
      BY <3>1
  <2>3. CASE e # Failed(a)
    <3>1. told.adapter[a] # "ok"
      BY <1>5, <2>3, EventKinds DEF Publish, Failed, AdaptersTypeOK
    <3>2. CASE Unread(a)
      <4>1. PICK i \in DOMAIN buf :
              buf[i] = Failed(a) /\ \A j \in DOMAIN buf : i < j => buf[j] # Started(a)
        BY <3>2 DEF Unread, buf
      <4>2. i \in DOMAIN receiver'.buf /\ receiver'.buf[i] = Failed(a)
        BY <1>1, <1>3, <4>1
      <4>3. \A j \in DOMAIN receiver'.buf : i < j => receiver'.buf[j] # Started(a)
        BY <1>1, <1>3, <2>1, <4>1
      <4>. QED
        BY <4>2, <4>3 DEF Unread, Failed, Started
    <3>3. CASE Doubted(a)
      BY <1>1, <1>3, <2>1, <3>3 DEF Doubted, buf, Started
    <3>. QED
      BY <3>1, <3>2, <3>3 DEF KnownInv
  <2>. QED
    BY <2>2, <2>3
<1>. QED
  BY <1>2, <1>4, <1>5 DEF KnownInv

LEMMA PublishHonest ==
  ASSUME AdaptersTypeOK, HonestInv, NEW e \in Event, Publish(e),
         monitor = "none" => e.type # "error",
         EarlyInv', UNCHANGED <<monitor, health, stage>>
  PROVE  HonestInv'
<1>1. StageInv'
  BY PublishType DEF HonestInv, StageInv
<1>2. ASSUME monitor = "running", ~ told'.covered, ~ Lost' PROVE KnownInv'
  <2>1. ~ receiver'.lagged /\ health.runtime # "error" /\ ~ told.covered
    BY <1>2, PublishType DEF Lost
  <2>2. ~ receiver.lagged
    BY <1>2, <2>1, PublishedIs DEF Publish, AdaptersTypeOK
  <2>3. KnownInv
    BY <1>2, <2>1, <2>2 DEF HonestInv, Lost
  <2>. QED
    BY <1>2, <2>1, <2>3, PublishKnown
<1>. QED
  BY <1>1, <1>2 DEF HonestInv

\* What the monitor has read it knows.
LEMMA ReadKnown ==
  ASSUME AdaptersTypeOK, KnownInv, MonitorReceives, health'.runtime # "error"
  PROVE  KnownInv'
<1>. DEFINE buf == receiver.buf
            e == Head(receiver.buf)
<1>1. /\ buf \in Seq(Event) /\ buf # <<>> /\ Len(buf) \in Nat /\ Len(buf) > 0
      /\ receiver'.buf = Tail(buf) /\ e = buf[1] /\ e \in Event
  <2>1. HasEvent(receiver) /\ receiver' = AfterEvent(receiver)
    BY DEF MonitorReceives
  <2>2. buf \in Seq(Event) /\ buf # <<>>
    BY <2>1 DEF AdaptersTypeOK, Receiver, HasEvent
  <2>. QED
    BY <2>1, <2>2, ReadType, LenProperties, EmptySeq, HeadTailProperties
<1>2. /\ DOMAIN buf = 1 .. Len(buf)
      /\ DOMAIN receiver'.buf = 1 .. (Len(buf) - 1)
      /\ \A i \in 1 .. (Len(buf) - 1) : receiver'.buf[i] = buf[i + 1]
  BY <1>1, HeadTailProperties, LenProperties
<1>3. health' = Noted(e) /\ UNCHANGED told
  BY DEF MonitorReceives
<1>4. e # Failed(Nobody)
  BY <1>3 DEF Noted, Failed, AdaptersTypeOK
<1>. HIDE DEF buf, e
<1>5. ASSUME told.error
      PROVE  \E i \in DOMAIN receiver'.buf : receiver'.buf[i] = Failed(Nobody)
  <2>1. PICK i \in DOMAIN buf : buf[i] = Failed(Nobody)
    BY <1>5 DEF KnownInv, buf
  <2>2. i # 1
    BY <1>1, <1>4, <2>1
  <2>3. i - 1 \in DOMAIN receiver'.buf /\ receiver'.buf[i - 1] = Failed(Nobody)
    BY <1>1, <1>2, <2>1, <2>2
  <2>. QED
    BY <2>3
<1>6. ASSUME NEW a \in AllAdapters, told.adapter[a] # "ok"
      PROVE  Unread(a)' \/ Doubted(a)'
  <2>1. CASE Unread(a)
    <3>1. PICK i \in DOMAIN buf :
            buf[i] = Failed(a) /\ \A j \in DOMAIN buf : i < j => buf[j] # Started(a)
      BY <2>1 DEF Unread, buf
    <3>2. CASE i = 1
      <4>1. e = Failed(a) /\ a # Nobody
        BY <1>1, <3>1, <3>2, NamesAssumption DEF AllAdapters
      <4>2. health'.adapter[a] # "ok"
        BY <1>3, <4>1 DEF Noted, Failed, AdaptersTypeOK
      <4>3. \A j \in DOMAIN receiver'.buf : receiver'.buf[j] # Started(a)
        BY <1>1, <1>2, <3>1, <3>2
      <4>. QED
        BY <4>2, <4>3 DEF Doubted, Started
    <3>3. CASE i # 1
      <4>1. i - 1 \in DOMAIN receiver'.buf /\ receiver'.buf[i - 1] = Failed(a)
        BY <1>1, <1>2, <3>1, <3>3
      <4>2. \A j \in DOMAIN receiver'.buf : i - 1 < j => receiver'.buf[j] # Started(a)
        BY <1>1, <1>2, <3>1, <3>3
      <4>. QED
        BY <4>1, <4>2 DEF Unread, Failed, Started
    <3>. QED
      BY <3>2, <3>3
  <2>2. CASE Doubted(a)
    <3>1. e # Started(a)
      BY <1>1, <1>2, <2>2 DEF Doubted, buf
    <3>2. health'.adapter[a] # "ok"
      BY <1>1, <1>3, <2>2, <3>1, EventKinds DEF Noted, Doubted, AdaptersTypeOK
    <3>3. \A j \in DOMAIN receiver'.buf : receiver'.buf[j] # Started(a)
      BY <1>1, <1>2, <2>2 DEF Doubted, buf
    <3>. QED
      BY <3>2, <3>3 DEF Doubted, Started
  <2>. QED
    BY <1>6, <2>1, <2>2 DEF KnownInv
<1>. QED
  BY <1>3, <1>5, <1>6 DEF KnownInv

\* Steps that publish nothing, tell the monitor nothing and spawn no adapter.
LEMMA SilentHonest ==
  ASSUME HonestInv, UNCHANGED <<receiver, health, told>>,
         stage' = "starting" <=> stage = "starting",
         monitor' = "running" => monitor = "running", EarlyInv'
  PROVE  HonestInv'
<1>1. StageInv'
  BY DEF HonestInv, StageInv
<1>2. ASSUME KnownInv PROVE KnownInv'
  BY <1>2 DEF KnownInv, Unread, Doubted, Started, Failed
<1>. QED
  BY <1>1, <1>2 DEF HonestInv, Lost

\* A step that is not of the runtime's task and leaves the monitor where it is.
LEMMA StaysEarly ==
  ASSUME HonestInv, UNCHANGED <<driver, monitor, run>>,
         monitor = "none" =>
           UNCHANGED receiver /\ told'.error = told.error /\ health'.adapter = health.adapter
  PROVE  EarlyInv'
  BY DEF HonestInv, EarlyInv, Subscribed

LEMMA RuntimeHonest ==
  ASSUME AdaptersTypeOK, HonestInv, Runtime
  PROVE  HonestInv'
<1>s. UNCHANGED stage
  BY DEF Runtime, serverVars
<1>1. CASE RunBegins
  <2>1. monitor = "none" /\ monitor' = "running" /\ UNCHANGED <<receiver, health, told>>
    BY <1>1 DEF RunBegins, HonestInv, EarlyInv
  <2>2. EarlyInv' /\ StageInv'
    BY <1>1, <1>s, <2>1 DEF RunBegins, HonestInv, EarlyInv, StageInv
  <2>3. receiver.buf = <<>> /\ ~ told.error
    BY <2>1 DEF HonestInv, EarlyInv, Subscribed
  <2>4. \A a \in AllAdapters : Doubted(a)
    BY <2>1, <2>3 DEF HonestInv, EarlyInv, Doubted
  <2>5. KnownInv'
    BY <2>1, <2>3, <2>4 DEF KnownInv, Doubted, Started
  <2>. QED
    BY <2>2, <2>5 DEF HonestInv
<1>2. CASE AbortAdapters
  <2>1. EarlyInv'
    BY <1>2 DEF AbortAdapters, HonestInv, EarlyInv, Subscribed
  <2>. QED
    BY <1>2, <1>s, <2>1, SilentHonest DEF AbortAdapters
<1>3. ASSUME NEW a \in Wasm, AdapterStarts(a) PROVE HonestInv'
  <2>1. Started(a) \in Event /\ monitor # "none"
    BY <1>3, EventsAre DEF AllAdapters, AdapterStarts, HonestInv, EarlyInv
  <2>2. EarlyInv'
    BY <1>3, <2>1 DEF AdapterStarts, HonestInv, EarlyInv
  <2>. QED
    BY <1>3, <1>s, <2>1, <2>2, PublishHonest DEF AdapterStarts
<1>4. ASSUME NEW a \in Wasm, PollBegins(a) PROVE HonestInv'
  <2>1. EarlyInv'
    BY <1>4 DEF PollBegins, HonestInv, EarlyInv, AdaptersTypeOK
  <2>. QED
    BY <1>4, <1>s, <2>1, SilentHonest DEF PollBegins
<1>5. ASSUME NEW a \in Wasm, PollReturns(a) PROVE HonestInv'
  <2>1. monitor # "none"
    BY <1>5 DEF PollReturns, HonestInv, EarlyInv
  <2>2. EarlyInv'
    BY <1>5, <2>1 DEF PollReturns, HonestInv, EarlyInv
  <2>3. CASE UNCHANGED <<receiver, told>>
    BY <1>5, <1>s, <2>2, <2>3, SilentHonest DEF PollReturns
  <2>4. CASE Publish(Device)
    BY <1>5, <1>s, <2>1, <2>2, <2>4, EventsAre, PublishHonest DEF PollReturns
  <2>5. CASE Publish(PollError(a))
    BY <1>5, <1>s, <2>1, <2>2, <2>5, EventsAre, PublishHonest DEF PollReturns
  <2>. QED
    BY <1>5, <2>3, <2>4, <2>5 DEF PollReturns
<1>6. ASSUME NEW a \in Wasm, PollPanics(a) PROVE HonestInv'
  <2>1. EarlyInv'
    BY <1>6 DEF PollPanics, HonestInv, EarlyInv
  <2>. QED
    BY <1>6, <1>s, <2>1, SilentHonest DEF PollPanics
<1>7. ASSUME NEW a \in Wasm, JoinFailed(a) PROVE HonestInv'
  <2>1. monitor # "none"
    BY <1>7 DEF JoinFailed, HonestInv, EarlyInv
  <2>2. EarlyInv'
    BY <1>7, <2>1 DEF JoinFailed, HonestInv, EarlyInv
  <2>. QED
    BY <1>7, <1>s, <2>1, <2>2, EventsAre, PublishHonest DEF JoinFailed
<1>8. ASSUME NEW a \in Wasm, AbandonedPollEnds(a) PROVE HonestInv'
  <2>1. EarlyInv'
    BY <1>8, StaysEarly DEF AbandonedPollEnds
  <2>. QED
    BY <1>8, <1>s, <2>1, SilentHonest DEF AbandonedPollEnds
<1>. QED
  BY <1>1, <1>2, <1>3, <1>4, <1>5, <1>6, <1>7, <1>8 DEF Runtime

LEMMA MonitorHonest ==
  ASSUME AdaptersTypeOK, HonestInv, Monitor
  PROVE  HonestInv'
<1>s. UNCHANGED stage
  BY DEF Monitor, serverVars
<1>1. CASE MonitorReceives
  <2>1. Head(receiver.buf) \in Event /\ ~ receiver.lagged /\ monitor = "running"
    BY <1>1, ReadType DEF MonitorReceives, HasEvent
  <2>2. health'.startup = health.startup /\ (health.runtime = "error" => health'.runtime = "error")
    BY <1>1, <2>1, EventKinds DEF MonitorReceives, Noted, AdaptersTypeOK
  <2>3. StageInv' /\ EarlyInv'
    BY <1>1, <1>s, <2>1, <2>2, StaysEarly DEF MonitorReceives, HonestInv, StageInv
  <2>4. ASSUME ~ told'.covered, ~ Lost' PROVE KnownInv'
    BY <1>1, <2>1, <2>2, <2>4, ReadKnown DEF MonitorReceives, HonestInv, Lost
  <2>. QED
    BY <2>3, <2>4 DEF HonestInv
<1>2. CASE MonitorLags
  <2>1. health'.startup = health.startup /\ health'.runtime = "error" /\ monitor = "running"
    BY <1>2 DEF MonitorLags, AdaptersTypeOK
  <2>2. StageInv' /\ EarlyInv'
    BY <1>2, <1>s, <2>1, StaysEarly DEF MonitorLags, HonestInv, StageInv
  <2>. QED
    BY <2>1, <2>2 DEF HonestInv, Lost
<1>3. CASE MonitorAborted
  <2>1. EarlyInv'
    BY <1>3 DEF MonitorAborted, HonestInv, EarlyInv
  <2>. QED
    BY <1>3, <1>s, <2>1, SilentHonest DEF MonitorAborted
<1>. QED
  BY <1>1, <1>2, <1>3 DEF Monitor

LEMMA HonestInit == Init => HonestInv
<1>. SUFFICES ASSUME Init PROVE HonestInv
  OBVIOUS
<1>1. StageInv /\ EarlyInv /\ monitor = "none"
  BY DEF Init, RuntimeInit, StageInv, EarlyInv
<1>. QED
  BY <1>1 DEF HonestInv

LEMMA HonestStep ==
  ASSUME AdaptersTypeOK, HonestInv, [Next]_vars
  PROVE  HonestInv'
<1>1. CASE Runtime
  BY <1>1, RuntimeHonest
<1>2. CASE Monitor
  BY <1>2, MonitorHonest
<1>3. CASE Commands
  <2>1. UNCHANGED <<driver, monitor, run, receiver, health, told, stage>>
    BY <1>3 DEF Commands, CommandBegins, CommandLocks, CommandEnds, serverVars
  <2>. QED
    BY <2>1, StaysEarly, SilentHonest
<1>4. CASE Children
  BY <1>4, StaysEarly, SilentHonest DEF Children, runtimeVars, serverVars
<1>5. ASSUME NEW a \in Ipc, Ingest(a) PROVE HonestInv'
  <2>1. Started(a) \in Event /\ Publish(Started(a)) /\ UNCHANGED <<driver, monitor, run, health, stage>>
    BY <1>5, EventsAre DEF AllAdapters, Ingest
  <2>2. EarlyInv'
    BY <2>1, StaysEarly DEF Publish, Started, AdaptersTypeOK
  <2>. QED
    BY <2>1, <2>2, PublishHonest DEF Started
<1>6. ASSUME NEW a \in Ipc, Dispatch(a) PROVE HonestInv'
  <2>1. Publish(Device) /\ UNCHANGED <<driver, monitor, run, health, stage>>
    BY <1>6 DEF Dispatch, CommandDispatched
  <2>2. EarlyInv'
    BY <2>1, StaysEarly DEF Publish, Device
  <2>. QED
    BY <2>1, <2>2, EventsAre, PublishHonest DEF Device
<1>7. CASE Starts
  <2>1. /\ stage = "starting" /\ stage' = "serving" /\ UNCHANGED <<driver, monitor, run, receiver>>
        /\ health'.startup /\ health'.adapter = health.adapter /\ told'.error = told.error
        /\ told'.adapter = told.adapter
        /\ ~ told'.covered => health.runtime # "error"
    BY <1>7 DEF Starts, StartupCompletes, AdaptersTypeOK
  <2>2. StageInv' /\ EarlyInv'
    BY <2>1, StaysEarly DEF HonestInv, StageInv
  <2>3. ASSUME monitor = "running", ~ told'.covered, ~ Lost' PROVE KnownInv'
    <3>1. KnownInv
      BY <2>1, <2>3 DEF HonestInv, StageInv, Lost
    <3>. QED
      BY <2>1, <3>1 DEF KnownInv, Unread, Doubted, Started, Failed
  <2>. QED
    BY <2>1, <2>2, <2>3 DEF HonestInv
<1>8. CASE Signal
  BY <1>8, StaysEarly, SilentHonest DEF Signal, runtimeVars
<1>9. CASE StopRuntime
  <2>1. UNCHANGED <<monitor, receiver, health, told>> /\ stage # "starting" /\ stage' # "starting"
    BY <1>9 DEF StopRuntime, RuntimeTaskAborted, runtimeVars
  <2>2. EarlyInv'
    BY <1>9, <2>1 DEF StopRuntime, RuntimeTaskAborted, runtimeVars, HonestInv, EarlyInv
  <2>. QED
    BY <2>1, <2>2, SilentHonest
<1>10. CASE StopHost
  BY <1>10, StaysEarly, SilentHonest DEF StopHost, runtimeVars
<1>11. CASE UNCHANGED vars
  BY <1>11, StaysEarly, SilentHonest DEF vars, runtimeVars, serverVars
<1>. QED
  BY <1>1, <1>2, <1>3, <1>4, <1>5, <1>6, <1>7, <1>8, <1>9, <1>10, <1>11 DEF Next

\* However far the monitor is behind and whatever the ring has lost, once it has
\* read all it can the server is ready only if the last sign of every adapter was
\* good and no other failure was published, unless the end of the startup
\* covered an error.
THEOREM ReadyHonestAlways == Spec => []ReadyHonest
<1>1. ASSUME HonestInv PROVE ReadyHonest
  <2>. SUFFICES ASSUME CaughtUp, ~ told.covered, Ready
                PROVE  ~ told.error /\ \A a \in AllAdapters : told.adapter[a] = "ok"
    BY DEF ReadyHonest
  <2>1. DOMAIN receiver.buf = {}
    BY DEF CaughtUp
  <2>2. KnownInv
    BY <1>1 DEF HonestInv, Lost, CaughtUp, Ready
  <2>. QED
    BY <2>1, <2>2 DEF KnownInv, Unread, Doubted, Ready
<1>2. AdaptersTypeOK /\ HonestInv /\ [Next]_vars => AdaptersTypeOK' /\ HonestInv'
  BY TypeStep, HonestStep
<1>. QED
  BY <1>1, <1>2, TypeInit, HonestInit, PTL DEF Spec
=============================================================================
