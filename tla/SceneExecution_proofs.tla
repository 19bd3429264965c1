------------------------ MODULE SceneExecution_proofs ------------------------
(***************************************************************************)
(* Proofs about SceneExecution, for every finite set of requests and every *)
(* mode: also when callers go away and scripts panic, the counter stays    *)
(* the number of slots taken, no more scripts run than the mode allows,    *)
(* and the slots implement ExecutionSlots.                                 *)
(***************************************************************************)
EXTENDS SceneExecution, FiniteSetTheorems, TLAPS

\* The mode's bound on the counter; only a queued scene has a back-log.
CounterBounded ==
  /\ mode.type = "parallel" => active <= mode.max
  /\ mode.type \in {"single", "queued"} => active <= 1
  /\ mode.type # "queued" => queue = <<>>

\* The runs that wait are those in the queue, each once.
WaitingQueued ==
  /\ \A i, j \in DOMAIN queue : queue[i] = queue[j] => i = j
  /\ \A r \in Runs : phase[r] = "waiting" <=> \E i \in DOMAIN queue : queue[i] = r

\* A script that is not over belongs to a run that holds a slot, attended or not.
\* (The counter says nothing of scripts: this is what ties the two together.)
ScriptsHold == \A r \in Runs : script[r] \in {"spawned", "running"} => r \in Holding

Inv ==
  /\ TypeOK
  /\ ActiveCounts
  /\ CounterBounded
  /\ WaitingQueued
  /\ ScriptsHold

HoldingPhases == {"awaited", "background", "abandoned"}

-----------------------------------------------------------------------------
LEMMA HoldingByPhase == Holding = {r \in Runs : phase[r] \in HoldingPhases}
  BY DEF Holding, Attended, Leaked, HoldingPhases

LEMMA HoldingFinite ==
  /\ IsFiniteSet(Holding)
  /\ Cardinality(Holding) \in Nat
  /\ Cardinality(Holding) = 0 <=> Holding = {}
<1>1. IsFiniteSet(Holding)
  BY SceneAssumption, FS_Subset, HoldingByPhase DEF SceneAssumption
<1>. QED
  BY <1>1, FS_CardinalityType, FS_EmptySet

\* A queue that is not empty: its head, and its tail one place further down.
LEMMA HeadAndTail ==
  ASSUME NEW S, NEW q \in Seq(S), q # <<>>
  PROVE  /\ Len(q) \in Nat /\ Len(q) > 0
         /\ Head(q) \in S /\ Head(q) = q[1] /\ 1 \in DOMAIN q
         /\ Tail(q) \in Seq(S) /\ Len(Tail(q)) = Len(q) - 1
         /\ DOMAIN q = 1 .. Len(q) /\ DOMAIN Tail(q) = 1 .. Len(q) - 1
         /\ \A i \in DOMAIN Tail(q) : Tail(q)[i] = q[i + 1] /\ i + 1 \in DOMAIN q
  OBVIOUS

\* A step after which the same runs hold a slot and the same wait.
LEMMA SlotsStandKeepInv ==
  ASSUME Inv, TypeOK', UNCHANGED <<mode, active, queue>>,
         Holding' = Holding, ScriptsHold',
         \A r \in Runs : phase'[r] = "waiting" <=> phase[r] = "waiting"
  PROVE  Inv'
<1>1. ActiveCounts' /\ CounterBounded'
  BY DEF Inv, ActiveCounts, CounterBounded
<1>2. WaitingQueued'
  BY DEF Inv, WaitingQueued
<1>. QED
  BY <1>1, <1>2 DEF Inv

-----------------------------------------------------------------------------
LEMMA InitInv == Init => Inv
<1>. SUFFICES ASSUME Init PROVE Inv
  OBVIOUS
<1>0. mode \in [type : {"parallel", "single", "queued", "restart"}, max : Nat]
  <2>1. CASE mode \in [type : {"parallel", "queued"}, max : Maxima]
    <3>1. Maxima \subseteq Nat
      BY SceneAssumption DEF SceneAssumption
    <3>. QED
      BY <2>1, <3>1
  <2>2. CASE mode \in [type : {"single", "restart"}, max : {1}]
    BY <2>2
  <2>. QED
    BY <2>1, <2>2 DEF Init
<1>1. TypeOK
  BY <1>0 DEF Init, TypeOK
<1>2. Holding = {}
  BY HoldingByPhase DEF Init, HoldingPhases
<1>3. ActiveCounts
  BY <1>2, FS_EmptySet DEF Init, ActiveCounts
<1>4. CounterBounded
  BY <1>0 DEF Init, CounterBounded
<1>5. WaitingQueued /\ ScriptsHold
  BY DEF Init, WaitingQueued, ScriptsHold
<1>. QED
  BY <1>1, <1>3, <1>4, <1>5 DEF Inv

LEMMA ExecuteRunsKeepsInv ==
  ASSUME Inv, NEW r \in Runs, ExecuteRuns(r)
  PROVE  Inv' /\ r \notin Holding /\ Holding' = Holding \cup {r}
<1>. USE DEF ExecuteRuns
<1>1. r \notin Holding /\ Holding' = Holding \cup {r}
  BY HoldingByPhase DEF Inv, TypeOK, Holding, Attended, Leaked
<1>2. TypeOK'
  BY DEF Inv, TypeOK, Revoked
<1>3. ActiveCounts'
  BY <1>1, HoldingFinite, FS_AddElement DEF Inv, ActiveCounts
<1>4. CounterBounded'
  BY DEF Inv, TypeOK, CounterBounded, Admits
<1>5. WaitingQueued'
  BY DEF Inv, TypeOK, WaitingQueued
<1>6. ScriptsHold'
  BY <1>1 DEF Inv, TypeOK, ScriptsHold
<1>. QED
  BY <1>1, <1>2, <1>3, <1>4, <1>5, <1>6 DEF Inv

LEMMA ExecuteQueuedKeepsInv ==
  ASSUME Inv, NEW r \in Runs, ExecuteQueued(r)
  PROVE  Inv' /\ Holding' = Holding
<1>. USE DEF ExecuteQueued
<1>1. Holding' = Holding
  BY DEF Inv, TypeOK, Holding, Attended, Leaked
<1>2. TypeOK'
  BY DEF Inv, TypeOK
<1>3. ActiveCounts' /\ CounterBounded' /\ ScriptsHold'
  BY <1>1 DEF Inv, ActiveCounts, CounterBounded, ScriptsHold
<1>4. WaitingQueued'
  <2>1. /\ queue'[Len(queue) + 1] = r
        /\ \A i \in DOMAIN queue : queue'[i] = queue[i]
        /\ DOMAIN queue' = DOMAIN queue \cup {Len(queue) + 1}
    BY DEF Inv, TypeOK
  <2>2. \A i \in DOMAIN queue : queue[i] # r
    BY DEF Inv, WaitingQueued
  <2>3. \A i, j \in DOMAIN queue' : queue'[i] = queue'[j] => i = j
    BY <2>1, <2>2 DEF Inv, WaitingQueued
  <2>4. \A s \in Runs : phase'[s] = "waiting" <=> (phase[s] = "waiting" \/ s = r)
    BY DEF Inv, TypeOK
  <2>5. \A s \in Runs : phase'[s] = "waiting" <=> \E i \in DOMAIN queue' : queue'[i] = s
    BY <2>1, <2>4 DEF Inv, WaitingQueued
  <2>. QED
    BY <2>3, <2>5 DEF WaitingQueued
<1>. QED
  BY <1>1, <1>2, <1>3, <1>4 DEF Inv

\* A run that is refused, one whose request goes away or whose panic its request
\* sees, and a script that goes on: nobody takes, gives up or waits for a slot.
LEMMA OtherStepsKeepInv ==
  ASSUME Inv, NEW r \in Runs,
         \/ ExecuteDropped(r) \/ CallerGone(r) \/ ScriptBegins(r) \/ ScriptEnds(r)
         \/ RunReturns(r) /\ script[r] # "returned"
  PROVE  Inv' /\ UNCHANGED <<mode, Holding, queue>>
<1>. USE DEF ExecuteDropped, CallerGone, ScriptBegins, ScriptEnds, RunReturns
<1>1. UNCHANGED <<mode, active, queue>>
  OBVIOUS
<1>2. TypeOK'
  BY DEF Inv, TypeOK
<1>3. Holding' = Holding
  BY DEF Inv, TypeOK, Holding, Attended, Leaked
<1>4. \A s \in Runs : phase'[s] = "waiting" <=> phase[s] = "waiting"
  BY DEF Inv, TypeOK
<1>5. ScriptsHold'
  BY <1>3 DEF Inv, TypeOK, ScriptsHold
<1>. QED
  BY <1>1, <1>2, <1>3, <1>4, <1>5, SlotsStandKeepInv

-----------------------------------------------------------------------------
\* A run whose script is over gives up its slot, or hands it to the head of the
\* queue.
LEMMA HandsOverChanges ==
  ASSUME Inv, NEW r \in Runs, HandsOver(r), r \in Holding
  PROVE  /\ active > 0
         /\ \/ /\ queue = <<>> /\ queue' = <<>> /\ active' = active - 1
               /\ phase' = [phase EXCEPT ![r] = "done"]
               /\ script' = script
               /\ Holding' = Holding \ {r}
            \/ /\ mode.type = "queued" /\ queue # <<>>
               /\ queue' = Tail(queue) /\ active' = active
               /\ Head(queue) \in Runs \ Holding /\ phase[Head(queue)] = "waiting"
               /\ phase' = [phase EXCEPT ![r] = "done", ![Head(queue)] = "background"]
               /\ script' = [script EXCEPT ![Head(queue)] = "spawned"]
               /\ Holding' = (Holding \ {r}) \cup {Head(queue)}
<1>. USE DEF HandsOver
<1>1. active \in Nat /\ active > 0
  BY HoldingFinite DEF Inv, TypeOK, ActiveCounts
<1>2. CASE mode.type = "queued" /\ queue # <<>>
  <2>1. Head(queue) \in Runs /\ Head(queue) = queue[1] /\ 1 \in DOMAIN queue
    BY <1>2, HeadAndTail DEF Inv, TypeOK
  <2>2. phase[Head(queue)] = "waiting"
    BY <2>1 DEF Inv, WaitingQueued
  <2>3. Head(queue) \notin Holding
    BY <2>2, HoldingByPhase DEF HoldingPhases
  <2>4. /\ phase' = [phase EXCEPT ![r] = "done", ![Head(queue)] = "background"]
        /\ script' = [script EXCEPT ![Head(queue)] = "spawned"]
        /\ active' = active /\ queue' = Tail(queue)
    BY <1>1, <1>2
  <2>5. Holding' = (Holding \ {r}) \cup {Head(queue)}
    BY <2>1, <2>3, <2>4 DEF Inv, TypeOK, Holding, Attended, Leaked
  <2>. QED
    BY <1>1, <1>2, <2>1, <2>2, <2>3, <2>4, <2>5
<1>3. CASE ~(mode.type = "queued" /\ queue # <<>>)
  <2>1. queue = <<>>
    BY <1>3 DEF Inv, CounterBounded
  <2>2. /\ active' = active - 1 /\ phase' = [phase EXCEPT ![r] = "done"]
        /\ queue' = queue /\ script' = script
    BY <1>1, <1>3
  <2>3. Holding' = Holding \ {r}
    BY <2>2 DEF Inv, TypeOK, Holding, Attended, Leaked
  <2>. QED
    BY <1>1, <2>1, <2>2, <2>3
<1>. QED
  BY <1>2, <1>3

LEMMA HandsOverKeepsInv ==
  ASSUME Inv, NEW r \in Runs, HandsOver(r), r \in Holding,
         script[r] \notin {"spawned", "running"},
         UNCHANGED <<mode, cancel, cancelled>>
  PROVE  Inv'
<1>1. CASE /\ queue = <<>> /\ queue' = <<>> /\ active' = active - 1
           /\ phase' = [phase EXCEPT ![r] = "done"] /\ script' = script
           /\ Holding' = Holding \ {r}
  <2>0. active > 0
    BY HandsOverChanges
  <2>1. TypeOK'
    BY <1>1, <2>0 DEF Inv, TypeOK
  <2>2. ActiveCounts'
    BY <1>1, HoldingFinite, FS_RemoveElement DEF Inv, ActiveCounts
  <2>3. CounterBounded' /\ ScriptsHold'
    BY <1>1 DEF Inv, TypeOK, CounterBounded, ScriptsHold
  <2>4. \A s \in Runs : phase'[s] = "waiting" <=> phase[s] = "waiting"
    BY <1>1, HoldingByPhase DEF Inv, TypeOK, HoldingPhases
  <2>5. WaitingQueued'
    BY <1>1, <2>4 DEF Inv, WaitingQueued
  <2>. QED
    BY <2>1, <2>2, <2>3, <2>5 DEF Inv
<1>2. CASE /\ mode.type = "queued" /\ queue # <<>>
           /\ queue' = Tail(queue) /\ active' = active
           /\ Head(queue) \in Runs \ Holding /\ phase[Head(queue)] = "waiting"
           /\ phase' = [phase EXCEPT ![r] = "done", ![Head(queue)] = "background"]
           /\ script' = [script EXCEPT ![Head(queue)] = "spawned"]
           /\ Holding' = (Holding \ {r}) \cup {Head(queue)}
  <2>. DEFINE h == Head(queue)
  <2>1. /\ Len(queue) \in Nat /\ Len(queue) > 0
        /\ h = queue[1] /\ 1 \in DOMAIN queue
        /\ queue' \in Seq(Runs) /\ Len(queue') = Len(queue) - 1
        /\ DOMAIN queue = 1 .. Len(queue) /\ DOMAIN queue' = 1 .. Len(queue) - 1
        /\ \A i \in DOMAIN queue' : queue'[i] = queue[i + 1] /\ i + 1 \in DOMAIN queue
    BY <1>2, HeadAndTail DEF Inv, TypeOK
  <2>2. TypeOK'
    BY <1>2, <2>1 DEF Inv, TypeOK
  <2>3. ActiveCounts'
    <3>1. /\ IsFiniteSet(Holding \ {r})
          /\ Cardinality(Holding \ {r}) = Cardinality(Holding) - 1
      BY HoldingFinite, FS_RemoveElement
    <3>2. Cardinality((Holding \ {r}) \cup {h}) = Cardinality(Holding \ {r}) + 1
      BY <1>2, <3>1, FS_AddElement
    <3>. QED
      BY <1>2, <3>1, <3>2, HoldingFinite DEF Inv, ActiveCounts
  <2>4. CounterBounded'
    BY <1>2 DEF Inv, TypeOK, CounterBounded
  <2>5. ScriptsHold'
    BY <1>2 DEF Inv, TypeOK, ScriptsHold
  <2>6. WaitingQueued'
    <3>1. \A i, j \in DOMAIN queue' : queue'[i] = queue'[j] => i = j
      BY <2>1 DEF Inv, WaitingQueued
    <3>2. \A s \in Runs : phase'[s] = "waiting" <=> (phase[s] = "waiting" /\ s # h)
      BY <1>2, HoldingByPhase DEF Inv, TypeOK, HoldingPhases
    <3>3. ASSUME NEW s \in Runs, phase[s] = "waiting", s # h
          PROVE  \E i \in DOMAIN queue' : queue'[i] = s
      <4>1. PICK k \in DOMAIN queue : queue[k] = s
        BY <3>3 DEF Inv, WaitingQueued
      <4>2. k # 1
        BY <3>3, <4>1, <2>1
      <4>3. k - 1 \in DOMAIN queue' /\ (k - 1) + 1 = k
        BY <4>1, <4>2, <2>1
      <4>. QED
        BY <4>1, <4>3, <2>1
    <3>4. ASSUME NEW s \in Runs, NEW i \in DOMAIN queue', queue'[i] = s
          PROVE  phase[s] = "waiting" /\ s # h
      <4>1. queue[i + 1] = s /\ i + 1 \in DOMAIN queue /\ i + 1 # 1
        BY <3>4, <2>1
      <4>. QED
        BY <4>1, <2>1 DEF Inv, WaitingQueued
    <3>. QED
      BY <3>1, <3>2, <3>3, <3>4 DEF WaitingQueued
  <2>. QED
    BY <2>2, <2>3, <2>4, <2>5, <2>6 DEF Inv
<1>. QED
  BY <1>1, <1>2, HandsOverChanges

\* The two ways to a hand-over: the request's, and the queued run's own.
LEMMA ReturnsHandOver ==
  ASSUME Inv, NEW r \in Runs,
         (RunReturns(r) /\ script[r] = "returned") \/ QueuedRunReturns(r)
  PROVE  /\ HandsOver(r) /\ r \in Holding
         /\ script[r] \notin {"spawned", "running"}
         /\ UNCHANGED <<mode, cancel, cancelled>>
<1>1. r \in Holding
  BY DEF RunReturns, QueuedRunReturns, Holding, Attended
<1>2. HandsOver(r) /\ UNCHANGED <<mode, cancel, cancelled>>
  BY DEF RunReturns, QueuedRunReturns
<1>3. script[r] \notin {"spawned", "running"}
  BY DEF QueuedRunReturns
<1>. QED
  BY <1>1, <1>2, <1>3

-----------------------------------------------------------------------------
LEMMA StepKeepsInv == Inv /\ [Next]_vars => Inv'
<1>. SUFFICES ASSUME Inv, [Next]_vars PROVE Inv'
  OBVIOUS
<1>1. CASE UNCHANGED vars
  BY <1>1 DEF vars, Inv, TypeOK, ActiveCounts, CounterBounded, WaitingQueued,
              ScriptsHold, Holding, Attended, Leaked
<1>2. ASSUME NEW r \in Runs, Execute(r)
      PROVE  Inv'
  BY <1>2, ExecuteRunsKeepsInv, ExecuteQueuedKeepsInv, OtherStepsKeepInv DEF Execute
<1>3. ASSUME NEW r \in Runs, Proceed(r)
      PROVE  Inv'
  <2>1. CASE ScriptBegins(r) \/ ScriptEnds(r) \/ (RunReturns(r) /\ script[r] # "returned")
    BY <2>1, OtherStepsKeepInv
  <2>2. CASE (RunReturns(r) /\ script[r] = "returned") \/ QueuedRunReturns(r)
    BY <2>2, ReturnsHandOver, HandsOverKeepsInv
  <2>. QED
    BY <1>3, <2>1, <2>2 DEF Proceed
<1>4. ASSUME NEW r \in Runs, CallerGone(r)
      PROVE  Inv'
  BY <1>4, OtherStepsKeepInv
<1>. QED
  BY <1>1, <1>2, <1>3, <1>4 DEF Next

\* The scripts that run hold slots, and the slots are counted and bounded.
LEMMA InvBoundsScripts == Inv => ScriptsBounded
<1>. SUFFICES ASSUME Inv PROVE ScriptsBounded
  OBVIOUS
<1>. DEFINE running == {r \in Runs : script[r] \in {"spawned", "running"}}
<1>1. running \subseteq Holding
  BY DEF Inv, ScriptsHold
<1>2. Cardinality(running) <= active /\ Cardinality(running) \in Nat
  BY <1>1, HoldingFinite, FS_Subset, FS_CardinalityType DEF Inv, ActiveCounts
<1>3. mode.max \in Nat /\ active \in Nat
  BY DEF Inv, TypeOK
<1>. QED
  BY <1>2, <1>3 DEF Inv, CounterBounded, ScriptsBounded

\* Type correctness of SceneExecution, whatever callers and scripts do.
THEOREM TypeCorrect == Spec => []TypeOK
<1>1. Inv => TypeOK
  BY DEF Inv
<1>. QED
  BY <1>1, InitInv, StepKeepsInv, PTL DEF Spec

\* For any number of requests, in every mode: the counter is the number of slots
\* taken, attended or abandoned, and no more scripts run than the mode allows.
THEOREM ScriptsSafe == Spec => [](ActiveCounts /\ ScriptsBounded)
<1>1. Inv => ActiveCounts /\ ScriptsBounded
  BY InvBoundsScripts DEF Inv
<1>. QED
  BY <1>1, InitInv, StepKeepsInv, PTL DEF Spec

-----------------------------------------------------------------------------
LEMMA AdmitsIsSlotFree == Inv => (Admits <=> Slots!SlotFree)
<1>. SUFFICES ASSUME Inv PROVE Admits <=> Slots!SlotFree
  OBVIOUS
<1>1. active = Cardinality(Holding) /\ (active = 0 <=> Holding = {})
  BY HoldingFinite DEF Inv, ActiveCounts
<1>2. Slots!Cardinality(Holding) = Cardinality(Holding)
  BY DEF Slots!Cardinality, Cardinality
<1>. QED
  BY <1>1, <1>2 DEF Admits, Slots!SlotFree

LEMMA NewIsUnknown ==
  ASSUME Inv, NEW r \in Runs, phase[r] = "new"
  PROVE  r \notin Slots!Known
<1>1. r \notin Holding
  BY HoldingByPhase DEF HoldingPhases
<1>2. \A i \in DOMAIN queue : queue[i] # r
  BY DEF Inv, WaitingQueued
<1>. QED
  BY <1>1, <1>2 DEF Slots!Known

LEMMA InitRefines == Init => Slots!SlotsInit
<1>. SUFFICES ASSUME Init PROVE Slots!SlotsInit
  OBVIOUS
<1>1. mode \in Slots!Modes(Nat)
  <2>1. CASE mode \in [type : {"parallel", "queued"}, max : Maxima]
    <3>1. Maxima \subseteq Nat
      BY SceneAssumption DEF SceneAssumption
    <3>. QED
      BY <2>1, <3>1 DEF Slots!Modes
  <2>2. CASE mode \in [type : {"single", "restart"}, max : {1}]
    BY <2>2 DEF Slots!Modes
  <2>. QED
    BY <2>1, <2>2 DEF Init
<1>2. Holding = {}
  BY HoldingByPhase DEF Init, HoldingPhases
<1>. QED
  BY <1>1, <1>2 DEF Init, Slots!SlotsInit

LEMMA StepRefines == Inv /\ [Next]_vars => [Slots!SlotsNext]_(Slots!slotVars)
<1>. SUFFICES ASSUME Inv, [Next]_vars
              PROVE  Slots!SlotsNext \/ UNCHANGED <<mode, Holding, queue>>
  BY DEF Slots!slotVars
<1>1. CASE UNCHANGED vars
  BY <1>1 DEF vars, Holding, Attended, Leaked
<1>2. ASSUME NEW r \in Runs, ExecuteRuns(r)
      PROVE  Slots!Start(r)
  <2>1. r \notin Slots!Known /\ Slots!SlotFree
    BY <1>2, NewIsUnknown, AdmitsIsSlotFree DEF ExecuteRuns
  <2>2. Holding' = Holding \cup {r}
    BY <1>2, ExecuteRunsKeepsInv
  <2>. QED
    BY <1>2, <2>1, <2>2 DEF ExecuteRuns, Slots!Start
<1>3. ASSUME NEW r \in Runs, ExecuteQueued(r)
      PROVE  Slots!Wait(r)
  <2>1. r \notin Slots!Known /\ ~Slots!SlotFree
    BY <1>3, NewIsUnknown, AdmitsIsSlotFree DEF ExecuteQueued
  <2>2. Holding' = Holding
    BY <1>3, ExecuteQueuedKeepsInv
  <2>. QED
    BY <1>3, <2>1, <2>2 DEF ExecuteQueued, Slots!Wait, Slots!MayWait
<1>4. ASSUME NEW r \in Runs,
             (RunReturns(r) /\ script[r] = "returned") \/ QueuedRunReturns(r)
      PROVE  Slots!Finish(r)
  <2>1. HandsOver(r) /\ r \in Holding /\ UNCHANGED mode
    BY <1>4, ReturnsHandOver
  <2>2. \/ queue = <<>> /\ queue' = queue /\ Holding' = Holding \ {r}
        \/ /\ queue # <<>> /\ queue' = Tail(queue)
           /\ Holding' = (Holding \ {r}) \cup {Head(queue)}
    BY <2>1, HandsOverChanges
  <2>. QED
    BY <2>1, <2>2 DEF Slots!Finish
<1>5. ASSUME NEW r \in Runs,
             \/ ExecuteDropped(r) \/ CallerGone(r) \/ ScriptBegins(r) \/ ScriptEnds(r)
             \/ RunReturns(r) /\ script[r] # "returned"
      PROVE  UNCHANGED <<mode, Holding, queue>>
  BY <1>5, OtherStepsKeepInv
<1>. QED
  BY <1>1, <1>2, <1>3, <1>4, <1>5 DEF Next, Execute, Proceed, Slots!SlotsNext

\* The scene runner implements ExecutionSlots' steps, an abandoned run keeping
\* its slot: nobody overtakes the queue and no slot is taken beyond the mode's
\* bound, whichever requests are dropped.
THEOREM SlotsRefined == Spec => SlotsKept
<1>. QED
  BY InitInv, StepKeepsInv, InitRefines, StepRefines, PTL DEF Spec, SlotsKept

=============================================================================
