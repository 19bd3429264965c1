--------------------- MODULE AutomationSchedule_proofs ---------------------
(***************************************************************************)
(* Proofs about AutomationExecution and AutomationSchedule, for every      *)
(* finite set of triggers, every mode, schedule and policy, and any number *)
(* of crashes and store errors.                                            *)
(*                                                                         *)
(* The first part is about AutomationExecution alone: its invariants, and  *)
(* that the slots implement ExecutionSlots (its initial states and its     *)
(* steps; its fairness is left to TLC).  The second is about the schedule: *)
(* no completed occurrence fires again, the cooldown is kept, and no       *)
(* occurrence is forgotten.                                                *)
(***************************************************************************)
EXTENDS AutomationSchedule, FiniteSetTheorems, WellFoundedInduction, TLAPS

\* The invariants are inductive together: the counter is right because a trigger
\* that waits is not live, and none is stranded because the counter is right.
Inv ==
  /\ TypeOK
  /\ ActiveCounts
  /\ ModeBound
  /\ NoneStranded
  /\ OneUncancelled

-----------------------------------------------------------------------------
\* A task that goes on to another phase of its own stays live.
LEMMA StaysLive ==
  ASSUME TypeOK, NEW r \in Runs, NEW p \in TaskPhases, phase[r] \in TaskPhases,
         phase' = [phase EXCEPT ![r] = p]
  PROVE  Live' = Live
  BY DEF TypeOK, Live

\* The live runs are finitely many, and are none just when the count is zero.
LEMMA LiveFinite ==
  /\ IsFiniteSet(Live)
  /\ Cardinality(Live) \in Nat
  /\ Cardinality(Live) = 0 <=> Live = {}
<1>1. IsFiniteSet(Live)
  BY ExecutionAssumption, FS_Subset DEF Live, ExecutionAssumption
<1>. QED
  BY <1>1, FS_CardinalityType, FS_EmptySet

\* A sequence that is not empty has a head among its elements, and a tail whose
\* elements are the others, one place further down.
LEMMA HeadAndTail ==
  ASSUME NEW S, NEW q \in Seq(S), q # <<>>
  PROVE  /\ Len(q) \in Nat /\ Len(q) > 0
         /\ Head(q) \in S /\ Head(q) = q[1] /\ 1 \in DOMAIN q
         /\ Tail(q) \in Seq(S) /\ Len(Tail(q)) = Len(q) - 1
         /\ DOMAIN Tail(q) = 1 .. Len(q) - 1
         /\ \A i \in DOMAIN Tail(q) : Tail(q)[i] = q[i + 1] /\ i + 1 \in DOMAIN q
  OBVIOUS

\* A step of a run's task other than its end: the queue and the counters stand
\* and the run stays live.
LEMMA GoOnKeepsInv ==
  ASSUME Inv, NEW r \in Runs, NEW p \in TaskPhases, phase[r] \in TaskPhases,
         GoesTo(r, p),
         body' \in [Runs -> {"none", "spawned", "running", "ok", "error", "aborted"}]
  PROVE  Inv'
<1>1. Live' = Live
  BY StaysLive DEF Inv, GoesTo
<1>2. TypeOK'
  BY DEF Inv, TypeOK, GoesTo
<1>3. ActiveCounts' /\ ModeBound' /\ OneUncancelled'
  BY <1>1 DEF Inv, ActiveCounts, ModeBound, OneUncancelled, GoesTo
<1>4. \A s \in Runs : phase'[s] = "waiting" <=> phase[s] = "waiting"
  BY DEF Inv, TypeOK, GoesTo, TaskPhases
<1>5. NoneStranded'
  BY <1>1, <1>4 DEF Inv, NoneStranded, GoesTo
<1>. QED
  BY <1>2, <1>3, <1>5 DEF Inv

-----------------------------------------------------------------------------
LEMMA InitInv == Init => Inv
<1>. SUFFICES ASSUME Init PROVE Inv
  OBVIOUS
<1>0. mode \in [type : {"parallel", "single", "queued", "restart"}, max : Nat]
  <2>1. CASE mode \in [type : {"parallel", "queued"}, max : Maxima]
    <3>1. Maxima \subseteq Nat
      BY ExecutionAssumption DEF ExecutionAssumption
    <3>. QED
      BY <2>1, <3>1
  <2>2. CASE mode \in [type : {"single", "restart"}, max : {1}]
    BY <2>2
  <2>. QED
    BY <2>1, <2>2 DEF Init
<1>1. TypeOK
  BY <1>0 DEF Init, TypeOK
<1>2. Live = {}
  BY DEF Init, Live, TaskPhases
<1>3. ActiveCounts
  BY <1>2, FS_EmptySet DEF Init, ActiveCounts
<1>4. ModeBound
  BY <1>0 DEF Init, ModeBound
<1>5. NoneStranded
  BY DEF Init, NoneStranded
<1>6. OneUncancelled
  BY <1>2 DEF OneUncancelled
<1>. QED
  BY <1>1, <1>3, <1>4, <1>5, <1>6 DEF Inv

LEMMA TriggerStartsKeepsInv ==
  ASSUME Inv, NEW r \in Runs, TriggerStarts(r)
  PROVE  Inv'
<1>. USE DEF TriggerStarts
<1>1. PICK p \in FirstPhase : phase' = [phase EXCEPT ![r] = p]
  OBVIOUS
<1>2. p \in TaskPhases /\ p # "waiting"
  BY <1>1 DEF FirstPhase, TaskPhases
<1>3. r \notin Live /\ Live' = Live \cup {r}
  BY <1>1, <1>2 DEF Inv, TypeOK, Live, TaskPhases
<1>4. TypeOK'
  BY <1>1, <1>2 DEF Inv, TypeOK, Revoked
<1>5. ActiveCounts'
  BY <1>3, LiveFinite, FS_AddElement DEF Inv, ActiveCounts
<1>6. ModeBound'
  BY DEF Inv, TypeOK, ModeBound, Admits
<1>7. NoneStranded'
  <2>1. \A s \in Runs : phase'[s] = "waiting" <=> phase[s] = "waiting"
    BY <1>1, <1>2 DEF Inv, TypeOK
  <2>. QED
    BY <1>3, <2>1 DEF Inv, NoneStranded
<1>8. OneUncancelled'
  <2>. SUFFICES ASSUME mode.type = "restart" PROVE Live' \ cancelled' \subseteq {r}
    BY DEF OneUncancelled
  <2>1. Live \ cancelled \subseteq {cancel}
    BY DEF Inv, OneUncancelled
  <2>2. cancelled' = cancelled \cup ({cancel} \ {None})
    BY DEF Revoked
  <2>3. None \notin Live
    BY ExecutionAssumption DEF Live, ExecutionAssumption
  <2>. QED
    BY <1>3, <2>1, <2>2, <2>3
<1>. QED
  BY <1>4, <1>5, <1>6, <1>7, <1>8 DEF Inv

LEMMA TriggerWaitsKeepsInv ==
  ASSUME Inv, NEW r \in Runs, TriggerWaits(r)
  PROVE  Inv'
<1>. USE DEF TriggerWaits
<1>1. Live' = Live
  BY DEF Inv, TypeOK, Live, TaskPhases
<1>2. TypeOK'
  BY DEF Inv, TypeOK
<1>3. ActiveCounts' /\ OneUncancelled'
  BY <1>1 DEF Inv, ActiveCounts, OneUncancelled
<1>4. ModeBound'
  BY DEF Inv, TypeOK, ModeBound
<1>5. NoneStranded'
  <2>1. Live' # {}
    BY <1>1, LiveFinite DEF Inv, TypeOK, ActiveCounts, Admits
  <2>2. /\ Len(queue') = Len(queue) + 1
        /\ queue'[Len(queue) + 1] = r
        /\ \A i \in DOMAIN queue : queue'[i] = queue[i]
        /\ DOMAIN queue' = DOMAIN queue \cup {Len(queue) + 1}
    BY DEF Inv, TypeOK
  <2>3. \A i \in DOMAIN queue : queue[i] # r
    BY DEF Inv, NoneStranded
  <2>4. \A i, j \in DOMAIN queue' : queue'[i] = queue'[j] => i = j
    BY <2>2, <2>3 DEF Inv, NoneStranded
  <2>5. \A s \in Runs : phase'[s] = "waiting" <=> (phase[s] = "waiting" \/ s = r)
    BY DEF Inv, TypeOK
  <2>6. \A s \in Runs : phase'[s] = "waiting" <=> \E i \in DOMAIN queue' : queue'[i] = s
    BY <2>2, <2>5 DEF Inv, NoneStranded
  <2>. QED
    BY <2>1, <2>4, <2>6 DEF NoneStranded
<1>. QED
  BY <1>2, <1>3, <1>4, <1>5 DEF Inv

LEMMA TriggerDroppedKeepsInv ==
  ASSUME Inv, NEW r \in Runs, TriggerDropped(r)
  PROVE  Inv'
<1>. USE DEF TriggerDropped
<1>1. Live' = Live
  BY DEF Inv, TypeOK, Live, TaskPhases
<1>2. TypeOK'
  BY DEF Inv, TypeOK
<1>3. ActiveCounts' /\ ModeBound' /\ OneUncancelled'
  BY <1>1 DEF Inv, ActiveCounts, ModeBound, OneUncancelled
<1>4. \A s \in Runs : phase'[s] = "waiting" <=> phase[s] = "waiting"
  BY DEF Inv, TypeOK
<1>5. NoneStranded'
  BY <1>1, <1>4 DEF Inv, NoneStranded
<1>. QED
  BY <1>2, <1>3, <1>5 DEF Inv

-----------------------------------------------------------------------------
\* The end of a run: the slot is given up, or handed to the head of the queue.
LEMMA FinalizeChanges ==
  ASSUME Inv, NEW r \in Runs, Finalize(r)
  PROVE  /\ r \in Live /\ active > 0
         /\ \/ /\ queue = <<>> /\ queue' = <<>> /\ active' = active - 1
               /\ phase' = [phase EXCEPT ![r] = "done"]
               /\ Live' = Live \ {r}
            \/ /\ mode.type = "queued" /\ queue # <<>>
               /\ queue' = Tail(queue) /\ active' = active
               /\ Head(queue) \in Runs \ Live /\ phase[Head(queue)] = "waiting"
               /\ \E p \in FirstPhase :
                    phase' = [phase EXCEPT ![r] = "done", ![Head(queue)] = p]
               /\ Live' = (Live \ {r}) \cup {Head(queue)}
<1>. USE DEF Finalize
<1>1. r \in Live
  BY DEF Live, TaskPhases
<1>2. active \in Nat /\ active > 0
  BY <1>1, LiveFinite DEF Inv, TypeOK, ActiveCounts
<1>3. CASE mode.type = "queued" /\ queue # <<>>
  <2>1. Head(queue) \in Runs /\ Head(queue) = queue[1] /\ 1 \in DOMAIN queue
    BY <1>3, HeadAndTail DEF Inv, TypeOK
  <2>2. phase[Head(queue)] = "waiting"
    BY <2>1 DEF Inv, NoneStranded
  <2>3. Head(queue) \notin Live
    BY <2>2 DEF Live, TaskPhases
  <2>4. PICK p \in FirstPhase :
          phase' = [phase EXCEPT ![r] = "done", ![Head(queue)] = p]
    BY <1>3
  <2>5. Live' = (Live \ {r}) \cup {Head(queue)}
    BY <2>1, <2>2, <2>4 DEF Inv, TypeOK, Live, FirstPhase, TaskPhases
  <2>6. active' = active /\ queue' = Tail(queue)
    BY <1>2, <1>3
  <2>. QED
    BY <1>1, <1>2, <1>3, <2>1, <2>2, <2>3, <2>4, <2>5, <2>6
<1>4. CASE ~(mode.type = "queued" /\ queue # <<>>)
  <2>1. queue = <<>>
    BY <1>4 DEF Inv, ModeBound
  <2>2. active' = active - 1 /\ phase' = [phase EXCEPT ![r] = "done"] /\ queue' = queue
    BY <1>2, <1>4
  <2>3. Live' = Live \ {r}
    BY <2>2 DEF Inv, TypeOK, Live, TaskPhases
  <2>. QED
    BY <1>1, <1>2, <2>1, <2>2, <2>3
<1>. QED
  BY <1>3, <1>4

LEMMA FinalizeKeepsInv ==
  ASSUME Inv, NEW r \in Runs, Finalize(r)
  PROVE  Inv'
<1>. USE DEF Finalize
<1>1. UNCHANGED <<mode, cancel, cancelled, body>>
  OBVIOUS
<1>2. CASE /\ queue = <<>> /\ queue' = <<>> /\ active' = active - 1
           /\ phase' = [phase EXCEPT ![r] = "done"]
           /\ Live' = Live \ {r}
  <2>0. r \in Live /\ active > 0
    BY FinalizeChanges
  <2>1. TypeOK'
    BY <1>1, <1>2, <2>0 DEF Inv, TypeOK
  <2>2. ActiveCounts'
    BY <1>2, <2>0, LiveFinite, FS_RemoveElement DEF Inv, ActiveCounts
  <2>3. ModeBound' /\ OneUncancelled'
    BY <1>1, <1>2 DEF Inv, TypeOK, ModeBound, OneUncancelled
  <2>4. \A s \in Runs : phase'[s] = "waiting" <=> phase[s] = "waiting"
    BY <1>2 DEF Inv, TypeOK
  <2>5. NoneStranded'
    BY <1>2, <2>4 DEF Inv, NoneStranded
  <2>. QED
    BY <2>1, <2>2, <2>3, <2>5 DEF Inv
<1>3. CASE /\ mode.type = "queued" /\ queue # <<>>
           /\ queue' = Tail(queue) /\ active' = active
           /\ Head(queue) \in Runs \ Live /\ phase[Head(queue)] = "waiting"
           /\ \E p \in FirstPhase :
                phase' = [phase EXCEPT ![r] = "done", ![Head(queue)] = p]
           /\ Live' = (Live \ {r}) \cup {Head(queue)}
  <2>. DEFINE h == Head(queue)
  <2>0. r \in Live
    BY FinalizeChanges
  <2>1. PICK p \in FirstPhase : phase' = [phase EXCEPT ![r] = "done", ![h] = p]
    BY <1>3
  <2>2. p \in TaskPhases /\ p # "waiting"
    BY <2>1 DEF FirstPhase, TaskPhases
  <2>3. /\ Len(queue) \in Nat /\ Len(queue) > 0
        /\ h = queue[1] /\ 1 \in DOMAIN queue
        /\ queue' \in Seq(Runs) /\ Len(queue') = Len(queue) - 1
        /\ DOMAIN queue = 1 .. Len(queue) /\ DOMAIN queue' = 1 .. Len(queue) - 1
        /\ \A i \in DOMAIN queue' : queue'[i] = queue[i + 1] /\ i + 1 \in DOMAIN queue
    BY <1>3, HeadAndTail DEF Inv, TypeOK
  <2>4. TypeOK'
    BY <1>1, <1>3, <2>1, <2>2, <2>3 DEF Inv, TypeOK
  <2>5. ActiveCounts'
    <3>1. /\ IsFiniteSet(Live \ {r})
          /\ Cardinality(Live \ {r}) = Cardinality(Live) - 1
      BY <2>0, LiveFinite, FS_RemoveElement
    <3>2. Cardinality((Live \ {r}) \cup {h}) = Cardinality(Live \ {r}) + 1
      BY <1>3, <3>1, FS_AddElement
    <3>. QED
      BY <1>3, <3>1, <3>2, LiveFinite DEF Inv, ActiveCounts
  <2>6. ModeBound'
    BY <1>1, <1>3, <2>3 DEF Inv, TypeOK, ModeBound
  <2>7. OneUncancelled'
    BY <1>1, <1>3 DEF OneUncancelled
  <2>8. NoneStranded'
    <3>1. Live' # {}
      BY <1>3
    <3>2. \A i, j \in DOMAIN queue' : queue'[i] = queue'[j] => i = j
      BY <2>3 DEF Inv, NoneStranded
    <3>3. \A s \in Runs : phase'[s] = "waiting" <=> (phase[s] = "waiting" /\ s # h)
      BY <1>3, <2>0, <2>1, <2>2 DEF Inv, TypeOK, Live, TaskPhases
    <3>4. ASSUME NEW s \in Runs
          PROVE  (phase[s] = "waiting" /\ s # h) <=> \E i \in DOMAIN queue' : queue'[i] = s
      <4>1. ASSUME phase[s] = "waiting", s # h
            PROVE  \E i \in DOMAIN queue' : queue'[i] = s
        <5>1. PICK k \in DOMAIN queue : queue[k] = s
          BY <4>1 DEF Inv, NoneStranded
        <5>2. k # 1
          BY <4>1, <5>1, <2>3
        <5>3. k - 1 \in DOMAIN queue' /\ (k - 1) + 1 = k
          BY <5>1, <5>2, <2>3
        <5>4. queue'[k - 1] = s
          BY <5>1, <5>3, <2>3
        <5>. QED
          BY <5>3, <5>4
      <4>2. ASSUME NEW i \in DOMAIN queue', queue'[i] = s
            PROVE  phase[s] = "waiting" /\ s # h
        <5>1. queue[i + 1] = s /\ i + 1 \in DOMAIN queue /\ i + 1 # 1
          BY <4>2, <2>3
        <5>. QED
          BY <5>1, <2>3 DEF Inv, NoneStranded
      <4>. QED
        BY <4>1, <4>2
    <3>. QED
      BY <3>1, <3>2, <3>3, <3>4 DEF NoneStranded
  <2>. QED
    BY <2>4, <2>5, <2>6, <2>7, <2>8 DEF Inv
<1>. QED
  BY <1>2, <1>3, FinalizeChanges

-----------------------------------------------------------------------------
LEMMA StepKeepsInv == Inv /\ [Next]_vars => Inv'
<1>. SUFFICES ASSUME Inv, [Next]_vars PROVE Inv'
  OBVIOUS
<1>1. CASE UNCHANGED vars
  BY <1>1 DEF vars, Inv, TypeOK, ActiveCounts, ModeBound, NoneStranded,
              OneUncancelled, Live
<1>2. ASSUME NEW r \in Runs, Trigger(r)
      PROVE  Inv'
  BY <1>2, TriggerStartsKeepsInv, TriggerWaitsKeepsInv, TriggerDroppedKeepsInv
  DEF Trigger
<1>3. ASSUME NEW r \in Runs, TaskStep(r)
      PROVE  Inv'
  <2>1. CASE ConfirmDelay(r) \/ CheckPolicy(r) \/ Persist(r) \/ Observe(r)
    <3>1. PICK p \in {"policy", "conditions", "persist", "finalize"} : GoesTo(r, p)
      BY <2>1 DEF ConfirmDelay, CheckPolicy, Persist, Observe
    <3>. QED
      BY <2>1, <3>1, GoOnKeepsInv
      DEF ConfirmDelay, CheckPolicy, Persist, Observe, TaskPhases, Inv, TypeOK
  <2>2. CASE CheckConditions(r)
    BY <2>2, GoOnKeepsInv DEF CheckConditions, TaskPhases, Inv, TypeOK
  <2>3. CASE BackstopTimeout(r)
    BY <2>3, GoOnKeepsInv DEF BackstopTimeout, TaskPhases, Inv, TypeOK
  <2>4. CASE Finalize(r)
    BY <2>4, FinalizeKeepsInv
  <2>. QED
    BY <1>3, <2>1, <2>2, <2>3, <2>4 DEF TaskStep
<1>4. ASSUME NEW r \in Runs, BodyBegins(r) \/ BodyEnds(r)
      PROVE  Inv'
  <2>1. UNCHANGED <<mode, active, queue, cancel, cancelled, phase>>
    BY <1>4 DEF BodyBegins, BodyEnds
  <2>2. body' \in [Runs -> {"none", "spawned", "running", "ok", "error", "aborted"}]
    BY <1>4 DEF BodyBegins, BodyEnds, Inv, TypeOK
  <2>. QED
    BY <2>1, <2>2 DEF Inv, TypeOK, ActiveCounts, ModeBound, NoneStranded,
                      OneUncancelled, Live
<1>. QED
  BY <1>1, <1>2, <1>3, <1>4 DEF Next

\* Type correctness of AutomationExecution: every state of the runner's mode
\* table and of its tasks has its type.
THEOREM TypeCorrect == Spec => []TypeOK
<1>1. Inv => TypeOK
  BY DEF Inv
<1>. QED
  BY <1>1, InitInv, StepKeepsInv, PTL DEF Spec

\* For any number of triggers, in every mode: the counter is the number of live
\* runs, it respects the mode's bound, no queued trigger is stranded, and in
\* restart mode only the latest run has not been told to stop.
THEOREM SlotsSafe == Spec => [](ActiveCounts /\ ModeBound /\ NoneStranded /\ OneUncancelled)
<1>1. Inv => ActiveCounts /\ ModeBound /\ NoneStranded /\ OneUncancelled
  BY DEF Inv
<1>. QED
  BY <1>1, InitInv, StepKeepsInv, PTL DEF Spec

-----------------------------------------------------------------------------
\* The concrete condition for a slot is the abstract one, since the counter is
\* the number of runs that hold a slot.
LEMMA AdmitsIsSlotFree == Inv => (Admits <=> Slots!SlotFree)
<1>. SUFFICES ASSUME Inv PROVE Admits <=> Slots!SlotFree
  OBVIOUS
<1>1. active = Cardinality(Live) /\ (active = 0 <=> Live = {})
  BY LiveFinite DEF Inv, ActiveCounts
<1>2. Slots!Cardinality(Live) = Cardinality(Live)
  BY DEF Slots!Cardinality, Cardinality
<1>. QED
  BY <1>1, <1>2 DEF Admits, Slots!SlotFree

\* A trigger that is new neither holds a slot nor waits for one.
LEMMA NewIsUnknown ==
  ASSUME Inv, NEW r \in Runs, phase[r] = "new"
  PROVE  r \notin Slots!Known
<1>1. r \notin Live
  BY DEF Live, TaskPhases
<1>2. \A i \in DOMAIN queue : queue[i] # r
  BY DEF Inv, NoneStranded
<1>. QED
  BY <1>1, <1>2 DEF Slots!Known

LEMMA InitRefines == Init => Slots!SlotsInit
<1>. SUFFICES ASSUME Init PROVE Slots!SlotsInit
  OBVIOUS
<1>1. mode \in Slots!Modes(Nat)
  <2>1. CASE mode \in [type : {"parallel", "queued"}, max : Maxima]
    <3>1. Maxima \subseteq Nat
      BY ExecutionAssumption DEF ExecutionAssumption
    <3>. QED
      BY <2>1, <3>1 DEF Slots!Modes
  <2>2. CASE mode \in [type : {"single", "restart"}, max : {1}]
    BY <2>2 DEF Slots!Modes
  <2>. QED
    BY <2>1, <2>2 DEF Init
<1>2. Live = {}
  BY DEF Init, Live, TaskPhases
<1>. QED
  BY <1>1, <1>2 DEF Init, Slots!SlotsInit

LEMMA StepRefines ==
  Inv /\ [Next]_vars => [Slots!SlotsNext]_(Slots!slotVars)
<1>. SUFFICES ASSUME Inv, [Next]_vars
              PROVE  Slots!SlotsNext \/ UNCHANGED <<mode, Live, queue>>
  BY DEF Slots!slotVars
<1>1. CASE UNCHANGED vars
  BY <1>1 DEF vars, Live
<1>2. ASSUME NEW r \in Runs, TriggerStarts(r)
      PROVE  Slots!Start(r)
  <2>1. PICK p \in FirstPhase : phase' = [phase EXCEPT ![r] = p]
    BY <1>2 DEF TriggerStarts
  <2>2. Live' = Live \cup {r}
    BY <2>1 DEF Inv, TypeOK, Live, FirstPhase, TaskPhases
  <2>3. r \notin Slots!Known /\ Slots!SlotFree
    BY <1>2, NewIsUnknown, AdmitsIsSlotFree DEF TriggerStarts
  <2>. QED
    BY <1>2, <2>2, <2>3 DEF TriggerStarts, Slots!Start
<1>3. ASSUME NEW r \in Runs, TriggerWaits(r)
      PROVE  Slots!Wait(r)
  <2>1. Live' = Live
    BY <1>3 DEF TriggerWaits, Inv, TypeOK, Live, TaskPhases
  <2>2. r \notin Slots!Known /\ ~Slots!SlotFree
    BY <1>3, NewIsUnknown, AdmitsIsSlotFree DEF TriggerWaits
  <2>. QED
    BY <1>3, <2>1, <2>2 DEF TriggerWaits, Slots!Wait, Slots!MayWait
<1>4. ASSUME NEW r \in Runs, TriggerDropped(r)
      PROVE  UNCHANGED <<mode, Live, queue>>
  BY <1>4 DEF TriggerDropped, Inv, TypeOK, Live, TaskPhases
<1>5. ASSUME NEW r \in Runs, NEW p \in TaskPhases, phase[r] \in TaskPhases, GoesTo(r, p)
      PROVE  UNCHANGED <<mode, Live, queue>>
  BY <1>5, StaysLive DEF Inv, GoesTo
<1>6. ASSUME NEW r \in Runs,
             \/ ConfirmDelay(r) \/ CheckPolicy(r) \/ CheckConditions(r)
             \/ Observe(r) \/ BackstopTimeout(r) \/ Persist(r)
      PROVE  UNCHANGED <<mode, Live, queue>>
  <2>1. \E p \in TaskPhases : phase[r] \in TaskPhases /\ GoesTo(r, p)
    BY <1>6 DEF ConfirmDelay, CheckPolicy, CheckConditions, Observe,
                BackstopTimeout, Persist, TaskPhases
  <2>. QED
    BY <2>1, <1>5
<1>7. ASSUME NEW r \in Runs, Finalize(r)
      PROVE  Slots!Finish(r)
  <2>1. UNCHANGED mode
    BY <1>7 DEF Finalize
  <2>2. r \in Live
    BY <1>7, FinalizeChanges
  <2>3. \/ queue = <<>> /\ queue' = queue /\ Live' = Live \ {r}
        \/ queue # <<>> /\ queue' = Tail(queue) /\ Live' = (Live \ {r}) \cup {Head(queue)}
    BY <1>7, FinalizeChanges
  <2>. QED
    BY <2>1, <2>2, <2>3 DEF Slots!Finish
<1>8. ASSUME NEW r \in Runs, BodyBegins(r) \/ BodyEnds(r)
      PROVE  UNCHANGED <<mode, Live, queue>>
  BY <1>8 DEF BodyBegins, BodyEnds, Live
<1>. QED
  BY <1>1, <1>2, <1>3, <1>4, <1>6, <1>7, <1>8
  DEF Next, Trigger, TaskStep, Slots!SlotsNext

\* The runner implements ExecutionSlots, its fairness aside: whatever the runs
\* do, triggers take, wait for and hand over slots only as the mode promises.
THEOREM SlotsRefined ==
  Spec => Slots!SlotsInit /\ [][Slots!SlotsNext]_(Slots!slotVars)
<1>. QED
  BY InitInv, StepKeepsInv, InitRefines, StepRefines, PTL DEF Spec

-----------------------------------------------------------------------------
\* The schedule

ScheduleTypeInv ==
  /\ policy \in [cooldown : Nat, dedupe : Nat, resumable : BOOLEAN]
  /\ occurrences \subseteq Runs
  /\ clock \in Nat /\ lastSaved \in Nat /\ next \in Nat
  /\ loop \in {"starting", "sleeping", "ended"}
  /\ loop = "sleeping" => next \in occurrences
  /\ row \in [slot : Runs, at : Nat] \cup {None}
  /\ completed \subseteq Runs

\* There is a row as soon as one was saved, and it has the time of the last.
RowInv ==
  /\ row = None <=> completed = {}
  /\ row # None => row.at = lastSaved

\* How far a run's script is, seen from its task.
BodyInv ==
  \A r \in Runs :
    /\ phase[r] # "delay"
    /\ phase[r] \in {"new", "waiting", "dropped", "policy", "conditions"} => body[r] = "none"
    /\ phase[r] = "awaiting" => body[r] \in {"spawned", "running", "ok", "error"}
    /\ body[r] = "spawned" => phase[r] = "awaiting"
    /\ phase[r] = "persist" => body[r] = "ok"
    /\ body[r] \in {"running", "ok", "error"} => r \in started

\* A run that was triggered, or completed before a crash, is an occurrence the
\* loop has behind it.
FiredInv ==
  /\ \A r \in Runs : phase[r] # "new" =>
       /\ loop # "starting" /\ r \in occurrences /\ r <= clock
       /\ loop = "sleeping" => r < next
  /\ \A r \in completed :
       /\ r <= clock
       /\ Serial /\ loop = "sleeping" => r < next

\* Runs that have their row still to save.
Unsaved == {"waiting", "policy", "conditions", "awaiting", "persist"}

\* Where runs follow one another they do so in the order of the occurrences.
OrderInv ==
  Serial =>
    /\ \A r \in Runs : phase[r] \in Unsaved => \A s \in completed : s < r
    /\ \A r \in Live, i \in DOMAIN queue : r < queue[i]
    /\ \A i, j \in DOMAIN queue : i < j => queue[i] < queue[j]
    /\ row # None => \A s \in completed : s <= row.slot

\* A run that has passed its check of the cooldown is still outside of it.
CooldownInv ==
  Serial =>
    \A r \in Runs : (phase[r] = "conditions" \/ body[r] = "spawned") /\ r \notin blind =>
      completed = {} \/ lastSaved + policy.cooldown <= clock

\* The loop has an occurrence behind it.
Reached(o) == loop = "ended" \/ (loop = "sleeping" /\ o < next)

\* Runs whose script has still to begin, or has begun.
ToCome == {"waiting", "policy", "conditions", "awaiting"}

\* What is behind the loop, and what is behind the row it would resume from, is
\* accounted for.
AccountInv ==
  Serial =>
    /\ \A o \in occurrences : Reached(o) => o \in started \cup passed \/ phase[o] \in ToCome
    /\ row # None => \A o \in occurrences : o <= row.slot => o \in started \cup passed

ScheduleInv ==
  /\ Inv /\ ScheduleTypeInv /\ RowInv /\ BodyInv /\ FiredInv
  /\ OrderInv /\ CooldownInv /\ AccountInv

-----------------------------------------------------------------------------
\* A set of triggers that is not empty has a first.
LEMMA FirstOf ==
  ASSUME NEW T \in SUBSET Runs, T # {}
  PROVE  \E s \in T : \A o \in T : s <= o
<1>. DEFINE UpTo(x) == {y \in T : y <= x}
            F == {UpTo(x) : x \in T}
<1>1. Runs \subseteq Nat /\ IsFiniteSet(Runs)
  BY ExecutionAssumption, ScheduleAssumption DEF ExecutionAssumption, ScheduleAssumption
<1>2. IsFiniteSet(T)
  BY <1>1, FS_Subset
<1>3. IsWellFoundedOn(StrictSubsetOrdering(T), FiniteSubsetsOf(T))
  BY FS_StrictSubsetOrderingWellFounded
<1>4. F \subseteq FiniteSubsetsOf(T) /\ F # {}
  <2>1. \A x \in T : UpTo(x) \in SUBSET T /\ IsFiniteSet(UpTo(x))
    BY <1>2, FS_Subset
  <2>. QED
    BY <2>1 DEF FiniteSubsetsOf
<1>5. PICK U \in F : \A V \in F : ~ (<<V, U>> \in StrictSubsetOrdering(T))
  BY <1>3, <1>4, WFMin
<1>6. PICK x \in T : U = UpTo(x)
  OBVIOUS
<1>7. ASSUME NEW o \in T, ~(x <= o)
      PROVE  FALSE
  <2>0. T \subseteq Nat /\ x \in Nat /\ o \in Nat /\ o < x
    BY <1>1, <1>7
  <2>1. UpTo(o) \subseteq UpTo(x) /\ x \in UpTo(x) /\ x \notin UpTo(o)
    <3>1. x \in UpTo(x) /\ x \notin UpTo(o)
      BY <2>0
    <3>2. ASSUME NEW y \in T, y <= o PROVE y <= x
      BY <2>0, <3>2
    <3>. QED
      BY <3>1, <3>2
  <2>2. UpTo(o) \in SUBSET T /\ UpTo(x) \in SUBSET T /\ UpTo(o) # UpTo(x) /\ UpTo(o) \in F
    BY <2>1
  <2>. HIDE DEF UpTo
  <2>3. <<UpTo(o), UpTo(x)>> \in StrictSubsetOrdering(T)
    BY <2>1, <2>2 DEF StrictSubsetOrdering
  <2>. QED
    BY <2>2, <2>3, <1>5, <1>6
<1>. QED
  BY <1>7

\* Where the loop goes on to: the next occurrence, with none in between, or its
\* end, with none left.
LEMMA AwaitsNext ==
  ASSUME occurrences \subseteq Runs, NEW t \in Nat, Awaits(t)
  PROVE  \/ /\ loop' = "sleeping" /\ next' \in occurrences /\ t < next'
            /\ \A o \in occurrences : t < o => next' <= o
         \/ /\ loop' = "ended" /\ next' = next
            /\ \A o \in occurrences : ~(t < o)
<1>. Runs \subseteq Nat
  BY ScheduleAssumption DEF ScheduleAssumption
<1>1. CASE After(t) = {}
  BY <1>1 DEF Awaits, After
<1>2. CASE After(t) # {}
  <2>1. After(t) \in SUBSET Runs
    BY DEF After
  <2>2. \E s \in After(t) : \A o \in After(t) : s <= o
    BY <1>2, <2>1, FirstOf
  <2>3. NextAfter(t) \in After(t) /\ \A o \in After(t) : NextAfter(t) <= o
    BY <2>2 DEF NextAfter
  <2>4. loop' = "sleeping" /\ next' = NextAfter(t)
    BY <1>2 DEF Awaits
  <2>. QED
    BY <2>3, <2>4 DEF After
<1>. QED
  BY <1>1, <1>2

\* In the modes whose runs follow one another no two are alive.
LEMMA OneLive ==
  ASSUME Inv, Serial, NEW r \in Live, NEW s \in Live
  PROVE  r = s
<1>1. active <= 1
  BY DEF Inv, ModeBound, Serial
<1>2. Cardinality(Live) <= 1
  BY <1>1 DEF Inv, ActiveCounts
<1>3. IsFiniteSet(Live \ {r}) /\ Cardinality(Live \ {r}) = Cardinality(Live) - 1
  BY LiveFinite, FS_RemoveElement
<1>4. Cardinality(Live \ {r}) \in Nat
  BY <1>3, FS_CardinalityType
<1>5. Cardinality(Live \ {r}) = 0
  BY <1>2, <1>3, <1>4, LiveFinite
<1>6. Live \ {r} = {}
  BY <1>3, <1>5, FS_EmptySet
<1>. QED
  BY <1>6

\* ... and a run begins only when no other is alive or waits.
LEMMA NobodyBefore ==
  ASSUME Inv, Serial, Admits
  PROVE  Live = {} /\ queue = <<>>
<1>1. active = 0
  BY DEF Inv, TypeOK, Serial, Admits
<1>. QED
  BY <1>1, LiveFinite DEF Inv, ActiveCounts, NoneStranded

\* The runs alone: every step but a crash is one of AutomationExecution.
LEMMA RunsKeepInv ==
  ASSUME Inv, UNCHANGED vars \/ (\E r \in Runs : Trigger(r) \/ TaskStep(r) \/ BodyBegins(r) \/ BodyEnds(r))
  PROVE  Inv'
  BY StepKeepsInv DEF Next

-----------------------------------------------------------------------------
LEMMA ScheduleInitInv == ScheduleInit => ScheduleInv
<1>. SUFFICES ASSUME ScheduleInit PROVE ScheduleInv
  OBVIOUS
<1>1. Inv
  BY InitInv DEF ScheduleInit
<1>2. ScheduleTypeInv
  BY ScheduleAssumption DEF ScheduleInit, ScheduleTypeInv, ScheduleAssumption
<1>3. Live = {} /\ queue = <<>>
  BY DEF ScheduleInit, Init, Live, TaskPhases
<1>4. RowInv /\ BodyInv /\ FiredInv
  BY DEF ScheduleInit, Init, RowInv, BodyInv, FiredInv
<1>5. OrderInv
  BY <1>3 DEF ScheduleInit, Init, OrderInv, Unsaved
<1>6. CooldownInv /\ AccountInv
  BY DEF ScheduleInit, CooldownInv, AccountInv, Reached
<1>. QED
  BY <1>1, <1>2, <1>4, <1>5, <1>6 DEF ScheduleInv

LEMMA TickKeeps ==
  ASSUME ScheduleInv, Tick
  PROVE  ScheduleInv'
<1>1. UNCHANGED <<mode, active, queue, cancel, cancelled, phase, body, policy, occurrences,
                  loop, next, row, completed, lastSaved, started, passed, blind>>
  BY DEF Tick, vars, fixedVars, historyVars
<1>2. clock \in Nat /\ clock' = clock + 1 /\ lastSaved \in Nat /\ policy.cooldown \in Nat
  BY DEF Tick, ScheduleInv, ScheduleTypeInv
<1>3. Inv'
  BY <1>1, RunsKeepInv DEF ScheduleInv, vars
<1>4. Live' = Live
  BY <1>1 DEF Live
<1>5. ScheduleTypeInv' /\ RowInv' /\ BodyInv'
  BY <1>1, <1>2 DEF ScheduleInv, ScheduleTypeInv, RowInv, BodyInv
<1>6. FiredInv'
  <2>1. \A r \in Runs : r <= clock => r <= clock'
    BY <1>2, ScheduleAssumption DEF ScheduleAssumption
  <2>2. completed \subseteq Runs
    BY DEF ScheduleInv, ScheduleTypeInv
  <2>. QED
    BY <1>1, <2>1, <2>2 DEF ScheduleInv, FiredInv, Serial
<1>7. OrderInv' /\ CooldownInv' /\ AccountInv'
  BY <1>1, <1>2, <1>4 DEF ScheduleInv, OrderInv, CooldownInv, AccountInv, Reached, Serial
<1>. QED
  BY <1>3, <1>5, <1>6, <1>7 DEF ScheduleInv

LEMMA SwitchKeeps ==
  ASSUME ScheduleInv, Switch \/ UNCHANGED scheduleVars
  PROVE  ScheduleInv'
<1>1. UNCHANGED <<mode, active, queue, cancel, cancelled, phase, body, policy, occurrences,
                  clock, loop, next, row, completed, lastSaved, started, passed, blind>>
  BY DEF Switch, vars, fixedVars, historyVars, scheduleVars, loopVars
<1>2. Inv'
  BY <1>1, RunsKeepInv DEF ScheduleInv, vars
<1>3. Live' = Live
  BY <1>1 DEF Live
<1>. QED
  BY <1>1, <1>2, <1>3 DEF ScheduleInv, ScheduleTypeInv, RowInv, BodyInv, FiredInv, OrderInv,
     CooldownInv, AccountInv, Reached, Serial

-----------------------------------------------------------------------------
\* The loop goes on without firing: what it leaves behind is accounted for.
LEMMA LoopGoesOn ==
  ASSUME ScheduleInv, NEW t \in Nat, Awaits(t),
         UNCHANGED <<vars, fixedVars, clock, row, completed, lastSaved, started, blind>>,
         \A r \in Runs : phase[r] # "new" => r <= t,
         Serial => \A r \in completed : r <= t,
         passed \subseteq passed',
         Serial => \A o \in occurrences : o <= t =>
                     o \in started \cup passed' \/ phase[o] \in ToCome
  PROVE  ScheduleInv'
<1>1. UNCHANGED <<mode, active, queue, cancel, cancelled, phase, body, policy, occurrences,
                  clock, row, completed, lastSaved, started, blind>>
  BY DEF vars, fixedVars
<1>2. Inv'
  BY <1>1, RunsKeepInv DEF ScheduleInv, vars
<1>3. Live' = Live
  BY <1>1 DEF Live
<1>4. occurrences \subseteq Nat /\ completed \subseteq Nat /\ Runs \subseteq Nat
      /\ occurrences \subseteq Runs
  BY ScheduleAssumption DEF ScheduleInv, ScheduleTypeInv, ScheduleAssumption
<1>5. \/ /\ loop' = "sleeping" /\ next' \in occurrences /\ t < next'
         /\ \A o \in occurrences : t < o => next' <= o
      \/ /\ loop' = "ended" /\ next' = next
         /\ \A o \in occurrences : ~(t < o)
  BY <1>4, AwaitsNext
<1>6. ScheduleTypeInv'
  BY <1>1, <1>4, <1>5 DEF ScheduleInv, ScheduleTypeInv
<1>7. RowInv' /\ BodyInv' /\ OrderInv' /\ CooldownInv'
  BY <1>1, <1>3 DEF ScheduleInv, RowInv, BodyInv, OrderInv, CooldownInv, Serial
<1>8. FiredInv'
  <2>1. ASSUME NEW r \in Runs, r <= t, loop' = "sleeping" PROVE r < next'
    <3>1. r \in Nat /\ next' \in Nat /\ t < next'
      BY <1>4, <1>5, <2>1
    <3>. QED
      BY <2>1, <3>1
  <2>2. completed \subseteq Runs
    BY DEF ScheduleInv, ScheduleTypeInv
  <2>. QED
    BY <1>1, <1>5, <2>1, <2>2 DEF ScheduleInv, FiredInv, Serial
<1>9. AccountInv'
  <2>1. ASSUME NEW o \in occurrences, loop' = "ended" \/ (loop' = "sleeping" /\ o < next')
        PROVE  o <= t
    <3>1. o \in Nat /\ (loop' = "sleeping" => next' \in Nat)
      BY <1>4, <1>5
    <3>. QED
      BY <1>5, <2>1, <3>1
  <2>. QED
    BY <1>1, <2>1 DEF ScheduleInv, AccountInv, Reached, Serial
<1>. QED
  BY <1>2, <1>6, <1>7, <1>8, <1>9 DEF ScheduleInv

LEMMA LoopStartsKeeps ==
  ASSUME ScheduleInv, LoopStarts
  PROVE  ScheduleInv'
<1>0. /\ UNCHANGED <<vars, fixedVars, clock, row, completed, lastSaved, started, blind>>
      /\ loop = "starting"
  BY DEF LoopStarts
<1>1. \A r \in Runs : phase[r] = "new"
  BY <1>0 DEF ScheduleInv, FiredInv
<1>2. CASE policy.resumable /\ row # None /\ Awaits(row.slot) /\ UNCHANGED passed
  <2>1. row.slot \in Nat
    BY <1>2, ScheduleAssumption DEF ScheduleInv, ScheduleTypeInv, ScheduleAssumption
  <2>2. Serial => \A r \in completed : r <= row.slot
    BY <1>2 DEF ScheduleInv, OrderInv
  <2>3. Serial => \A o \in occurrences : o <= row.slot =>
          o \in started \cup passed' \/ phase[o] \in ToCome
    BY <1>2 DEF ScheduleInv, AccountInv
  <2>. QED
    BY <1>0, <1>1, <1>2, <2>1, <2>2, <2>3, LoopGoesOn
<1>3. CASE Awaits(clock) /\ passed' = passed \cup {s \in occurrences : s <= clock}
  <2>1. clock \in Nat /\ \A r \in completed : r <= clock
    BY DEF ScheduleInv, ScheduleTypeInv, FiredInv
  <2>. QED
    BY <1>0, <1>1, <1>3, <2>1, LoopGoesOn
<1>. QED
  BY <1>2, <1>3 DEF LoopStarts

LEMMA LoopSkipsKeeps ==
  ASSUME ScheduleInv, LoopSkips
  PROVE  ScheduleInv'
<1>1. /\ UNCHANGED <<vars, fixedVars, clock, row, completed, lastSaved, started, blind>>
      /\ loop = "sleeping" /\ next <= clock /\ Awaits(clock)
      /\ passed' = passed \cup {s \in occurrences : next <= s /\ s <= clock}
  BY DEF LoopSkips, Due
<1>2. clock \in Nat /\ next \in Nat /\ occurrences \subseteq Nat
  BY ScheduleAssumption DEF ScheduleInv, ScheduleTypeInv, ScheduleAssumption
<1>3. /\ \A r \in Runs : phase[r] # "new" => r <= clock
      /\ \A r \in completed : r <= clock
  BY DEF ScheduleInv, FiredInv
<1>4. ASSUME Serial, NEW o \in occurrences, o <= clock
      PROVE  o \in started \cup passed' \/ phase[o] \in ToCome
  <2>1. CASE o < next
    BY <1>1, <1>4, <2>1 DEF ScheduleInv, AccountInv, Reached
  <2>2. CASE next <= o
    BY <1>1, <1>4, <2>2
  <2>. QED
    BY <1>2, <2>1, <2>2
<1>. QED
  BY <1>1, <1>2, <1>3, <1>4, LoopGoesOn

\* The loop fires an occurrence, and a run of it begins, waits or is dropped.
LEMMA TriggerChanges ==
  ASSUME ScheduleInv, NEW n \in Runs, Trigger(n), Undelayed
  PROVE  /\ phase[n] = "new"
         /\ \E p \in {"policy", "waiting", "dropped"} : phase' = [phase EXCEPT ![n] = p]
         /\ UNCHANGED <<mode, body>>
         /\ \/ /\ Live' = Live \cup {n} /\ queue' = queue /\ Admits
            \/ /\ Live' = Live /\ queue' = Append(queue, n)
            \/ /\ Live' = Live /\ queue' = queue
<1>1. phase \in [Runs -> {"new", "waiting", "dropped", "done"} \cup TaskPhases]
  BY DEF ScheduleInv, Inv, TypeOK
<1>2. CASE TriggerStarts(n)
  <2>1. PICK p \in FirstPhase : phase' = [phase EXCEPT ![n] = p]
    BY <1>2 DEF TriggerStarts
  <2>2. p = "policy"
    BY <1>1, <2>1 DEF Undelayed, FirstPhase
  <2>3. Live' = Live \cup {n}
    BY <1>1, <2>1, <2>2 DEF Live, TaskPhases
  <2>. QED
    BY <1>2, <2>1, <2>2, <2>3 DEF TriggerStarts
<1>3. CASE TriggerWaits(n)
  <2>1. Live' = Live
    BY <1>1, <1>3 DEF TriggerWaits, Live, TaskPhases
  <2>. QED
    BY <1>3, <2>1 DEF TriggerWaits
<1>4. CASE TriggerDropped(n)
  <2>1. Live' = Live
    BY <1>1, <1>4 DEF TriggerDropped, Live, TaskPhases
  <2>. QED
    BY <1>4, <2>1 DEF TriggerDropped
<1>. QED
  BY <1>2, <1>3, <1>4 DEF Trigger

\* A run that is alive or waits is of an occurrence that has been fired.
LEMMA FiredBefore ==
  ASSUME ScheduleInv, loop = "sleeping"
  PROVE  /\ \A r \in Live : r < next
         /\ \A i \in DOMAIN queue : queue[i] \in Runs /\ queue[i] < next
<1>1. \A r \in Live : r < next
  BY DEF ScheduleInv, FiredInv, Live, TaskPhases
<1>2. ASSUME NEW i \in DOMAIN queue
      PROVE  queue[i] \in Runs /\ queue[i] < next
  <2>1. queue[i] \in Runs
    BY DEF ScheduleInv, Inv, TypeOK
  <2>2. phase[queue[i]] = "waiting"
    BY <2>1 DEF ScheduleInv, Inv, NoneStranded
  <2>. QED
    BY <2>1, <2>2 DEF ScheduleInv, FiredInv
<1>. QED
  BY <1>1, <1>2

LEMMA FiringKeepsOrder ==
  ASSUME ScheduleInv, loop = "sleeping", next \in Runs, Trigger(next), Undelayed,
         UNCHANGED <<row, completed>>
  PROVE  OrderInv'
<1>. SUFFICES ASSUME Serial
     PROVE  /\ \A r \in Runs : phase'[r] \in Unsaved => \A s \in completed : s < r
            /\ \A r \in Live', i \in DOMAIN queue' : r < queue'[i]
            /\ \A i, j \in DOMAIN queue' : i < j => queue'[i] < queue'[j]
            /\ row # None => \A s \in completed : s <= row.slot
  BY TriggerChanges DEF OrderInv, Serial
<1>0. OrderInv
  BY DEF ScheduleInv
<1>1. PICK p \in {"policy", "waiting", "dropped"} : phase' = [phase EXCEPT ![next] = p]
  BY TriggerChanges
<1>2. \A s \in completed : s < next
  BY DEF ScheduleInv, FiredInv
<1>3. \A r \in Runs : phase'[r] \in Unsaved => \A s \in completed : s < r
  BY <1>0, <1>1, <1>2 DEF OrderInv, ScheduleInv, Inv, TypeOK
<1>4. CASE Live' = Live \cup {next} /\ queue' = queue /\ Admits
  BY <1>0, <1>3, <1>4, NobodyBefore DEF OrderInv, ScheduleInv
<1>5. CASE Live' = Live /\ queue' = queue
  BY <1>0, <1>3, <1>5 DEF OrderInv
<1>6. CASE Live' = Live /\ queue' = Append(queue, next)
  <2>1. /\ \A i \in DOMAIN queue' : i \in DOMAIN queue \/ i = Len(queue) + 1
        /\ queue'[Len(queue) + 1] = next
        /\ \A i \in DOMAIN queue : queue'[i] = queue[i] /\ i \in Nat /\ i <= Len(queue)
        /\ Len(queue) \in Nat
    BY <1>6 DEF ScheduleInv, Inv, TypeOK
  <2>2. \A r \in Live', i \in DOMAIN queue' : r < queue'[i]
    BY <1>0, <1>6, <2>1, FiredBefore DEF OrderInv
  <2>3. ASSUME NEW i \in DOMAIN queue', NEW j \in DOMAIN queue', i < j
        PROVE  queue'[i] < queue'[j]
    <3>1. i \in DOMAIN queue
      BY <2>1, <2>3
    <3>2. CASE j \in DOMAIN queue
      BY <1>0, <2>1, <2>3, <3>1, <3>2 DEF OrderInv
    <3>3. CASE j = Len(queue) + 1
      BY <2>1, <3>1, <3>3, FiredBefore
    <3>. QED
      BY <2>1, <3>2, <3>3
  <2>. QED
    BY <1>0, <1>3, <2>2, <2>3 DEF OrderInv
<1>. QED
  BY <1>4, <1>5, <1>6, TriggerChanges

LEMMA LoopFiresKeeps ==
  ASSUME ScheduleInv, LoopFires
  PROVE  ScheduleInv'
<1>1. /\ UNCHANGED <<fixedVars, clock, row, completed, lastSaved, started, blind>>
      /\ loop = "sleeping" /\ next <= clock /\ Awaits(next)
  BY DEF LoopFires, Due
<1>2. /\ next \in occurrences /\ next \in Runs /\ next \in Nat /\ clock \in Nat
      /\ Runs \subseteq Nat /\ occurrences \subseteq Runs /\ completed \subseteq Runs
  BY <1>1, ScheduleAssumption DEF ScheduleInv, ScheduleTypeInv, ScheduleAssumption
<1>3. /\ \A r \in Runs : phase[r] # "new" => r < next
      /\ Serial => \A r \in completed : r < next
  BY <1>1 DEF ScheduleInv, FiredInv
<1>4. ASSUME Serial, NEW o \in occurrences, o < next
      PROVE  o \in started \cup passed \/ phase[o] \in ToCome
  BY <1>1, <1>4 DEF ScheduleInv, AccountInv, Reached
<1>5. CASE After(next) = {}
  <2>1. UNCHANGED vars /\ passed' = passed \cup {next}
    BY <1>5 DEF LoopFires
  <2>2. ASSUME Serial, NEW o \in occurrences, o <= next
        PROVE  o \in started \cup passed' \/ phase[o] \in ToCome
    <3>1. o < next \/ o = next
      BY <1>2, <2>2
    <3>. QED
      BY <1>4, <2>1, <2>2, <3>1
  <2>3. /\ \A r \in Runs : phase[r] # "new" => r <= next
        /\ Serial => \A r \in completed : r <= next
    BY <1>2, <1>3
  <2>. QED
    BY <1>1, <1>2, <2>1, <2>2, <2>3, LoopGoesOn
<1>6. CASE After(next) # {}
  <2>1. Trigger(next) /\ Undelayed /\ passed' = passed \cup {s \in {next} : phase'[s] = "dropped"}
    BY <1>6 DEF LoopFires
  <2>2. Inv'
    BY <1>2, <2>1, RunsKeepInv DEF ScheduleInv
  <2>3. PICK p \in {"policy", "waiting", "dropped"} :
          phase[next] = "new" /\ phase' = [phase EXCEPT ![next] = p] /\ UNCHANGED <<mode, body>>
    BY <1>2, <2>1, TriggerChanges
  <2>4. /\ UNCHANGED <<policy, occurrences, clock, row, completed, lastSaved, started, blind>>
    BY <1>1 DEF fixedVars
  <2>5. \/ /\ loop' = "sleeping" /\ next' \in occurrences /\ next < next' /\ next' \in Nat
           /\ \A o \in occurrences : next < o => next' <= o
        \/ /\ loop' = "ended" /\ next' = next
           /\ \A o \in occurrences : ~(next < o)
    BY <1>1, <1>2, AwaitsNext
  <2>6. ScheduleTypeInv'
    BY <1>2, <2>4, <2>5 DEF ScheduleInv, ScheduleTypeInv
  <2>7. RowInv'
    BY <2>4 DEF ScheduleInv, RowInv
  <2>8. \A r \in Runs : phase'[r] = IF r = next THEN p ELSE phase[r]
    BY <2>3 DEF ScheduleInv, Inv, TypeOK
  <2>9. BodyInv'
    BY <2>3, <2>4, <2>8 DEF ScheduleInv, BodyInv
  <2>10. FiredInv'
    <3>1. ASSUME NEW r \in Runs, r <= next, loop' = "sleeping" PROVE r < next'
      BY <1>2, <2>5, <3>1
    <3>2. ASSUME NEW r \in Runs, phase'[r] # "new" PROVE r <= next
      BY <1>2, <1>3, <2>8, <3>2
    <3>3. ASSUME NEW r \in Runs, phase'[r] # "new" PROVE r \in occurrences /\ r <= clock
      BY <1>1, <1>2, <2>8, <3>3 DEF ScheduleInv, FiredInv
    <3>4. Serial => \A r \in completed : r <= next
      BY <1>2, <1>3
    <3>5. Serial' = Serial
      BY <2>3 DEF Serial
    <3>. QED
      BY <1>2, <2>4, <2>5, <3>1, <3>2, <3>3, <3>4, <3>5 DEF ScheduleInv, FiredInv
  <2>11. OrderInv'
    BY <1>1, <1>2, <2>1, FiringKeepsOrder
  <2>12. CooldownInv'
    BY <2>3, <2>4, <2>8 DEF ScheduleInv, CooldownInv, Serial
  <2>13. AccountInv'
    <3>1. Serial' = Serial
      BY <2>3 DEF Serial
    <3>2. ASSUME Serial, NEW o \in occurrences, Reached(o)'
          PROVE  o \in started \cup passed' \/ phase'[o] \in ToCome
      <4>1. o \in Nat /\ (o < next \/ o = next \/ next < o)
        BY <1>2
      <4>2. ~(next < o)
        BY <2>5, <3>2, <4>1 DEF Reached
      <4>3. CASE o < next
        BY <1>2, <1>4, <2>1, <2>8, <3>2, <4>3
      <4>4. CASE o = next
        BY <1>2, <2>1, <2>8, <4>4 DEF ToCome
      <4>. QED
        BY <4>1, <4>2, <4>3, <4>4
    <3>. QED
      BY <2>1, <2>4, <3>1, <3>2 DEF ScheduleInv, AccountInv
  <2>. QED
    BY <2>2, <2>6, <2>7, <2>9, <2>10, <2>11, <2>12, <2>13 DEF ScheduleInv
<1>. QED
  BY <1>5, <1>6

-----------------------------------------------------------------------------
\* A live run's task goes on by a step of its own: what is left to show is what
\* its script and its cooldown become, and that it is accounted for.
LEMMA TaskGoesOn ==
  ASSUME ScheduleInv, NEW s \in Runs, NEW p \in TaskPhases,
         phase[s] \in TaskPhases, GoesTo(s, p),
         body' \in [Runs -> {"none", "spawned", "running", "ok", "error", "aborted"}],
         UNCHANGED <<fixedVars, loopVars, row, completed, lastSaved, started>>,
         passed \subseteq passed',
         BodyInv', CooldownInv',
         p \in Unsaved => phase[s] \in Unsaved,
         Serial /\ phase[s] \in ToCome /\ p \notin ToCome => s \in started \cup passed'
  PROVE  ScheduleInv'
<1>1. UNCHANGED <<mode, queue, policy, occurrences, clock, loop, next, row, completed,
                  lastSaved, started>>
  BY DEF GoesTo, fixedVars, loopVars
<1>2. Inv'
  BY GoOnKeepsInv DEF ScheduleInv
<1>3. Live' = Live
  BY StaysLive DEF ScheduleInv, Inv, GoesTo
<1>4. \A r \in Runs : phase'[r] = IF r = s THEN p ELSE phase[r]
  BY DEF GoesTo, ScheduleInv, Inv, TypeOK
<1>5. ScheduleTypeInv' /\ RowInv'
  BY <1>1 DEF ScheduleInv, ScheduleTypeInv, RowInv
<1>6. FiredInv'
  <2>1. \A r \in Runs : phase'[r] # "new" => phase[r] # "new"
    BY <1>4 DEF TaskPhases
  <2>. QED
    BY <1>1, <2>1 DEF ScheduleInv, FiredInv, Serial
<1>7. OrderInv'
  BY <1>1, <1>3, <1>4 DEF ScheduleInv, OrderInv, Serial
<1>8. AccountInv'
  <2>1. occurrences \subseteq Runs
    BY DEF ScheduleInv, ScheduleTypeInv
  <2>. QED
    BY <1>1, <1>4, <2>1 DEF ScheduleInv, AccountInv, Reached, Serial
<1>. QED
  BY <1>2, <1>5, <1>6, <1>7, <1>8 DEF ScheduleInv

LEMMA RunChecksKeeps ==
  ASSUME ScheduleInv, NEW s \in Runs, RunChecks(s)
  PROVE  ScheduleInv'
<1>1. /\ UNCHANGED <<fixedVars, loopVars, row, completed, lastSaved, started>>
      /\ UNCHANGED body /\ phase[s] = "policy"
  BY DEF RunChecks, CheckPolicy
<1>2. PICK p \in {"conditions", "finalize"} : GoesTo(s, p)
  BY DEF RunChecks, CheckPolicy
<1>3. \A r \in Runs : phase'[r] = IF r = s THEN p ELSE phase[r]
  BY <1>2 DEF GoesTo, ScheduleInv, Inv, TypeOK
<1>4. UNCHANGED <<mode, policy, occurrences, clock>>
  BY <1>1, <1>2 DEF GoesTo, fixedVars, loopVars
<1>5. BodyInv'
  BY <1>1, <1>3 DEF ScheduleInv, BodyInv
<1>6. CooldownInv'
  <2>1. blind \subseteq blind' /\ (p = "conditions" => s \in blind' \/ ~Within(policy.cooldown, row))
    BY <1>3 DEF RunChecks, Skips
  <2>2. ~Within(policy.cooldown, row) => completed = {} \/ lastSaved + policy.cooldown <= clock
    <3>1. clock \in Nat /\ lastSaved \in Nat /\ policy.cooldown \in Nat
      BY DEF ScheduleInv, ScheduleTypeInv
    <3>2. ~Within(policy.cooldown, row) => row = None \/ ~(clock < lastSaved + policy.cooldown)
      BY DEF ScheduleInv, RowInv, Within
    <3>3. ~(clock < lastSaved + policy.cooldown) => lastSaved + policy.cooldown <= clock
      BY <3>1
    <3>. QED
      BY <3>2, <3>3 DEF ScheduleInv, RowInv
  <2>. QED
    BY <1>1, <1>3, <1>4, <2>1, <2>2 DEF ScheduleInv, CooldownInv, BodyInv, Serial
<1>7. ASSUME Serial, p \notin ToCome
      PROVE  s \in started \cup passed'
  <2>1. p = "finalize" /\ Skips(s, row)
    BY <1>3, <1>7 DEF RunChecks, ToCome
  <2>2. s \in occurrences
    BY <1>1 DEF ScheduleInv, FiredInv
  <2>3. CASE Within(policy.cooldown, row)
    BY <1>3, <2>1, <2>3 DEF RunChecks
  <2>4. CASE row # None /\ s <= row.slot
    BY <1>7, <2>2, <2>4 DEF RunChecks, ScheduleInv, AccountInv
  <2>5. row # None /\ row.slot = s => s <= row.slot
    BY ScheduleAssumption DEF ScheduleAssumption
  <2>. QED
    BY <2>1, <2>3, <2>4, <2>5 DEF Skips, Within
<1>8. passed \subseteq passed'
  BY DEF RunChecks
<1>9. p \in TaskPhases /\ phase[s] \in TaskPhases /\ phase[s] \in Unsaved
  BY <1>1 DEF TaskPhases, Unsaved
<1>. QED
  BY <1>1, <1>2, <1>5, <1>6, <1>7, <1>8, <1>9, TaskGoesOn DEF ScheduleInv, Inv, TypeOK

\* The conditions let a run go on, or end it.
LEMMA ConditionsKeep ==
  ASSUME ScheduleInv, NEW s \in Runs, CheckConditions(s), RunGoesOn(s)
  PROVE  ScheduleInv'
<1>1. /\ UNCHANGED <<fixedVars, loopVars, row, completed, lastSaved, started, blind>>
      /\ passed \subseteq passed'
      /\ phase[s] = "conditions" /\ body[s] = "none"
  BY DEF RunGoesOn, CheckConditions, ScheduleInv, BodyInv
<1>2. UNCHANGED <<policy, clock>>
  BY <1>1 DEF fixedVars, loopVars
<1>3. CASE GoesTo(s, "finalize") /\ UNCHANGED body
  <2>1. \A r \in Runs : phase'[r] = IF r = s THEN "finalize" ELSE phase[r]
    BY <1>3 DEF GoesTo, ScheduleInv, Inv, TypeOK
  <2>2. s \in passed'
    BY <1>1, <1>3, <2>1 DEF RunGoesOn
  <2>3. BodyInv' /\ CooldownInv'
    BY <1>1, <1>2, <1>3, <2>1 DEF ScheduleInv, BodyInv, CooldownInv, Serial, GoesTo
  <2>4. "finalize" \in TaskPhases /\ phase[s] \in TaskPhases /\ "finalize" \notin Unsaved
    BY <1>1 DEF TaskPhases, Unsaved
  <2>. QED
    BY <1>1, <1>3, <2>2, <2>3, <2>4, TaskGoesOn DEF ScheduleInv, Inv, TypeOK
<1>4. CASE GoesTo(s, "awaiting") /\ body' = [body EXCEPT ![s] = "spawned"]
  <2>1. \A r \in Runs : /\ phase'[r] = IF r = s THEN "awaiting" ELSE phase[r]
                        /\ body'[r] = IF r = s THEN "spawned" ELSE body[r]
    BY <1>4 DEF GoesTo, ScheduleInv, Inv, TypeOK
  <2>2. BodyInv'
    BY <1>1, <2>1 DEF ScheduleInv, BodyInv
  <2>3. CooldownInv'
    BY <1>1, <1>2, <1>4, <2>1 DEF ScheduleInv, CooldownInv, Serial, GoesTo
  <2>4. /\ "awaiting" \in TaskPhases /\ phase[s] \in TaskPhases /\ phase[s] \in Unsaved
        /\ "awaiting" \in ToCome
    BY <1>1 DEF TaskPhases, Unsaved, ToCome
  <2>5. body' \in [Runs -> {"none", "spawned", "running", "ok", "error", "aborted"}]
    BY <1>4 DEF ScheduleInv, Inv, TypeOK
  <2>. QED
    BY <1>1, <1>4, <2>2, <2>3, <2>4, <2>5, TaskGoesOn
<1>. QED
  BY <1>3, <1>4 DEF CheckConditions

\* The task sees its script's end, or stops waiting for it.
LEMMA WaitEndsKeeps ==
  ASSUME ScheduleInv, NEW s \in Runs, Observe(s) \/ BackstopTimeout(s), RunGoesOn(s)
  PROVE  ScheduleInv'
<1>1. /\ UNCHANGED <<fixedVars, loopVars, row, completed, lastSaved, started, blind>>
      /\ passed \subseteq passed'
      /\ phase[s] = "awaiting"
  BY DEF RunGoesOn, Observe, BackstopTimeout
<1>2. UNCHANGED <<policy, clock>>
  BY <1>1 DEF fixedVars, loopVars
<1>3. PICK p \in {"persist", "finalize"} :
        /\ GoesTo(s, p)
        /\ p = "persist" => body[s] = "ok" /\ UNCHANGED body
  BY DEF Observe, BackstopTimeout
<1>4. /\ body' \in [Runs -> {"none", "spawned", "running", "ok", "error", "aborted"}]
      /\ \A r \in Runs : r # s => body'[r] = body[r]
      /\ body'[s] \in {"running", "ok", "error", "aborted"}
      /\ body'[s] # "aborted" => body'[s] = body[s]
  BY DEF Observe, BackstopTimeout, ScheduleInv, Inv, TypeOK
<1>5. \A r \in Runs : phase'[r] = IF r = s THEN p ELSE phase[r]
  BY <1>3 DEF GoesTo, ScheduleInv, Inv, TypeOK
<1>6. BodyInv'
  BY <1>1, <1>3, <1>4, <1>5 DEF ScheduleInv, BodyInv
<1>7. CooldownInv'
  BY <1>1, <1>2, <1>3, <1>4, <1>5 DEF ScheduleInv, CooldownInv, Serial, GoesTo
<1>8. s \in started \cup passed'
  <2>1. CASE body'[s] = "aborted"
    <3>1. p = "finalize"
      BY <1>3, <2>1
    <3>. QED
      BY <1>1, <1>5, <2>1, <3>1 DEF RunGoesOn
  <2>2. CASE body'[s] # "aborted"
    BY <1>4, <2>2 DEF ScheduleInv, BodyInv
  <2>. QED
    BY <2>1, <2>2
<1>9. p \in TaskPhases /\ phase[s] \in TaskPhases /\ phase[s] \in Unsaved
  BY <1>1 DEF TaskPhases, Unsaved
<1>. QED
  BY <1>1, <1>3, <1>4, <1>6, <1>7, <1>8, <1>9, TaskGoesOn

\* A run ends, and the next one that waits begins: it is the one after it.
LEMMA FinalizeKeepsSchedule ==
  ASSUME ScheduleInv, NEW s \in Runs, Finalize(s), Undelayed, RunGoesOn(s)
  PROVE  ScheduleInv'
<1>1. /\ UNCHANGED <<policy, occurrences, clock, loop, next, row, completed, lastSaved, started,
                     blind, mode, body>>
      /\ passed' = passed /\ phase[s] = "finalize"
  BY DEF RunGoesOn, Finalize, fixedVars, loopVars
<1>2. Inv'
  BY FinalizeKeepsInv DEF ScheduleInv
<1>3. /\ s \in Live
      /\ \/ /\ queue' = <<>> /\ Live' = Live \ {s}
            /\ \A r \in Runs : phase'[r] = IF r = s THEN "done" ELSE phase[r]
         \/ /\ queue # <<>> /\ queue' = Tail(queue)
            /\ Head(queue) \in Runs /\ phase[Head(queue)] = "waiting"
            /\ \A r \in Runs : phase'[r] = IF r = Head(queue) THEN "policy"
                                           ELSE IF r = s THEN "done" ELSE phase[r]
            /\ Live' = (Live \ {s}) \cup {Head(queue)}
  <2>1. Inv /\ TypeOK
    BY DEF ScheduleInv, Inv
  <2>2. CASE /\ queue' = <<>> /\ Live' = Live \ {s}
             /\ phase' = [phase EXCEPT ![s] = "done"]
    BY <2>1, <2>2, FinalizeChanges DEF TypeOK
  <2>3. CASE /\ queue # <<>> /\ queue' = Tail(queue)
             /\ Head(queue) \in Runs /\ phase[Head(queue)] = "waiting"
             /\ \E p \in FirstPhase :
                  phase' = [phase EXCEPT ![s] = "done", ![Head(queue)] = p]
             /\ Live' = (Live \ {s}) \cup {Head(queue)}
    <3>1. PICK p \in FirstPhase : phase' = [phase EXCEPT ![s] = "done", ![Head(queue)] = p]
      BY <2>3
    <3>2. p = "policy"
      BY <2>1, <2>3, <3>1 DEF TypeOK, Undelayed, FirstPhase
    <3>3. \A r \in Runs : phase'[r] = IF r = Head(queue) THEN "policy"
                                      ELSE IF r = s THEN "done" ELSE phase[r]
      BY <2>1, <2>3, <3>1, <3>2 DEF TypeOK
    <3>4. s \in Live
      BY <2>1, FinalizeChanges
    <3>. QED
      BY <2>3, <3>3, <3>4
  <2>. QED
    BY <2>1, <2>2, <2>3, FinalizeChanges
<1>4. \A r \in Runs :
        \/ phase'[r] = phase[r]
        \/ phase[r] = "finalize" /\ phase'[r] = "done"
        \/ phase[r] = "waiting" /\ phase'[r] = "policy"
  BY <1>1, <1>3
<1>5. ScheduleTypeInv' /\ RowInv'
  BY <1>1 DEF ScheduleInv, ScheduleTypeInv, RowInv
<1>6. BodyInv' /\ FiredInv'
  BY <1>1, <1>4 DEF ScheduleInv, BodyInv, FiredInv, Serial
<1>7. CooldownInv'
  BY <1>1, <1>4 DEF ScheduleInv, CooldownInv, Serial
<1>8. AccountInv'
  <2>1. occurrences \subseteq Runs
    BY DEF ScheduleInv, ScheduleTypeInv
  <2>. QED
    BY <1>1, <1>4, <2>1 DEF ScheduleInv, AccountInv, Reached, Serial, ToCome
<1>9. OrderInv'
  <2>. SUFFICES ASSUME Serial
       PROVE  /\ \A r \in Live', i \in DOMAIN queue' : r < queue'[i]
              /\ \A i, j \in DOMAIN queue' : i < j => queue'[i] < queue'[j]
    BY <1>1, <1>4 DEF ScheduleInv, OrderInv, Serial, Unsaved
  <2>1. CASE queue' = <<>>
    BY <2>1
  <2>2. CASE /\ queue # <<>> /\ queue' = Tail(queue)
             /\ Live' = (Live \ {s}) \cup {Head(queue)}
    <3>1. /\ Head(queue) = queue[1] /\ 1 \in DOMAIN queue
          /\ \A i \in DOMAIN queue' :
               i \in Nat /\ i > 0 /\ queue'[i] = queue[i + 1] /\ i + 1 \in DOMAIN queue
      BY <2>2, HeadAndTail DEF ScheduleInv, Inv, TypeOK
    <3>2. \A i, j \in DOMAIN queue : i < j => queue[i] < queue[j]
      BY DEF ScheduleInv, OrderInv
    <3>3. \A r \in Live' : r = queue[1]
      BY <1>3, <2>2, <3>1, OneLive DEF ScheduleInv
    <3>. QED
      BY <3>1, <3>2, <3>3
  <2>. QED
    BY <1>3, <2>1, <2>2
<1>. QED
  BY <1>2, <1>5, <1>6, <1>7, <1>8, <1>9 DEF ScheduleInv

\* Where runs follow one another, one that saves its row is alone: those that
\* have theirs still to save wait behind it.
LEMMA AloneToSave ==
  ASSUME ScheduleInv, Serial, NEW s \in Runs, phase[s] = "persist",
         NEW r \in Runs, r # s, phase[r] \in Unsaved
  PROVE  phase[r] = "waiting" /\ s < r
<1>1. s \in Live
  BY DEF Live, TaskPhases
<1>2. phase[r] = "waiting"
  BY <1>1, OneLive DEF ScheduleInv, Live, TaskPhases, Unsaved
<1>3. PICK i \in DOMAIN queue : queue[i] = r
  BY <1>2 DEF ScheduleInv, Inv, NoneStranded
<1>. QED
  BY <1>1, <1>2, <1>3 DEF ScheduleInv, OrderInv

LEMMA RunSavesKeeps ==
  ASSUME ScheduleInv, NEW s \in Runs, RunSaves(s)
  PROVE  ScheduleInv'
<1>1. /\ UNCHANGED <<fixedVars, loopVars, started, passed, blind, body>>
      /\ phase[s] = "persist" /\ GoesTo(s, "finalize")
  BY DEF RunSaves, Persist
<1>2. UNCHANGED <<mode, queue, policy, occurrences, clock, loop, next>>
  BY <1>1 DEF GoesTo, fixedVars, loopVars
<1>3. /\ \A r \in Runs : phase'[r] = IF r = s THEN "finalize" ELSE phase[r]
      /\ body \in [Runs -> {"none", "spawned", "running", "ok", "error", "aborted"}]
  BY <1>1 DEF GoesTo, ScheduleInv, Inv, TypeOK
<1>4. BodyInv'
  BY <1>1, <1>3 DEF ScheduleInv, BodyInv
<1>5. "finalize" \in TaskPhases /\ phase[s] \in TaskPhases /\ "finalize" \notin Unsaved
      /\ phase[s] \notin ToCome /\ phase[s] \in Unsaved
  BY <1>1 DEF TaskPhases, Unsaved, ToCome
<1>6. CASE UNCHANGED <<row, completed, lastSaved>>
  <2>1. CooldownInv'
    BY <1>1, <1>2, <1>3, <1>6 DEF ScheduleInv, CooldownInv, Serial
  <2>. QED
    BY <1>1, <1>3, <1>4, <1>5, <1>6, <2>1, TaskGoesOn
<1>7. CASE row' = SavedRow(s) /\ completed' = completed \cup {s} /\ lastSaved' = clock
  <2>0. /\ Runs \subseteq Nat /\ s \in Nat /\ clock \in Nat /\ None \notin [slot : Nat, at : Nat]
        /\ completed \subseteq Runs /\ occurrences \subseteq Runs
    BY ScheduleAssumption DEF ScheduleInv, ScheduleTypeInv, ScheduleAssumption
  <2>1. row' = [slot |-> s, at |-> clock] /\ row' # None
    BY <1>7, <2>0 DEF SavedRow
  <2>2. Inv'
    BY <1>1, <1>3, <1>5, GoOnKeepsInv DEF ScheduleInv
  <2>3. Live' = Live
    BY <1>1, <1>5, StaysLive DEF ScheduleInv, Inv, GoesTo
  <2>4. ScheduleTypeInv'
    BY <1>2, <1>7, <2>0, <2>1 DEF ScheduleInv, ScheduleTypeInv
  <2>5. RowInv'
    BY <1>7, <2>1 DEF RowInv
  <2>6. FiredInv'
    <3>1. \A r \in Runs : phase'[r] # "new" => phase[r] # "new"
      BY <1>1, <1>3
    <3>2. s <= clock /\ (loop = "sleeping" => s < next)
      BY <1>1 DEF ScheduleInv, FiredInv
    <3>. QED
      BY <1>2, <1>7, <3>1, <3>2 DEF ScheduleInv, FiredInv, Serial
  <2>7. OrderInv'
    <3>. SUFFICES ASSUME Serial
         PROVE  /\ \A r \in Runs : phase'[r] \in Unsaved => \A t \in completed' : t < r
                /\ \A t \in completed' : t <= s
      BY <1>2, <2>1, <2>3 DEF ScheduleInv, OrderInv, Serial
    <3>1. \A t \in completed : t < s
      BY <1>5 DEF ScheduleInv, OrderInv
    <3>2. \A t \in completed' : t <= s
      BY <1>7, <2>0, <3>1
    <3>3. ASSUME NEW r \in Runs, phase'[r] \in Unsaved
          PROVE  \A t \in completed' : t < r
      <4>1. r # s /\ phase[r] \in Unsaved
        BY <1>3, <1>5, <3>3
      <4>2. s < r
        BY <1>1, <4>1, AloneToSave
      <4>3. \A t \in completed : t < r
        BY <4>1 DEF ScheduleInv, OrderInv
      <4>. QED
        BY <1>7, <4>2, <4>3
    <3>. QED
      BY <3>2, <3>3
  <2>8. CooldownInv'
    <3>1. ASSUME Serial, NEW r \in Runs, phase'[r] = "conditions" \/ body'[r] = "spawned"
          PROVE  FALSE
      <4>1. phase[r] = "conditions" \/ phase[r] = "awaiting"
        BY <1>1, <1>3, <3>1 DEF ScheduleInv, BodyInv
      <4>. QED
        BY <1>1, <3>1, <4>1, AloneToSave DEF Unsaved
    <3>. QED
      BY <1>2, <3>1 DEF CooldownInv, Serial
  <2>9. AccountInv'
    <3>. SUFFICES ASSUME Serial
         PROVE  /\ \A o \in occurrences : Reached(o) =>
                     o \in started \cup passed \/ phase'[o] \in ToCome
                /\ \A o \in occurrences : o <= s => o \in started \cup passed
      BY <1>1, <1>2, <2>1 DEF AccountInv, Reached, Serial
    <3>1. \A o \in occurrences : Reached(o) => o \in started \cup passed \/ phase[o] \in ToCome
      BY DEF ScheduleInv, AccountInv
    <3>2. ASSUME NEW o \in occurrences, Reached(o)
          PROVE  o \in started \cup passed \/ phase'[o] \in ToCome
      BY <1>3, <1>5, <2>0, <3>1, <3>2
    <3>3. ASSUME NEW o \in occurrences, o <= s
          PROVE  o \in started \cup passed
      <4>1. Reached(o)
        <5>1. loop # "starting" /\ (loop = "sleeping" => s < next)
          BY <1>1 DEF ScheduleInv, FiredInv
        <5>2. o \in Nat /\ next \in Nat /\ loop \in {"starting", "sleeping", "ended"}
          BY <2>0 DEF ScheduleInv, ScheduleTypeInv
        <5>3. s < next => o < next
          BY <2>0, <3>3, <5>2
        <5>. QED
          BY <5>1, <5>2, <5>3 DEF Reached
      <4>2. ASSUME phase[o] \in ToCome PROVE FALSE
        <5>1. o # s /\ o \in Runs /\ phase[o] \in Unsaved
          BY <1>5, <2>0, <4>2 DEF ToCome, Unsaved
        <5>2. s < o
          BY <1>1, <5>1, AloneToSave
        <5>. QED
          BY <2>0, <3>3, <5>2
      <4>. QED
        BY <3>1, <4>1, <4>2
    <3>. QED
      BY <3>2, <3>3
  <2>. QED
    BY <1>4, <2>2, <2>4, <2>5, <2>6, <2>7, <2>8, <2>9 DEF ScheduleInv
<1>. QED
  BY <1>6, <1>7 DEF RunSaves

-----------------------------------------------------------------------------
LEMMA ScriptKeeps ==
  ASSUME ScheduleInv, NEW s \in Runs, ScriptBegins(s) \/ ScriptEnds(s)
  PROVE  ScheduleInv'
<1>1. /\ UNCHANGED <<mode, active, queue, cancel, cancelled, phase>>
      /\ UNCHANGED <<fixedVars, loopVars, row, completed, lastSaved, passed, blind>>
      /\ started \subseteq started'
  BY DEF ScriptBegins, ScriptEnds, BodyBegins, BodyEnds, historyVars
<1>2. UNCHANGED <<policy, occurrences, clock, loop, next>>
  BY <1>1 DEF fixedVars, loopVars
<1>3. Inv'
  BY RunsKeepInv DEF ScheduleInv, ScriptBegins, ScriptEnds
<1>4. Live' = Live
  BY <1>1 DEF Live
<1>5. \A r \in Runs : body'[r] = body[r] \/ (r = s /\ r \in started'
        /\ body[r] \in {"spawned", "running"} /\ body'[r] \in {"running", "ok", "error"})
  BY DEF ScheduleInv, BodyInv, Inv, TypeOK, ScriptBegins, ScriptEnds, BodyBegins, BodyEnds,
         historyVars
<1>6. ScheduleTypeInv' /\ RowInv' /\ FiredInv' /\ OrderInv'
  BY <1>1, <1>2, <1>4 DEF ScheduleInv, ScheduleTypeInv, RowInv, FiredInv, OrderInv, Serial
<1>7. BodyInv'
  BY <1>1, <1>5 DEF ScheduleInv, BodyInv
<1>8. CooldownInv' /\ AccountInv'
  BY <1>1, <1>2, <1>5 DEF ScheduleInv, CooldownInv, AccountInv, Reached, Serial
<1>. QED
  BY <1>3, <1>6, <1>7, <1>8 DEF ScheduleInv

\* What a crash leaves: the row, and what the past accounts for.
LEMMA CrashKeeps ==
  ASSUME ScheduleInv, Crash
  PROVE  ScheduleInv'
<1>1. /\ active' = 0 /\ queue' = <<>> /\ cancel' = None /\ cancelled' = {}
      /\ phase' = [r \in Runs |-> "new"] /\ body' = [r \in Runs |-> "none"]
      /\ loop' = "starting" /\ next' = 0
      /\ UNCHANGED <<mode, policy, occurrences, clock, row, completed, lastSaved, started, passed>>
  BY DEF Crash, fixedVars
<1>2. Live' = {}
  BY <1>1 DEF Live, TaskPhases
<1>3. Inv'
  <2>1. TypeOK'
    BY <1>1 DEF ScheduleInv, Inv, TypeOK
  <2>2. ActiveCounts'
    BY <1>1, <1>2, FS_EmptySet DEF ActiveCounts
  <2>3. ModeBound'
    BY <1>1 DEF ScheduleInv, Inv, TypeOK, ModeBound
  <2>4. NoneStranded' /\ OneUncancelled'
    BY <1>1, <1>2 DEF NoneStranded, OneUncancelled
  <2>. QED
    BY <2>1, <2>2, <2>3, <2>4 DEF Inv
<1>4. ScheduleTypeInv' /\ RowInv' /\ BodyInv'
  BY <1>1 DEF ScheduleInv, ScheduleTypeInv, RowInv, BodyInv
<1>5. FiredInv' /\ OrderInv'
  BY <1>1, <1>2 DEF ScheduleInv, FiredInv, OrderInv, Unsaved, Serial
<1>6. CooldownInv' /\ AccountInv'
  BY <1>1 DEF ScheduleInv, CooldownInv, AccountInv, Reached, Serial
<1>. QED
  BY <1>3, <1>4, <1>5, <1>6 DEF ScheduleInv

LEMMA ScheduleStepKeepsInv == ScheduleInv /\ [ScheduleNext]_scheduleVars => ScheduleInv'
<1>. SUFFICES ASSUME ScheduleInv, [ScheduleNext]_scheduleVars PROVE ScheduleInv'
  OBVIOUS
<1>1. CASE Tick \/ Switch \/ Crash \/ UNCHANGED scheduleVars
  BY <1>1, TickKeeps, SwitchKeeps, CrashKeeps
<1>2. CASE Loop
  BY <1>2, LoopStartsKeeps, LoopSkipsKeeps, LoopFiresKeeps DEF Loop
<1>3. ASSUME NEW s \in Runs, RunGoesOn(s)
      PROVE  ScheduleInv'
  BY <1>3, ConditionsKeep, WaitEndsKeeps, FinalizeKeepsSchedule DEF RunGoesOn
<1>4. ASSUME NEW s \in Runs, RunStep(s) \/ ScriptBegins(s) \/ ScriptEnds(s)
      PROVE  ScheduleInv'
  BY <1>3, <1>4, RunChecksKeeps, RunSavesKeeps, ScriptKeeps DEF RunStep
<1>. QED
  BY <1>1, <1>2, <1>4 DEF ScheduleNext

-----------------------------------------------------------------------------
\* A script begins for an occurrence after every completed one, and outside of
\* the cooldown: nothing else sets again and early.
LEMMA ScriptBeginsInOrder ==
  ASSUME ScheduleInv, Serial, NEW s \in Runs, ScriptBegins(s)
  PROVE  (~again => ~again') /\ (~early => ~early')
<1>1. body[s] = "spawned" /\ phase[s] = "awaiting"
  BY DEF ScriptBegins, BodyBegins, ScheduleInv, BodyInv
<1>2. s \notin completed
  <2>1. \A t \in completed : t < s
    BY <1>1 DEF ScheduleInv, OrderInv, Unsaved
  <2>2. s \in Nat
    BY ScheduleAssumption DEF ScheduleAssumption
  <2>. QED
    BY <2>1, <2>2
<1>3. s \in blind \/ completed = {} \/ ~(clock < lastSaved + policy.cooldown)
  <2>1. clock \in Nat /\ lastSaved \in Nat /\ policy.cooldown \in Nat
    BY DEF ScheduleInv, ScheduleTypeInv
  <2>. QED
    BY <1>1, <2>1 DEF ScheduleInv, CooldownInv
<1>. QED
  BY <1>2, <1>3 DEF ScriptBegins

LEMMA FlagsStand ==
  ASSUME ScheduleInv, [ScheduleNext]_scheduleVars
  PROVE  /\ CompletedOnce => CompletedOnce'
         /\ CooldownKept => CooldownKept'
<1>1. mode' = mode
  <2>1. ASSUME NEW r \in Runs, RunStep(r) \/ ScriptBegins(r) \/ ScriptEnds(r)
        PROVE  mode' = mode
    BY <2>1 DEF RunStep, RunChecks, RunGoesOn, RunSaves, ScriptBegins, ScriptEnds, CheckPolicy,
       CheckConditions, Observe, BackstopTimeout, Persist, Finalize, BodyBegins, BodyEnds, GoesTo
  <2>2. CASE Loop
    BY <2>2 DEF Loop, LoopStarts, LoopSkips, LoopFires, Trigger, TriggerStarts, TriggerWaits,
       TriggerDropped, vars
  <2>3. CASE Tick \/ Switch \/ Crash \/ UNCHANGED scheduleVars
    BY <2>3 DEF Tick, Switch, Crash, scheduleVars, vars
  <2>. QED
    BY <2>1, <2>2, <2>3 DEF ScheduleNext
<1>2. Serial' = Serial
  BY <1>1 DEF Serial
<1>3. (\E s \in Runs : ScriptBegins(s)) \/ UNCHANGED <<again, early>>
  <2>1. ASSUME NEW r \in Runs, RunStep(r) \/ ScriptEnds(r)
        PROVE  UNCHANGED <<again, early>>
    BY <2>1 DEF RunStep, RunChecks, RunGoesOn, RunSaves, ScriptEnds, historyVars
  <2>2. CASE Loop
    BY <2>2 DEF Loop, LoopStarts, LoopSkips, LoopFires
  <2>3. CASE Tick \/ Switch \/ Crash \/ UNCHANGED scheduleVars
    BY <2>3 DEF Tick, Switch, Crash, scheduleVars, historyVars
  <2>. QED
    BY <2>1, <2>2, <2>3 DEF ScheduleNext
<1>. QED
  BY <1>2, <1>3, ScriptBeginsInOrder DEF CompletedOnce, CooldownKept

-----------------------------------------------------------------------------
\* For every schedule, policy and mode, and whatever fails and whenever the
\* process dies: where runs follow one another, the script of an occurrence
\* whose row was saved does not begin again.
THEOREM CompletedOnceAlways == ScheduleSpec => []CompletedOnce
<1>1. ScheduleInit => CompletedOnce
  BY DEF ScheduleInit, CompletedOnce
<1>. QED
  BY <1>1, ScheduleInitInv, ScheduleStepKeepsInv, FlagsStand, PTL DEF ScheduleSpec

\* ... and no script begins within the cooldown of a run that was recorded,
\* unless its own load of the row failed.
THEOREM CooldownKeptAlways == ScheduleSpec => []CooldownKept
<1>1. ScheduleInit => CooldownKept
  BY DEF ScheduleInit, CooldownKept
<1>. QED
  BY <1>1, ScheduleInitInv, ScheduleStepKeepsInv, FlagsStand, PTL DEF ScheduleSpec

\* ... and once nothing is due or under way, every occurrence up to now has had
\* its script or was let go for a reason the code knows.
THEOREM NoneForgottenAlways == ScheduleSpec => []NoneForgotten
<1>1. ScheduleInv => NoneForgotten
  <2>. SUFFICES ASSUME ScheduleInv, Serial, loop = "sleeping", clock < next, Live = {},
                       NEW o \in occurrences, o <= clock
                PROVE  o \in started \cup passed
    BY DEF NoneForgotten
  <2>1. o \in Runs /\ o \in Nat /\ clock \in Nat /\ next \in Nat
    BY ScheduleAssumption DEF ScheduleInv, ScheduleTypeInv, ScheduleAssumption
  <2>2. Reached(o)
    BY <2>1 DEF Reached
  <2>3. queue = <<>>
    BY DEF ScheduleInv, Inv, NoneStranded
  <2>4. phase[o] \notin ToCome
    BY <2>1, <2>3 DEF ScheduleInv, Inv, NoneStranded, ToCome, Live, TaskPhases
  <2>. QED
    BY <2>2, <2>4 DEF ScheduleInv, AccountInv
<1>. QED
  BY <1>1, ScheduleInitInv, ScheduleStepKeepsInv, PTL DEF ScheduleSpec

=============================================================================
