---------------------- MODULE AutomationReload_proofs ----------------------
(***************************************************************************)
(* Proofs about AutomationReload, for any automations, callers and users,  *)
(* and any number of reloads, edits and switches: its state is well typed, *)
(* reloads leave one catalog in all three places, flags survive them, and  *)
(* a watched directory is loaded as it is.                                 *)
(***************************************************************************)
EXTENDS AutomationReload, SequenceTheorems, TLAPS

Catalog == [ids : SUBSET Automations, off : SUBSET Automations]

\* The steps of a reload that has a catalog.
Swapping == {"loaded", "listed", "swapped"}

FilesOK ==
  /\ disk \in [files : SUBSET Automations, faulty : BOOLEAN]
  /\ notices \in Nat /\ edits \in Nat /\ notices <= edits /\ edits <= MaxEdits
  /\ recent \in BOOLEAN /\ skipped \in BOOLEAN

CatalogsOK ==
  /\ catalogs \in Seq(Catalog)
  /\ \A i \in 1..Len(catalogs) : catalogs[i].off \subseteq catalogs[i].ids
  /\ {listed, control, sent} \subseteq 1..Len(catalogs)

ReloadsOK ==
  /\ reload \in [Reloaders -> [step : {"idle", "flags"} \cup Swapping,
                               off : SUBSET Automations, catalog : Nat]]
  /\ \A r \in Reloaders :
       reload[r].step \in Swapping => reload[r].catalog \in 1..Len(catalogs)

TogglesOK ==
  /\ toggle \in [Users -> [catalog : Nat, id : Automations \cup {Bus}, off : BOOLEAN]]
  /\ \A u \in Users : toggle[u] # NoToggle =>
       /\ toggle[u].catalog \in 1..Len(catalogs)
       /\ toggle[u].id \in catalogs[toggle[u].catalog].ids

\* A runner has a catalog, and loops only while it runs; it is there exactly
\* while the supervisor has not given it up.
RunnerOK ==
  /\ supervisor \in {"spawned", "watching", "replacing", "ended"}
  /\ task \in {"none", "spawned", "running"}
  /\ active \in Nat
  /\ task = "none" <=> supervisor \in {"spawned", "replacing"}
  /\ task # "none" => active \in 1..Len(catalogs)
  /\ task = "none" => active \in 0..Len(catalogs)
  /\ loops # {} => task = "running" /\ loops \subseteq catalogs[active].ids \cup {Bus}

TypeInv == FilesOK /\ CatalogsOK /\ ReloadsOK /\ TogglesOK /\ RunnerOK

-----------------------------------------------------------------------------
\* What was loaded stays loaded: a step adds a catalog or sets flags.
Grown ==
  /\ catalogs' \in Seq(Catalog)
  /\ Len(catalogs') \in Nat /\ Len(catalogs') >= Len(catalogs)
  /\ \A i \in 1..Len(catalogs) : catalogs'[i].ids = catalogs[i].ids
  /\ \A i \in 1..Len(catalogs') : catalogs'[i].off \subseteq catalogs'[i].ids

\* A directory read becomes a catalog at the end of the sequence.
LEMMA LoadedLast ==
  ASSUME TypeInv, NEW c \in Catalog, catalogs' = Append(catalogs, c), c.off \subseteq c.ids
  PROVE  /\ Grown
         /\ Len(catalogs') = Len(catalogs) + 1
         /\ \A i \in 1..Len(catalogs) : catalogs'[i] = catalogs[i]
         /\ catalogs'[Len(catalogs) + 1] = c
<1>1. catalogs \in Seq(Catalog) /\ Len(catalogs) \in Nat
  BY DEF TypeInv, CatalogsOK
<1>2. /\ catalogs' \in Seq(Catalog)
      /\ Len(catalogs') = Len(catalogs) + 1
      /\ \A i \in 1..Len(catalogs) : catalogs'[i] = catalogs[i]
      /\ catalogs'[Len(catalogs) + 1] = c
  BY <1>1, AppendProperties
<1>3. \A i \in 1..Len(catalogs') : catalogs'[i].off \subseteq catalogs'[i].ids
  <2>1. TAKE i \in 1..Len(catalogs')
  <2>2. CASE i \in 1..Len(catalogs)
    BY <1>2, <2>2 DEF TypeInv, CatalogsOK
  <2>3. CASE i = Len(catalogs) + 1
    BY <1>2, <2>3
  <2>. QED
    BY <1>1, <1>2, <2>2, <2>3
<1>. QED
  BY <1>1, <1>2, <1>3 DEF Grown

\* A switch changes one flag of one catalog.
LEMMA FlagSet ==
  ASSUME TypeInv, NEW u \in Users, SetEnabled(u)
  PROVE  /\ Grown
         /\ Len(catalogs') = Len(catalogs)
         /\ \A i \in 1..Len(catalogs) : i # toggle[u].catalog => catalogs'[i] = catalogs[i]
         /\ catalogs'[toggle[u].catalog].off =
              IF toggle[u].off THEN catalogs[toggle[u].catalog].off \cup {toggle[u].id}
                               ELSE catalogs[toggle[u].catalog].off \ {toggle[u].id}
<1>. DEFINE k == toggle[u].catalog
            off == IF toggle[u].off THEN catalogs[k].off \cup {toggle[u].id}
                                    ELSE catalogs[k].off \ {toggle[u].id}
            c == [catalogs[k] EXCEPT !.off = off]
<1>1. /\ k \in 1..Len(catalogs) /\ toggle[u].id \in catalogs[k].ids
      /\ catalogs \in Seq(Catalog) /\ Len(catalogs) \in Nat
  BY DEF TypeInv, CatalogsOK, TogglesOK, SetEnabled
<1>2. catalogs[k] \in Catalog /\ catalogs[k].off \subseteq catalogs[k].ids
  BY <1>1, ElementOfSeq DEF TypeInv, CatalogsOK
<1>3. off \subseteq catalogs[k].ids
  BY <1>1, <1>2
<1>4. c \in Catalog /\ c.ids = catalogs[k].ids /\ c.off = off
  BY <1>2, <1>3 DEF Catalog
<1>5. catalogs' = [catalogs EXCEPT ![k] = c]
  BY DEF SetEnabled
<1>. HIDE DEF c
<1>6. /\ catalogs' \in Seq(Catalog) /\ Len(catalogs') = Len(catalogs)
      /\ \A i \in 1..Len(catalogs) : catalogs'[i] = IF i = k THEN c ELSE catalogs[i]
  BY <1>1, <1>4, <1>5, ExceptSeq
<1>7. catalogs'[k] = c
  BY <1>1, <1>6
<1>8. \A i \in 1..Len(catalogs') :
        catalogs'[i].ids = catalogs[i].ids /\ catalogs'[i].off \subseteq catalogs'[i].ids
  <2>1. TAKE i \in 1..Len(catalogs')
  <2>2. CASE i = k
    BY <1>3, <1>4, <1>7, <2>2
  <2>3. CASE i # k
    BY <1>6, <2>3 DEF TypeInv, CatalogsOK
  <2>. QED
    BY <2>2, <2>3
<1>. QED
  BY <1>1, <1>4, <1>6, <1>7, <1>8 DEF Grown

-----------------------------------------------------------------------------
\* A step that lets the catalogs stand, or grow, keeps what is taken from them.
LEMMA TakenStays ==
  ASSUME TypeInv, Grown
  PROVE  /\ UNCHANGED <<listed, control, sent>> => CatalogsOK'
         /\ UNCHANGED toggle => TogglesOK'
         /\ UNCHANGED runnerVars => RunnerOK'
<1>1. 1..Len(catalogs) \subseteq 1..Len(catalogs')
  BY DEF Grown, TypeInv, CatalogsOK
<1>2. UNCHANGED <<listed, control, sent>> => CatalogsOK'
  BY <1>1 DEF Grown, TypeInv, CatalogsOK
<1>3. UNCHANGED toggle => TogglesOK'
  BY <1>1 DEF Grown, TypeInv, TogglesOK
<1>4. ASSUME UNCHANGED runnerVars PROVE RunnerOK'
  <2>1. task # "none" => active \in 1..Len(catalogs') /\ catalogs'[active].ids = catalogs[active].ids
    BY <1>1 DEF Grown, TypeInv, RunnerOK
  <2>2. task = "none" => active \in 0..Len(catalogs')
    BY DEF Grown, TypeInv, RunnerOK, CatalogsOK
  <2>. QED
    BY <1>4, <2>1, <2>2 DEF TypeInv, RunnerOK, runnerVars
<1>. QED
  BY <1>2, <1>3, <1>4

LEMMA TypeInit == Init => TypeInv
<1>. SUFFICES ASSUME Init PROVE TypeInv
  OBVIOUS
<1>1. disk.files \in SUBSET Automations
  BY ReloadAssumption DEF Init, ReloadAssumption
<1>. DEFINE c == [ids |-> disk.files, off |-> {}]
<1>2. c \in Catalog /\ c.off \subseteq c.ids
  BY <1>1 DEF Catalog
<1>3. catalogs = <<c>>
  BY DEF Init
<1>. HIDE DEF c
<1>4. catalogs \in Seq(Catalog) /\ Len(catalogs) = 1 /\ catalogs[1] = c
  BY <1>2, <1>3
<1>0. disk \in [files : SUBSET Automations, faulty : BOOLEAN]
  <2>1. disk \in [files : Starts, faulty : {FALSE}] /\ FALSE \in BOOLEAN
    BY DEF Init
  <2>. QED
    BY <2>1, ReloadAssumption DEF ReloadAssumption
<1>5. FilesOK
  <2>1. recent \in BOOLEAN /\ skipped \in BOOLEAN
    BY Zenon DEF Init
  <2>2. notices = 0 /\ edits = 0 /\ MaxEdits \in Nat
    BY ReloadAssumption DEF Init, ReloadAssumption
  <2>. QED
    BY <1>0, <2>1, <2>2 DEF FilesOK
<1>6. CatalogsOK
  BY <1>2, <1>4 DEF CatalogsOK, Init
<1>7. ReloadsOK
  BY DEF Init, ReloadsOK, Idle, Swapping
<1>8. TogglesOK
  BY DEF Init, TogglesOK, NoToggle
<1>9. RunnerOK
  BY <1>4 DEF Init, RunnerOK
<1>. QED
  BY <1>5, <1>6, <1>7, <1>8, <1>9 DEF TypeInv

\* A catalog that has been loaded is one.
LEMMA Loaded ==
  ASSUME TypeInv, NEW i \in 1..Len(catalogs)
  PROVE  catalogs[i] \in Catalog
  BY ElementOfSeq DEF TypeInv, CatalogsOK

\* A reload that begins has the flags of the controller's catalog.
LEMMA BeginsTyped ==
  ASSUME TypeInv, NEW r \in Reloaders, ReloadBegins(r), UNCHANGED catalogs
  PROVE  ReloadsOK'
<1>0. control \in 1..Len(catalogs)
  BY DEF TypeInv, CatalogsOK
<1>1. catalogs[control].off \in SUBSET Automations
  BY <1>0, Loaded DEF Catalog
<1>. QED
  BY <1>1 DEF TypeInv, ReloadsOK, ReloadBegins, Idle, Swapping

LEMMA TypeStep == TypeInv /\ [Next]_vars => TypeInv'
<1>. SUFFICES ASSUME TypeInv, [Next]_vars PROVE TypeInv'
  OBVIOUS
<1>1. ASSUME UNCHANGED catalogVars, UNCHANGED channelVars
      PROVE  /\ CatalogsOK'
             /\ UNCHANGED toggle => TogglesOK'
             /\ UNCHANGED reload => ReloadsOK'
             /\ UNCHANGED runnerVars => RunnerOK'
  BY <1>1 DEF TypeInv, CatalogsOK, TogglesOK, ReloadsOK, RunnerOK, catalogVars, channelVars,
              runnerVars
<1>2. UNCHANGED fileVars => FilesOK'
  BY DEF TypeInv, FilesOK, fileVars
<1>3. CASE EditFiles
  <2>0. PICK a \in Automations, whole \in BOOLEAN :
          disk' \in {[files |-> disk.files \cup {a}, faulty |-> ~whole],
                     [files |-> disk.files \ {a}, faulty |-> disk.faulty /\ ~whole]} \ {disk}
    BY <1>3 DEF EditFiles
  <2>4. disk.files \in SUBSET Automations
    BY DEF TypeInv, FilesOK
  <2>5. (~whole) \in BOOLEAN /\ (disk.faulty /\ ~whole) \in BOOLEAN
    OBVIOUS
  <2>6. disk' \in [files : SUBSET Automations, faulty : BOOLEAN]
    <3>1. ASSUME NEW f \in SUBSET Automations, NEW b \in BOOLEAN
          PROVE  [files |-> f, faulty |-> b] \in [files : SUBSET Automations, faulty : BOOLEAN]
      OBVIOUS
    <3>2. disk.files \cup {a} \in SUBSET Automations /\ disk.files \ {a} \in SUBSET Automations
      BY <2>4
    <3>3. /\ [files |-> disk.files \cup {a}, faulty |-> ~whole]
                \in [files : SUBSET Automations, faulty : BOOLEAN]
          /\ [files |-> disk.files \ {a}, faulty |-> disk.faulty /\ ~whole]
                \in [files : SUBSET Automations, faulty : BOOLEAN]
      BY <2>5, <3>1, <3>2, Zenon
    <3>. QED
      BY <2>0, <3>3, Zenon
  <2>1. disk' \in [files : SUBSET Automations, faulty : BOOLEAN] /\ UNCHANGED <<recent, skipped>>
    BY <1>3, <2>6 DEF EditFiles
  <2>2. notices' = notices + 1 /\ edits' = edits + 1 /\ edits < MaxEdits
    BY <1>3 DEF EditFiles, Noticed
  <2>3. FilesOK'
    BY <2>1, <2>2, ReloadAssumption DEF TypeInv, FilesOK, ReloadAssumption
  <2>. QED
    BY <1>1, <1>3, <2>3 DEF EditFiles, TypeInv, switchVars
<1>4. CASE WindowEnds
  BY <1>1, <1>4 DEF WindowEnds, TypeInv, FilesOK, switchVars
<1>5. CASE WatcherTakes
  BY <1>1, <1>5, BeginsTyped DEF WatcherTakes, TypeInv, FilesOK, switchVars, catalogVars, Reloaders
<1>6. CASE WatcherSkips
  BY <1>1, <1>6 DEF WatcherSkips, TypeInv, FilesOK, switchVars
<1>7. ASSUME NEW c \in Callers, RequestReload(c) PROVE TypeInv'
  BY <1>1, <1>2, <1>7, BeginsTyped DEF RequestReload, TypeInv, switchVars, catalogVars, Reloaders
<1>8. ASSUME NEW r \in Reloaders, LoadFiles(r) PROVE TypeInv'
  <2>1. FilesOK'
    BY <1>8 DEF LoadFiles, TypeInv, FilesOK
  <2>2. CASE disk.faulty
    <3>1. ReloadsOK'
      BY <1>8, <2>2 DEF LoadFiles, TypeInv, ReloadsOK, Idle, Swapping
    <3>. QED
      BY <1>1, <1>8, <2>1, <2>2, <3>1 DEF LoadFiles, TypeInv, switchVars, catalogVars
  <2>3. CASE ~disk.faulty
    <3>. DEFINE c == NewCatalog(disk.files, reload[r].off)
    <3>1. c \in Catalog /\ c.off \subseteq c.ids
      BY DEF TypeInv, FilesOK, ReloadsOK, NewCatalog, Catalog
    <3>2. catalogs' = Append(catalogs, c)
      BY <1>8, <2>3 DEF LoadFiles
    <3>. HIDE DEF c
    <3>3. Grown /\ Len(catalogs') = Len(catalogs) + 1
      BY <3>1, <3>2, LoadedLast
    <3>4. Len(catalogs) \in Nat
      BY DEF TypeInv, CatalogsOK
    <3>5. reload' = [reload EXCEPT ![r] = [@ EXCEPT !.step = "loaded", !.catalog = Len(catalogs) + 1]]
      BY <1>8, <2>3 DEF LoadFiles
    <3>6. /\ reload' \in [Reloaders -> [step : {"idle", "flags"} \cup Swapping,
                                       off : SUBSET Automations, catalog : Nat]]
          /\ reload'[r].catalog = Len(catalogs) + 1
          /\ \A s \in Reloaders : s # r => reload'[s] = reload[s]
      <4>. DEFINE e == [reload[r] EXCEPT !.step = "loaded", !.catalog = Len(catalogs) + 1]
      <4>1. /\ e \in [step : {"idle", "flags"} \cup Swapping, off : SUBSET Automations, catalog : Nat]
            /\ e.catalog = Len(catalogs) + 1
        <5>1. reload[r] \in [step : {"idle", "flags"} \cup Swapping, off : SUBSET Automations, catalog : Nat]
          BY DEF TypeInv, ReloadsOK
        <5>2. Len(catalogs) + 1 \in Nat /\ "loaded" \in {"idle", "flags"} \cup Swapping
          BY <3>4 DEF Swapping
        <5>. QED
          BY <5>1, <5>2
      <4>2. reload' = [reload EXCEPT ![r] = e]
        BY <3>5
      <4>. HIDE DEF e
      <4>. QED
        BY <4>1, <4>2 DEF TypeInv, ReloadsOK
    <3>7. ReloadsOK'
      <4>1. Len(catalogs) + 1 \in 1..Len(catalogs')
        BY <3>3, <3>4
      <4>2. ASSUME NEW s \in Reloaders, s # r, reload'[s].step \in Swapping
            PROVE  reload'[s].catalog \in 1..Len(catalogs')
        BY <3>3, <3>4, <3>6, <4>2 DEF TypeInv, ReloadsOK
      <4>. QED
        BY <3>6, <4>1, <4>2 DEF ReloadsOK
    <3>. QED
      BY <1>8, <2>1, <3>3, <3>7, TakenStays DEF LoadFiles, TypeInv, switchVars, channelVars
  <2>. QED
    BY <2>2, <2>3 DEF TypeInv, FilesOK
<1>9. ASSUME NEW r \in Reloaders, SwapCatalog(r) PROVE TypeInv'
  <2>1. ReloadsOK' /\ CatalogsOK'
    BY <1>9 DEF SwapCatalog, TypeInv, ReloadsOK, CatalogsOK, Swapping, channelVars
  <2>2. TogglesOK' /\ RunnerOK'
    BY <1>9 DEF SwapCatalog, TypeInv, TogglesOK, RunnerOK, switchVars, runnerVars
  <2>. QED
    BY <1>2, <1>9, <2>1, <2>2 DEF SwapCatalog, TypeInv
<1>10. ASSUME NEW r \in Reloaders, SwapController(r) PROVE TypeInv'
  <2>1. ReloadsOK' /\ CatalogsOK'
    BY <1>10 DEF SwapController, TypeInv, ReloadsOK, CatalogsOK, Swapping, channelVars
  <2>2. TogglesOK' /\ RunnerOK'
    BY <1>10 DEF SwapController, TypeInv, TogglesOK, RunnerOK, runnerVars
  <2>. QED
    BY <1>2, <1>10, <2>1, <2>2 DEF SwapController, TypeInv
<1>11. ASSUME NEW r \in Reloaders, SendRunner(r) PROVE TypeInv'
  <2>1. ReloadsOK'
    BY <1>11 DEF SendRunner, TypeInv, ReloadsOK, Idle, Swapping, catalogVars
  <2>2. CatalogsOK'
    BY <1>11 DEF SendRunner, TypeInv, ReloadsOK, CatalogsOK, Swapping, channelVars, catalogVars
  <2>3. TogglesOK' /\ RunnerOK'
    BY <1>11 DEF SendRunner, TypeInv, TogglesOK, RunnerOK, switchVars, runnerVars, catalogVars
  <2>. QED
    BY <1>2, <1>11, <2>1, <2>2, <2>3 DEF SendRunner, TypeInv
<1>12. ASSUME NEW u \in Users, TakeController(u) PROVE TypeInv'
  <2>1. PICK a \in catalogs[control].ids :
          toggle' = [toggle EXCEPT ![u] = [catalog |-> control, id |-> a,
                                           off |-> a \notin catalogs[control].off]]
    BY <1>12 DEF TakeController
  <2>0. control \in Nat /\ control \in 1..Len(catalogs)
    BY DEF TypeInv, CatalogsOK
  <2>2. a \in Automations
    BY <2>0, Loaded DEF Catalog
  <2>3. TogglesOK'
    BY <1>12, <2>0, <2>1, <2>2 DEF TakeController, TypeInv, TogglesOK, catalogVars
  <2>. QED
    BY <1>1, <1>2, <1>12, <2>3 DEF TakeController, TypeInv
<1>13. ASSUME NEW u \in Users, SetEnabled(u) PROVE TypeInv'
  <2>1. Grown /\ Len(catalogs') = Len(catalogs)
    BY <1>13, FlagSet
  <2>2. ReloadsOK'
    BY <1>13, <2>1 DEF SetEnabled, TypeInv, ReloadsOK
  <2>3. toggle' = [toggle EXCEPT ![u] = NoToggle]
    BY <1>13 DEF SetEnabled
  <2>4. NoToggle \in [catalog : Nat, id : Automations \cup {Bus}, off : BOOLEAN]
    BY DEF NoToggle
  <2>5. \A i \in 1..Len(catalogs) : catalogs'[i].ids = catalogs[i].ids
    BY <2>1 DEF Grown
  <2>6. TogglesOK'
    BY <2>1, <2>3, <2>4, <2>5 DEF TypeInv, TogglesOK
  <2>. QED
    BY <1>2, <1>13, <2>1, <2>2, <2>6, TakenStays DEF SetEnabled, TypeInv, channelVars
<1>14. CASE RunnerBegins
  <2>1. CatalogsOK' /\ TogglesOK' /\ ReloadsOK'
    BY <1>1, <1>14 DEF RunnerBegins, switchVars
  <2>2. RunnerOK'
    BY <1>14 DEF RunnerBegins, TypeInv, RunnerOK, LoopsOf, catalogVars
  <2>. QED
    BY <1>2, <1>14, <2>1, <2>2 DEF RunnerBegins, TypeInv
<1>15. CASE LoopEnds
  <2>1. CatalogsOK' /\ TogglesOK' /\ ReloadsOK'
    BY <1>1, <1>15 DEF LoopEnds, switchVars
  <2>2. RunnerOK'
    BY <1>15 DEF LoopEnds, TypeInv, RunnerOK, catalogVars
  <2>. QED
    BY <1>2, <1>15, <2>1, <2>2 DEF LoopEnds, TypeInv
<1>16. ASSUME NEW from \in {"spawned", "replacing"}, SpawnRunner(from) PROVE TypeInv'
  <2>1. CatalogsOK' /\ TogglesOK' /\ ReloadsOK'
    BY <1>1, <1>16 DEF SpawnRunner, switchVars
  <2>2. RunnerOK'
    BY <1>16 DEF SpawnRunner, TypeInv, RunnerOK, CatalogsOK, catalogVars
  <2>. QED
    BY <1>2, <1>16, <2>1, <2>2 DEF SpawnRunner, TypeInv
<1>17. CASE SupervisorAborts
  <2>1. CatalogsOK' /\ TogglesOK' /\ ReloadsOK'
    BY <1>17 DEF SupervisorAborts, switchVars, TypeInv, CatalogsOK, TogglesOK, ReloadsOK, catalogVars
  <2>2. RunnerOK'
    BY <1>17 DEF SupervisorAborts, TypeInv, RunnerOK, catalogVars
  <2>. QED
    BY <1>2, <1>17, <2>1, <2>2 DEF SupervisorAborts, TypeInv
<1>18. CASE SupervisorEnds
  <2>1. CatalogsOK' /\ TogglesOK' /\ ReloadsOK'
    BY <1>1, <1>18 DEF SupervisorEnds, switchVars
  <2>2. RunnerOK'
    BY <1>18 DEF SupervisorEnds, TypeInv, RunnerOK, catalogVars
  <2>. QED
    BY <1>2, <1>18, <2>1, <2>2 DEF SupervisorEnds, TypeInv
<1>19. CASE UNCHANGED vars
  BY <1>1, <1>2, <1>19 DEF vars, TypeInv, switchVars
<1>. QED
  BY <1>3, <1>4, <1>5, <1>6, <1>7, <1>8, <1>9, <1>10, <1>11, <1>12, <1>13, <1>14, <1>15, <1>16,
     <1>17, <1>18, <1>19 DEF Next, Watch, ReloadStep, Supervise

LEMMA TypeAlways == Spec => []TypeInv
<1>. QED
  BY TypeInit, TypeStep, PTL DEF Spec

\* The state is well typed: a catalog in use has been loaded, its flags are of
\* its own automations, and the loops are the runner's.
THEOREM TypeCorrect == Spec => []ReloadTypeOK
<1>1. TypeInv => ReloadTypeOK
  <2>. SUFFICES ASSUME TypeInv PROVE ReloadTypeOK
    OBVIOUS
  <2>1. DOMAIN catalogs = 1..Len(catalogs) /\ Len(catalogs) \in Nat
    BY DEF TypeInv, CatalogsOK
  <2>2. notices \in 0..MaxEdits
    BY ReloadAssumption DEF TypeInv, FilesOK, ReloadAssumption
  <2>3. active \in {0} \cup DOMAIN catalogs
    BY <2>1 DEF TypeInv, RunnerOK
  <2>. QED
    BY <2>1, <2>2, <2>3 DEF TypeInv, FilesOK, CatalogsOK, RunnerOK, ReloadTypeOK, Catalog
<1>. QED
  BY <1>1, TypeAlways, PTL
-----------------------------------------------------------------------------
\* Where the three places agree, and when.

OneAtATime ==
  \A r, s \in Reloaders : reload[r].step # "idle" /\ reload[s].step # "idle" => r = s

Agreed == listed = control /\ (supervisor # "ended" => sent = control)

\* While reloads do not overlap, the places agree until one of them is changed,
\* and those that were changed have the catalog of the reload under way.
AgreeInv ==
  /\ overlap \in {"none", "now", "past"}
  /\ overlap # "now" =>
       /\ OneAtATime
       /\ overlap = "none" /\ (\A r \in Reloaders : reload[r].step \in {"idle", "flags", "loaded"})
            => Agreed
       /\ \A r \in Reloaders :
            /\ reload[r].step \in {"listed", "swapped"} =>
                 overlap = "none" /\ listed = reload[r].catalog
            /\ reload[r].step = "swapped" => control = reload[r].catalog

\* One reload goes on to a step e; the others stay where they are.
LEMMA Moved ==
  ASSUME TypeInv, NEW r \in Reloaders, NEW e, reload' = [reload EXCEPT ![r] = e]
  PROVE  /\ reload'[r] = e
         /\ \A s \in Reloaders : s # r => reload'[s] = reload[s]
  BY DEF TypeInv, ReloadsOK

\* The record of one reload that goes on keeps its catalog.
LEMMA GoesOn ==
  ASSUME TypeInv, NEW r \in Reloaders, NEW st, reload' = [reload EXCEPT ![r].step = st]
  PROVE  /\ reload'[r].step = st
         /\ reload'[r].catalog = reload[r].catalog /\ reload'[r].off = reload[r].off
         /\ \A s \in Reloaders : s # r => reload'[s] = reload[s]
  BY DEF TypeInv, ReloadsOK

\* A reload that begins is alone, or they overlap.
LEMMA BeginsAlone ==
  ASSUME TypeInv, NEW r \in Reloaders, ReloadBegins(r)
  PROVE  /\ reload'[r].step = "flags" /\ reload'[r].off = catalogs[control].off
         /\ \A s \in Reloaders : s # r => reload'[s] = reload[s]
         /\ overlap' \in {"none", "now", "past"}
         /\ overlap' # "now" => Quiet /\ (overlap' = "none" => overlap = "none")
         /\ ~disturbed' => Quiet /\ ~disturbed
<1>. DEFINE e == [Idle EXCEPT !.step = "flags", !.off = catalogs[control].off]
<1>1. e.step = "flags" /\ e.off = catalogs[control].off
  BY DEF Idle
<1>2. reload' = [reload EXCEPT ![r] = e]
  BY DEF ReloadBegins
<1>. HIDE DEF e
<1>. QED
  BY <1>1, <1>2, Moved DEF ReloadBegins

\* A directory that is read is loaded, unless a file is faulty.
LEMMA LoadMoves ==
  ASSUME TypeInv, NEW r \in Reloaders, LoadFiles(r)
  PROVE  /\ reload[r].step = "flags" /\ reload'[r].step \in {"idle", "loaded"}
         /\ \A s \in Reloaders : s # r => reload'[s] = reload[s]
<1>1. CASE disk.faulty
  BY <1>1, Moved DEF LoadFiles, Idle
<1>2. CASE ~disk.faulty
  BY <1>2 DEF LoadFiles, TypeInv, ReloadsOK
<1>. QED
  BY <1>1, <1>2

\* A reload that has sent its catalog is over.
LEMMA SendMoves ==
  ASSUME TypeInv, NEW r \in Reloaders, SendRunner(r)
  PROVE  /\ reload[r].step = "swapped" /\ reload'[r].step = "idle"
         /\ \A s \in Reloaders : s # r => reload'[s] = reload[s]
<1>1. reload[r].step = "swapped" /\ reload' = [reload EXCEPT ![r] = Idle]
  BY DEF SendRunner
<1>2. Idle.step = "idle"
  BY DEF Idle
<1>. QED
  BY <1>1, <1>2, Moved

LEMMA AgreeInit == Init => AgreeInv
  BY DEF Init, AgreeInv, OneAtATime, Agreed, Idle

LEMMA AgreeStep == TypeInv /\ AgreeInv /\ [Next]_vars => AgreeInv'
<1>. SUFFICES ASSUME TypeInv, AgreeInv, [Next]_vars PROVE AgreeInv'
  OBVIOUS
<1>1. ASSUME UNCHANGED <<reload, overlap, listed, control, sent>>,
             supervisor = "ended" => supervisor' = "ended"
      PROVE  AgreeInv'
  BY <1>1 DEF AgreeInv, OneAtATime, Agreed
<1>2. ASSUME NEW r \in Reloaders, ReloadBegins(r), UNCHANGED <<catalogVars, channelVars, runnerVars>>
      PROVE  AgreeInv'
  BY <1>2, BeginsAlone DEF AgreeInv, OneAtATime, Agreed, Quiet, catalogVars, channelVars, runnerVars
<1>3. CASE EditFiles \/ WindowEnds \/ WatcherSkips \/ RunnerBegins \/ LoopEnds \/ SupervisorAborts
             \/ SupervisorEnds \/ UNCHANGED vars
  BY <1>1, <1>3 DEF EditFiles, WindowEnds, WatcherSkips, RunnerBegins, LoopEnds, SupervisorAborts,
                    SupervisorEnds, vars, catalogVars, channelVars, runnerVars, historyVars
<1>4. ASSUME NEW from \in {"spawned", "replacing"}, SpawnRunner(from) PROVE AgreeInv'
  BY <1>1, <1>4 DEF SpawnRunner, catalogVars, channelVars, historyVars
<1>5. ASSUME NEW u \in Users, TakeController(u) \/ SetEnabled(u) PROVE AgreeInv'
  BY <1>1, <1>5 DEF TakeController, SetEnabled, catalogVars, channelVars, runnerVars, historyVars
<1>6. CASE WatcherTakes
  BY <1>2, <1>6 DEF WatcherTakes, Reloaders
<1>7. ASSUME NEW c \in Callers, RequestReload(c) PROVE AgreeInv'
  BY <1>2, <1>7 DEF RequestReload, Reloaders
<1>8. ASSUME NEW r \in Reloaders, LoadFiles(r) PROVE AgreeInv'
  <2>1. /\ reload'[r].step \in {"idle", "loaded"} /\ reload[r].step = "flags"
        /\ \A s \in Reloaders : s # r => reload'[s] = reload[s]
    BY <1>8, LoadMoves
  <2>. QED
    BY <1>8, <2>1 DEF LoadFiles, AgreeInv, OneAtATime, Agreed, channelVars, runnerVars, historyVars
<1>9. ASSUME NEW r \in Reloaders, SwapCatalog(r) PROVE AgreeInv'
  <2>1. /\ reload[r].step = "loaded" /\ reload'[r].step = "listed"
        /\ reload'[r].catalog = reload[r].catalog
        /\ \A s \in Reloaders : s # r => reload'[s] = reload[s]
    BY <1>9, GoesOn DEF SwapCatalog
  <2>2. ASSUME overlap' # "now" PROVE overlap # "now" /\ overlap' = "none"
    BY <1>9, <2>2 DEF SwapCatalog, AgreeInv
  <2>. QED
    BY <1>9, <2>1, <2>2 DEF SwapCatalog, AgreeInv, OneAtATime, Agreed
<1>10. ASSUME NEW r \in Reloaders, SwapController(r) PROVE AgreeInv'
  <2>1. /\ reload[r].step = "listed" /\ reload'[r].step = "swapped"
        /\ reload'[r].catalog = reload[r].catalog
        /\ \A s \in Reloaders : s # r => reload'[s] = reload[s]
    BY <1>10, GoesOn DEF SwapController
  <2>. QED
    <3>. SUFFICES ASSUME overlap # "now" PROVE AgreeInv'
      BY <1>10 DEF SwapController, AgreeInv, historyVars
    <3>1. /\ UNCHANGED <<overlap, listed>> /\ control' = reload'[r].catalog
          /\ overlap = "none" /\ listed = reload'[r].catalog
      BY <1>10, <2>1 DEF SwapController, AgreeInv, historyVars
    <3>2. \A s \in Reloaders : s # r => reload'[s].step = "idle"
      BY <2>1 DEF AgreeInv, OneAtATime
    <3>. QED
      BY <2>1, <3>1, <3>2 DEF AgreeInv, OneAtATime
<1>11. ASSUME NEW r \in Reloaders, SendRunner(r) PROVE AgreeInv'
  <2>1. /\ reload[r].step = "swapped" /\ reload'[r].step = "idle"
        /\ \A s \in Reloaders : s # r => reload'[s] = reload[s]
    BY <1>11, SendMoves
  <2>. QED
    BY <1>11, <2>1 DEF SendRunner, AgreeInv, OneAtATime, Agreed, catalogVars, channelVars,
                       runnerVars, historyVars
<1>. QED
  BY <1>3, <1>4, <1>5, <1>6, <1>7, <1>8, <1>9, <1>10, <1>11
     DEF Next, Watch, ReloadStep, Supervise

LEMMA AgreeAlways == Spec => []AgreeInv
<1>. QED
  BY TypeAlways, AgreeInit, AgreeStep, PTL DEF Spec

\* When no reload is under way the catalog that is listed is the controller's,
\* and the one that was sent to the supervisor while it lives, unless reloads
\* overlapped and none went alone since.
THEOREM PlacesAgree == Spec => []SwapsAgree
<1>1. AgreeInv => SwapsAgree
  BY DEF AgreeInv, SwapsAgree, Agreed, Quiet
<1>. QED
  BY <1>1, AgreeAlways, PTL

-----------------------------------------------------------------------------
\* The flags, while no switch and no reload overlapped a reload.
KeptInv ==
  ~disturbed =>
    /\ OneAtATime
    /\ catalogs[control].off = asked
    /\ \A r \in Reloaders :
         /\ reload[r].step = "flags" => reload[r].off = asked
         /\ reload[r].step \in {"loaded", "listed"} =>
              catalogs[reload[r].catalog].off = asked \cap catalogs[reload[r].catalog].ids

LEMMA KeptInit == Init => KeptInv
<1>. SUFFICES ASSUME Init PROVE KeptInv
  OBVIOUS
<1>1. catalogs[control].off = {} /\ asked = {}
  BY DEF Init
<1>. QED
  BY <1>1 DEF Init, KeptInv, OneAtATime, Idle

LEMMA KeptStep == TypeInv /\ KeptInv /\ [Next]_vars => KeptInv'
<1>. SUFFICES ASSUME TypeInv, KeptInv, [Next]_vars PROVE KeptInv'
  OBVIOUS
<1>0. control \in 1..Len(catalogs) /\ Len(catalogs) \in Nat
  BY DEF TypeInv, CatalogsOK
<1>1. ASSUME UNCHANGED <<reload, disturbed, control, catalogs, asked>> PROVE KeptInv'
  BY <1>1 DEF KeptInv, OneAtATime
<1>2. ASSUME NEW r \in Reloaders, ReloadBegins(r), UNCHANGED <<catalogVars, asked>>
      PROVE  KeptInv'
  BY <1>2, BeginsAlone DEF KeptInv, OneAtATime, Quiet, catalogVars
<1>3. CASE EditFiles \/ WindowEnds \/ WatcherSkips \/ RunnerBegins \/ LoopEnds \/ SupervisorAborts
             \/ SupervisorEnds \/ UNCHANGED vars
  BY <1>1, <1>3 DEF EditFiles, WindowEnds, WatcherSkips, RunnerBegins, LoopEnds, SupervisorAborts,
                    SupervisorEnds, vars, catalogVars, switchVars, historyVars
<1>4. ASSUME NEW from \in {"spawned", "replacing"}, SpawnRunner(from) PROVE KeptInv'
  BY <1>1, <1>4 DEF SpawnRunner, catalogVars, switchVars, historyVars
<1>5. ASSUME NEW u \in Users, TakeController(u) PROVE KeptInv'
  BY <1>1, <1>5 DEF TakeController, catalogVars, historyVars
<1>6. CASE WatcherTakes
  BY <1>2, <1>6 DEF WatcherTakes, Reloaders, switchVars
<1>7. ASSUME NEW c \in Callers, RequestReload(c) PROVE KeptInv'
  BY <1>2, <1>7 DEF RequestReload, Reloaders, switchVars
<1>8. ASSUME NEW r \in Reloaders, LoadFiles(r) PROVE KeptInv'
  <2>. SUFFICES ASSUME ~disturbed PROVE KeptInv'
    BY <1>8 DEF KeptInv, LoadFiles, historyVars
  <2>1. reload[r].step = "flags" /\ UNCHANGED <<disturbed, control, asked>>
    BY <1>8 DEF LoadFiles, switchVars, historyVars
  <2>2. OneAtATime /\ catalogs[control].off = asked /\ reload[r].off = asked
    BY <2>1 DEF KeptInv
  <2>3. CASE disk.faulty
    <3>1. /\ reload'[r].step = "idle" /\ UNCHANGED catalogs
          /\ \A s \in Reloaders : s # r => reload'[s] = reload[s]
      BY <1>8, <2>3, Moved DEF LoadFiles, Idle
    <3>. QED
      BY <2>1, <3>1 DEF KeptInv, OneAtATime
  <2>4. CASE ~disk.faulty
    <3>. DEFINE c == NewCatalog(disk.files, reload[r].off)
    <3>1. c \in Catalog /\ c.off \subseteq c.ids /\ c.off = reload[r].off \cap c.ids
      BY DEF TypeInv, FilesOK, ReloadsOK, NewCatalog, Catalog
    <3>2. catalogs' = Append(catalogs, c)
      BY <1>8, <2>4 DEF LoadFiles
    <3>. HIDE DEF c
    <3>3. /\ \A i \in 1..Len(catalogs) : catalogs'[i] = catalogs[i]
          /\ catalogs'[Len(catalogs) + 1] = c
      BY <3>1, <3>2, LoadedLast
    <3>4. /\ reload'[r].step = "loaded" /\ reload'[r].catalog = Len(catalogs) + 1
          /\ \A s \in Reloaders : s # r => reload'[s] = reload[s]
      BY <1>8, <2>4 DEF LoadFiles, TypeInv, ReloadsOK
    <3>5. catalogs'[control].off = asked
      BY <1>0, <2>2, <3>3
    <3>6. \A s \in Reloaders : s # r => reload[s].step = "idle"
      BY <2>1, <2>2 DEF OneAtATime
    <3>7. OneAtATime'
      BY <3>4, <3>6 DEF OneAtATime
    <3>. QED
      BY <2>1, <2>2, <3>1, <3>3, <3>4, <3>5, <3>6, <3>7 DEF KeptInv
  <2>. QED
    BY <2>3, <2>4
<1>9. ASSUME NEW r \in Reloaders, SwapCatalog(r) PROVE KeptInv'
  <2>1. /\ reload[r].step = "loaded" /\ reload'[r].step = "listed"
        /\ reload'[r].catalog = reload[r].catalog
        /\ \A s \in Reloaders : s # r => reload'[s] = reload[s]
    BY <1>9, GoesOn DEF SwapCatalog
  <2>. QED
    BY <1>9, <2>1 DEF SwapCatalog, KeptInv, OneAtATime, switchVars
<1>10. ASSUME NEW r \in Reloaders, SwapController(r) PROVE KeptInv'
  <2>1. /\ reload[r].step = "listed" /\ reload'[r].step = "swapped"
        /\ reload'[r].catalog = reload[r].catalog
        /\ \A s \in Reloaders : s # r => reload'[s] = reload[s]
    BY <1>10, GoesOn DEF SwapController
  <2>2. /\ control' = reload[r].catalog /\ UNCHANGED <<catalogs, disturbed>>
        /\ asked' = asked \cap catalogs[control'].ids
    BY <1>10 DEF SwapController, historyVars
  <2>. QED
    <3>. SUFFICES ASSUME ~disturbed PROVE KeptInv'
      BY <2>2 DEF KeptInv
    <3>1. catalogs[reload[r].catalog].off = asked \cap catalogs[reload[r].catalog].ids
      BY <2>1 DEF KeptInv
    <3>2. catalogs'[control'].off = asked'
      BY <2>2, <3>1
    <3>3. \A s \in Reloaders : s # r => reload'[s].step = "idle"
      BY <2>1 DEF KeptInv, OneAtATime
    <3>. QED
      BY <2>1, <2>2, <3>2, <3>3 DEF KeptInv, OneAtATime
<1>11. ASSUME NEW r \in Reloaders, SendRunner(r) PROVE KeptInv'
  <2>1. /\ reload[r].step = "swapped" /\ reload'[r].step = "idle"
        /\ \A s \in Reloaders : s # r => reload'[s] = reload[s]
    BY <1>11, SendMoves
  <2>. QED
    BY <1>11, <2>1 DEF SendRunner, KeptInv, OneAtATime, catalogVars, switchVars, historyVars
<1>12. ASSUME NEW u \in Users, SetEnabled(u) PROVE KeptInv'
  <2>. SUFFICES ASSUME ~disturbed' PROVE KeptInv'
    BY DEF KeptInv
  <2>1. /\ ~disturbed /\ Quiet /\ toggle[u].catalog = control
        /\ UNCHANGED <<reload, control>>
        /\ asked' = IF toggle[u].off THEN asked \cup {toggle[u].id} ELSE asked \ {toggle[u].id}
    BY <1>12 DEF SetEnabled
  <2>2. catalogs'[control].off = asked'
    BY <1>12, <2>1, FlagSet DEF KeptInv
  <2>. QED
    BY <2>1, <2>2 DEF KeptInv, OneAtATime, Quiet
<1>. QED
  BY <1>3, <1>4, <1>5, <1>6, <1>7, <1>8, <1>9, <1>10, <1>11, <1>12
     DEF Next, Watch, ReloadStep, Supervise

\* An automation that stays in the directory keeps its flag across reloads,
\* unless a switch or another reload overlapped one.
THEOREM FlagsSurvive == Spec => []FlagsKept
<1>1. KeptInv => FlagsKept
  BY DEF KeptInv, FlagsKept
<1>. QED
  BY <1>1, TypeAlways, KeptInit, KeptStep, PTL DEF Spec

-----------------------------------------------------------------------------
\* No notice waits, none was passed over unread, and the files are whole.
Fresh == notices = 0 /\ ~skipped /\ ~disk.faulty

\* The controller, or the reload that will replace it, has read those files.
FreshInv ==
  Fresh =>
    /\ overlap = "none" /\ Quiet => catalogs[control].ids = disk.files
    /\ overlap # "now" => \A r \in Reloaders :
         reload[r].step \in Swapping => catalogs[reload[r].catalog].ids = disk.files

LEMMA FreshInit == Init => FreshInv
<1>. SUFFICES ASSUME Init PROVE FreshInv
  OBVIOUS
<1>1. catalogs[control].ids = disk.files
  BY DEF Init
<1>. QED
  BY <1>1 DEF Init, FreshInv, Idle, Swapping

LEMMA FreshStep == TypeInv /\ AgreeInv /\ FreshInv /\ [Next]_vars => FreshInv'
<1>. SUFFICES ASSUME TypeInv, AgreeInv, FreshInv, [Next]_vars PROVE FreshInv'
  OBVIOUS
<1>0. control \in 1..Len(catalogs) /\ Len(catalogs) \in Nat
  BY DEF TypeInv, CatalogsOK
<1>1. ASSUME UNCHANGED <<disk, notices, skipped, reload, overlap, control, catalogs>>
      PROVE  FreshInv'
  BY <1>1 DEF FreshInv, Fresh, Quiet
<1>2. ASSUME NEW r \in Reloaders, ReloadBegins(r), UNCHANGED catalogs
      PROVE  FreshInv'
  BY <1>2, BeginsAlone DEF FreshInv, Quiet, Swapping
<1>3. CASE WindowEnds \/ RunnerBegins \/ LoopEnds \/ SupervisorAborts
             \/ SupervisorEnds \/ UNCHANGED vars
  BY <1>1, <1>3 DEF WindowEnds, RunnerBegins, LoopEnds, SupervisorAborts,
                    SupervisorEnds, vars, fileVars, catalogVars, historyVars
<1>4. ASSUME NEW from \in {"spawned", "replacing"}, SpawnRunner(from) PROVE FreshInv'
  BY <1>1, <1>4 DEF SpawnRunner, fileVars, catalogVars, historyVars
<1>5. ASSUME NEW u \in Users, TakeController(u) PROVE FreshInv'
  BY <1>1, <1>5 DEF TakeController, fileVars, catalogVars, historyVars
<1>6. CASE WatcherTakes
  BY <1>2, <1>6 DEF WatcherTakes, Reloaders, catalogVars
<1>7. ASSUME NEW c \in Callers, RequestReload(c) PROVE FreshInv'
  BY <1>2, <1>7 DEF RequestReload, Reloaders, catalogVars
<1>8. ASSUME NEW r \in Reloaders, LoadFiles(r) PROVE FreshInv'
  <2>. SUFFICES ASSUME ~disk.faulty, overlap # "now" PROVE FreshInv'
    <3>1. UNCHANGED <<disk, overlap>>
      BY <1>8 DEF LoadFiles, historyVars
    <3>2. Fresh' => ~disk.faulty
      BY <3>1 DEF Fresh
    <3>. QED
      BY <3>1, <3>2 DEF FreshInv
  <2>. DEFINE c == NewCatalog(disk.files, reload[r].off)
  <2>1. c \in Catalog /\ c.off \subseteq c.ids /\ c.ids = disk.files
    BY DEF TypeInv, FilesOK, ReloadsOK, NewCatalog, Catalog
  <2>2. catalogs' = Append(catalogs, c) /\ UNCHANGED disk
    BY <1>8 DEF LoadFiles
  <2>. HIDE DEF c
  <2>3. catalogs'[Len(catalogs) + 1] = c
    BY <2>1, <2>2, LoadedLast
  <2>4. /\ reload[r].step = "flags"
        /\ reload'[r].step = "loaded" /\ reload'[r].catalog = Len(catalogs) + 1
        /\ \A s \in Reloaders : s # r => reload'[s] = reload[s]
    BY <1>8 DEF LoadFiles, TypeInv, ReloadsOK
  <2>5. \A s \in Reloaders : s # r => reload'[s].step = "idle"
    BY <2>4 DEF AgreeInv, OneAtATime
  <2>. QED
    BY <2>1, <2>2, <2>3, <2>4, <2>5 DEF FreshInv, Quiet, Swapping
<1>9. ASSUME NEW r \in Reloaders, SwapCatalog(r) PROVE FreshInv'
  <2>1. /\ reload[r].step = "loaded" /\ reload'[r].step = "listed"
        /\ reload'[r].catalog = reload[r].catalog
        /\ \A s \in Reloaders : s # r => reload'[s] = reload[s]
    BY <1>9, GoesOn DEF SwapCatalog
  <2>2. overlap' # "now" => overlap # "now"
    BY <1>9 DEF SwapCatalog
  <2>. QED
    BY <1>9, <2>1, <2>2 DEF SwapCatalog, FreshInv, Fresh, Quiet, Swapping, fileVars
<1>10. ASSUME NEW r \in Reloaders, SwapController(r) PROVE FreshInv'
  <2>1. /\ reload[r].step = "listed" /\ reload'[r].step = "swapped"
        /\ reload'[r].catalog = reload[r].catalog
        /\ \A s \in Reloaders : s # r => reload'[s] = reload[s]
    BY <1>10, GoesOn DEF SwapController
  <2>. QED
    <3>1. UNCHANGED <<disk, notices, skipped, overlap, catalogs>>
      BY <1>10 DEF SwapController, fileVars, historyVars
    <3>2. \A s \in Reloaders : reload'[s].step \in Swapping =>
            reload[s].step \in Swapping /\ reload'[s].catalog = reload[s].catalog
      BY <2>1 DEF Swapping
    <3>3. ~Quiet'
      BY <2>1 DEF Quiet
    <3>. QED
      BY <3>1, <3>2, <3>3 DEF FreshInv, Fresh
<1>11. ASSUME NEW r \in Reloaders, SendRunner(r) PROVE FreshInv'
  <2>1. /\ reload[r].step = "swapped" /\ reload'[r].step = "idle"
        /\ \A s \in Reloaders : s # r => reload'[s] = reload[s]
    BY <1>11, SendMoves
  <2>2. overlap # "now" => control = reload[r].catalog
    BY <2>1 DEF AgreeInv
  <2>. QED
    BY <1>11, <2>1, <2>2 DEF SendRunner, FreshInv, Fresh, Swapping, fileVars, catalogVars, historyVars
<1>12. ASSUME NEW u \in Users, SetEnabled(u) PROVE FreshInv'
  <2>1. \A i \in 1..Len(catalogs) : catalogs'[i].ids = catalogs[i].ids
    BY <1>12, FlagSet DEF Grown
  <2>2. \A r \in Reloaders : reload[r].step \in Swapping => reload[r].catalog \in 1..Len(catalogs)
    BY DEF TypeInv, ReloadsOK
  <2>. QED
    BY <1>0, <1>12, <2>1, <2>2 DEF SetEnabled, FreshInv, Fresh, Quiet, fileVars
<1>13. CASE EditFiles
  <2>1. notices' = notices + 1 /\ notices \in Nat
    BY <1>13 DEF EditFiles, Noticed, TypeInv, FilesOK
  <2>. QED
    BY <2>1 DEF FreshInv, Fresh
<1>14. CASE WatcherSkips
  BY <1>14 DEF WatcherSkips, FreshInv, Fresh
<1>. QED
  BY <1>3, <1>4, <1>5, <1>6, <1>7, <1>8, <1>9, <1>10, <1>11, <1>12, <1>13, <1>14
     DEF Next, Watch, ReloadStep, Supervise

\* Once every notice was taken, and none passed over, the controller has the
\* automations of the directory as it is.
THEOREM WatchedIsLoaded == Spec => []WatchedLoaded
<1>1. FreshInv => WatchedLoaded
  BY DEF FreshInv, Fresh, WatchedLoaded
<1>. QED
  BY <1>1, TypeAlways, AgreeAlways, FreshInit, FreshStep, PTL DEF Spec

=============================================================================
