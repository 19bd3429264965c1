-------------------------- MODULE AutomationReload --------------------------
(***************************************************************************)
(* The automations are reloaded while the server runs                      *)
(* (crates/api/src/reload.rs): a request or the file watcher reads the     *)
(* directory into a new AutomationCatalog (crates/automations/src/         *)
(* catalog.rs) and puts it in three places, one after the other: the       *)
(* catalog that is listed, the controller the handlers use, and a watch    *)
(* channel, on which a supervisor (crates/api/src/startup.rs) waits to     *)
(* replace the AutomationRunner (crates/automations/src/runner.rs).        *)
(*                                                                         *)
(* A catalog is shared by those who hold it, with its enabled flags; here  *)
(* it is a position in `catalogs`.  A directory is read at once, and the   *)
(* loops of an aborted runner end at once.                                 *)
(***************************************************************************)
EXTENDS Naturals, Sequences

CONSTANTS
  Automations,
  Starts,       (* the sets of files the server may start with              *)
  Timed,        (* those with a loop of their own; the rest share one       *)
  Ending,       (* those whose schedule has a last occurrence               *)
  Bus,          (* the loop of the others, which reads the event bus        *)
  Callers,      (* of POST /automations/reload                              *)
  Watcher,
  Users,        (* of POST /automations/{id}/enabled                        *)
  MaxReloads, MaxEdits, MaxToggles     (* bounds                            *)

ASSUME ReloadAssumption ==
  /\ Ending \subseteq Timed /\ Timed \subseteq Automations
  /\ Starts \subseteq SUBSET Automations
  /\ Bus \notin Automations /\ Watcher \notin Callers
  /\ {MaxReloads, MaxEdits, MaxToggles} \subseteq Nat

Reloaders == Callers \cup {Watcher}

VARIABLES
  disk,        (* the files of the directory, and whether one is faulty     *)
  notices,     (* changes of files the watcher has not taken                *)
  recent,      (* the watcher took one in the last 400 ms                   *)
  catalogs,    (* loaded so far: their automations, those switched off      *)
  listed, control,   (* the catalog listed, and the controller's            *)
  reload,      (* where each reload is, the flags and the catalog it has    *)
  toggle,      (* the catalog each user's request has taken                 *)
  sent, unseen,      (* the channel: its value, not seen by the supervisor  *)
  supervisor,  (* "spawned", "watching", "replacing", "ended"               *)
  active,      (* the catalog of the supervisor's runner, and its task:     *)
  task,        (* "none", "spawned", "running"                              *)
  loops,       (* the loops of that runner                                  *)
  asked,       (* history: automations last switched off                    *)
  overlap,     (* history: reloads overlap or did ("now"), one goes alone    *)
               (* after some did ("past"), one went alone since ("none")     *)
  disturbed,   (* history: a switch or a reload overlapped a reload         *)
  skipped,     (* history: a notice was passed over, and nothing read since *)
  edits, toggles, begun      (* how many there were                         *)

fileVars    == <<disk, notices, recent, edits, skipped>>
catalogVars == <<catalogs, listed, control>>
channelVars == <<sent, unseen>>
runnerVars  == <<supervisor, active, task, loops>>
switchVars  == <<toggle, asked, toggles>>
historyVars == <<overlap, disturbed, begun>>
vars == <<fileVars, catalogVars, reload, channelVars, runnerVars, switchVars, historyVars>>

Idle  == [step |-> "idle", off |-> {}, catalog |-> 0]
NoToggle == [catalog |-> 0, id |-> Bus, off |-> FALSE]

Init ==
  /\ disk \in [files : Starts, faulty : {FALSE}]
  /\ notices = 0 /\ recent = FALSE /\ edits = 0 /\ skipped = FALSE
  /\ catalogs = <<[ids |-> disk.files, off |-> {}]>>
  /\ listed = 1 /\ control = 1
  /\ reload = [r \in Reloaders |-> Idle]
  /\ toggle = [u \in Users |-> NoToggle] /\ asked = {} /\ toggles = 0
  /\ sent = 1 /\ unseen = FALSE
  /\ supervisor = "spawned" /\ active = 0 /\ task = "none" /\ loops = {}
  /\ overlap = "none" /\ disturbed = FALSE /\ begun = 0

Quiet == \A r \in Reloaders : reload[r].step = "idle"

-----------------------------------------------------------------------------
\* The watcher

\* Faulty variant: a file that is removed is not noticed.
Noticed_Kept(files) == notices' = IF files \subseteq disk.files THEN notices ELSE notices + 1

\* Created, modified and removed files are noticed.
Noticed(files) == notices' = notices + 1

\* A file is written, whole or not, or removed.
EditFiles ==
  /\ edits < MaxEdits /\ edits' = edits + 1
  /\ \E a \in Automations, whole \in BOOLEAN :
       /\ disk' \in {[files |-> disk.files \cup {a}, faulty |-> ~whole],
                     [files |-> disk.files \ {a}, faulty |-> disk.faulty /\ ~whole]} \ {disk}
       /\ Noticed(disk'.files)
  /\ UNCHANGED <<recent, skipped, catalogVars, reload, channelVars, runnerVars, switchVars,
                 historyVars>>

\* 400 ms pass.
WindowEnds ==
  /\ recent
  /\ recent' = FALSE
  /\ UNCHANGED <<disk, notices, edits, skipped, catalogVars, reload, channelVars, runnerVars,
                 switchVars, historyVars>>

\* A reload begins, by the watcher or a request: it reads the flags of the
\* controller's catalog.
ReloadBegins(r) ==
  /\ reload' = [reload EXCEPT ![r] = [Idle EXCEPT !.step = "flags", !.off = catalogs[control].off]]
  /\ begun < MaxReloads /\ begun' = begun + 1
  /\ overlap' = IF ~Quiet THEN "now" ELSE IF overlap = "none" THEN "none" ELSE "past"
  /\ disturbed' = (disturbed \/ ~Quiet)

WatcherTakes ==
  /\ notices > 0 /\ reload[Watcher].step = "idle"
  /\ ~recent
  /\ notices' = notices - 1
  /\ recent' = TRUE
  /\ ReloadBegins(Watcher)
  /\ UNCHANGED <<disk, edits, skipped, catalogVars, channelVars, runnerVars, switchVars>>

WatcherSkips ==
  /\ notices > 0 /\ reload[Watcher].step = "idle"
  /\ recent
  /\ notices' = notices - 1
  /\ skipped' = TRUE
  /\ UNCHANGED <<disk, recent, edits, catalogVars, reload, channelVars, runnerVars, switchVars,
                 historyVars>>

-----------------------------------------------------------------------------
\* reload_automations_internal

RequestReload(c) ==
  /\ reload[c].step = "idle"
  /\ ReloadBegins(c)
  /\ UNCHANGED <<fileVars, catalogVars, channelVars, runnerVars, switchVars>>

\* Faulty variant: a new catalog has every automation enabled.
NewCatalog_AllOn(files, off) == [ids |-> files, off |-> {}]

\* reload_from_directory, and the flags of automations that are still there.
NewCatalog(files, off) == [ids |-> files, off |-> off \cap files]

\* One faulty file, and nothing is changed.
LoadFiles(r) ==
  /\ reload[r].step = "flags"
  /\ skipped' = FALSE
  /\ \/ /\ disk.faulty
        /\ reload' = [reload EXCEPT ![r] = Idle]
        /\ UNCHANGED catalogs
     \/ /\ ~disk.faulty
        /\ catalogs' = Append(catalogs, NewCatalog(disk.files, reload[r].off))
        /\ reload' = [reload EXCEPT ![r] = [@ EXCEPT !.step = "loaded", !.catalog = Len(catalogs) + 1]]
  /\ UNCHANGED <<disk, notices, recent, edits, listed, control, channelVars, runnerVars,
                 switchVars, historyVars>>

SwapCatalog(r) ==
  /\ reload[r].step = "loaded"
  /\ listed' = reload[r].catalog
  /\ reload' = [reload EXCEPT ![r].step = "listed"]
  /\ overlap' = IF overlap = "past" THEN "none" ELSE overlap
  /\ UNCHANGED <<fileVars, catalogs, control, channelVars, runnerVars, switchVars, disturbed, begun>>

\* Faulty variant: the handlers keep the controller they had.
SwapController_Keeps(r) ==
  /\ reload[r].step = "listed"
  /\ reload' = [reload EXCEPT ![r].step = "swapped"]
  /\ UNCHANGED <<fileVars, catalogVars, channelVars, runnerVars, switchVars, historyVars>>

SwapController(r) ==
  /\ reload[r].step = "listed"
  /\ control' = reload[r].catalog
  /\ asked' = asked \cap catalogs[control'].ids
  /\ reload' = [reload EXCEPT ![r].step = "swapped"]
  /\ UNCHANGED <<fileVars, catalogs, listed, channelVars, runnerVars, toggle, toggles, historyVars>>

\* Faulty variant: the value is replaced and nobody is told.
SendRunner_Silently(r) ==
  /\ reload[r].step = "swapped"
  /\ sent' = reload[r].catalog
  /\ reload' = [reload EXCEPT ![r] = Idle]
  /\ UNCHANGED <<fileVars, catalogVars, unseen, runnerVars, switchVars, historyVars>>

\* send(): a channel without a receiver keeps its value; the answer is the same.
SendRunner(r) ==
  /\ reload[r].step = "swapped"
  /\ \/ supervisor # "ended" /\ sent' = reload[r].catalog /\ unseen' = TRUE
     \/ supervisor = "ended" /\ UNCHANGED channelVars
  /\ reload' = [reload EXCEPT ![r] = Idle]
  /\ UNCHANGED <<fileVars, catalogVars, runnerVars, switchVars, historyVars>>

-----------------------------------------------------------------------------
\* set_automation_enabled: the controller is taken, then used, for a change of
\* an automation it has.

TakeController(u) ==
  /\ toggle[u] = NoToggle
  /\ toggles < MaxToggles /\ toggles' = toggles + 1
  /\ \E a \in catalogs[control].ids :
       toggle' = [toggle EXCEPT ![u] = [catalog |-> control, id |-> a,
                                        off |-> a \notin catalogs[control].off]]
  /\ UNCHANGED <<fileVars, catalogVars, reload, channelVars, runnerVars, asked, historyVars>>

SetEnabled(u) ==
  LET t == toggle[u]
      With(ids) == IF t.off THEN ids \cup {t.id} ELSE ids \ {t.id} IN
  /\ t # NoToggle
  /\ toggle' = [toggle EXCEPT ![u] = NoToggle]
  /\ catalogs' = [catalogs EXCEPT ![t.catalog].off = With(@)]
  /\ asked' = With(asked)
  /\ disturbed' = (disturbed \/ ~Quiet \/ t.catalog # control)
  /\ UNCHANGED <<fileVars, listed, control, reload, channelVars, runnerVars, toggles, overlap,
                 begun>>

-----------------------------------------------------------------------------
\* The runner and its supervisor

\* run_with_options: what a disabled automation would need is not begun.
LoopsOf(c) ==
  {a \in c.ids \cap Timed : a \notin c.off} \cup {b \in {Bus} : c.ids \ Timed # {}}

RunnerBegins ==
  /\ task = "spawned"
  /\ task' = "running"
  /\ loops' = LoopsOf(catalogs[active])
  /\ UNCHANGED <<fileVars, catalogVars, reload, channelVars, supervisor, active, switchVars,
                 historyVars>>

\* A schedule has no next occurrence.
LoopEnds ==
  /\ \E a \in Ending \cap loops : loops' = loops \ {a}
  /\ UNCHANGED <<fileVars, catalogVars, reload, channelVars, supervisor, active, task, switchVars,
                 historyVars>>

\* borrow() does not mark the value as seen.
SpawnRunner(from) ==
  /\ supervisor = from
  /\ supervisor' = "watching"
  /\ active' = sent /\ task' = "spawned"
  /\ UNCHANGED <<fileVars, catalogVars, reload, channelVars, loops, switchVars, historyVars>>

\* changed(): the runner is aborted and waited for.
SupervisorAborts ==
  /\ supervisor = "watching" /\ unseen
  /\ supervisor' = "replacing"
  /\ unseen' = FALSE
  /\ task' = "none" /\ loops' = {}
  /\ UNCHANGED <<fileVars, catalogVars, reload, sent, active, switchVars, historyVars>>

\* The runner has no loop left and returns: the supervisor ends as well.
SupervisorEnds ==
  /\ supervisor = "watching" /\ task = "running" /\ loops = {}
  /\ supervisor' = "ended"
  /\ UNCHANGED <<fileVars, catalogVars, reload, channelVars, active, task, loops, switchVars,
                 historyVars>>

-----------------------------------------------------------------------------
Watch == WatcherTakes \/ WatcherSkips

ReloadStep(r) ==
  LoadFiles(r) \/ SwapCatalog(r) \/ SwapController(r) \/ SendRunner(r)

Supervise ==
  SpawnRunner("spawned") \/ SpawnRunner("replacing") \/ SupervisorAborts \/ SupervisorEnds

Next ==
  \/ EditFiles \/ WindowEnds \/ Watch
  \/ \E c \in Callers : RequestReload(c)
  \/ \E r \in Reloaders : ReloadStep(r)
  \/ \E u \in Users : TakeController(u) \/ SetEnabled(u)
  \/ RunnerBegins \/ LoopEnds
  \/ Supervise

\* Tasks and threads that can run do; what users and schedules do is theirs.
Fairness ==
  /\ \A r \in Reloaders : WF_vars(ReloadStep(r))
  /\ WF_vars(RunnerBegins) /\ WF_vars(Supervise)

Spec == Init /\ [][Next]_vars /\ Fairness

-----------------------------------------------------------------------------
\* Properties

ReloadTypeOK ==
  /\ disk \in [files : SUBSET Automations, faulty : BOOLEAN]
  /\ notices \in 0..MaxEdits /\ recent \in BOOLEAN
  /\ catalogs \in Seq([ids : SUBSET Automations, off : SUBSET Automations])
  /\ {listed, control, sent} \subseteq DOMAIN catalogs /\ active \in {0} \cup DOMAIN catalogs
  /\ \A i \in DOMAIN catalogs : catalogs[i].off \subseteq catalogs[i].ids
  /\ supervisor \in {"spawned", "watching", "replacing", "ended"}
  /\ task \in {"none", "spawned", "running"}
  /\ loops # {} => task = "running" /\ loops \subseteq catalogs[active].ids \cup {Bus}

\* The three places hold the same catalog whenever no reload is under way,
\* unless reloads overlapped and none has gone alone since: what is listed is
\* what is switched on and off, and what the supervisor is told to run.
SwapsAgree ==
  Quiet /\ overlap = "none" =>
    listed = control /\ (supervisor # "ended" => sent = control)

\* An automation that stays in the directory keeps its flag across reloads,
\* unless it was switched, or reloaded again, during one.
FlagsKept ==
  Quiet /\ ~disturbed => catalogs[control].off = asked

\* A directory that is watched is loaded as it is, when the watcher has taken
\* every notice: also after files were removed, and after a faulty file that
\* was mended.  Except when a notice was passed over, within 400 ms, or
\* reloads overlapped and none has gone alone since.
WatchedLoaded ==
  Quiet /\ notices = 0 /\ ~skipped /\ overlap = "none" /\ ~disk.faulty =>
    catalogs[control].ids = disk.files

\* The catalog that was sent last comes to run, however many are sent while
\* the supervisor replaces the runner, unless the supervisor has ended.
LatestRuns ==
  (active # sent) ~> (active = sent \/ supervisor = "ended")

\* Switching an automation on "takes effect immediately for the running
\* automation runner without reloading the catalog" (handlers/automations.rs:
\* 87-88): when all is settled and nothing overlapped, an automation that is
\* enabled in the runner's catalog, and has occurrences to come, has its loop.
Settled ==
  /\ Quiet /\ ~disturbed /\ ~unseen
  /\ \A u \in Users : toggle[u] = NoToggle
  /\ supervisor = "watching" /\ task = "running"
EnabledRuns ==
  Settled =>
    \A a \in (catalogs[active].ids \cap Timed) \ (catalogs[active].off \cup Ending) : a \in loops

=============================================================================
