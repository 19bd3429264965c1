--------------------------- MODULE ExecutionSlots ---------------------------
(***************************************************************************)
(* What an execution mode promises of one automation, without saying how   *)
(* (ExecutionMode in crates/lua-host/src/runtime.rs, and the table of      *)
(* modes in config/docs/lua_runtime_guide.md): which triggers run, which   *)
(* wait, in which order, and that a slot that falls free is handed to the  *)
(* first that waits at once.                                               *)
(***************************************************************************)
EXTENDS Naturals, Sequences, FiniteSets

CONSTANT Runs       (* the triggers of the automation, one run each          *)

VARIABLES
  mode,             (* the declared mode: its type and its max               *)
  occupying,        (* the runs that hold a slot                             *)
  waiting           (* the runs that wait for one, first come first          *)

slotVars == <<mode, occupying, waiting>>

Modes(maxima) ==
  [type : {"parallel", "queued"}, max : maxima]
  \cup [type : {"single", "restart"}, max : {1}]

\* A slot is free for a trigger that arrives now.
SlotFree ==
  \/ mode.type = "restart"
  \/ mode.type = "parallel" /\ Cardinality(occupying) < mode.max
  \/ mode.type \in {"single", "queued"} /\ occupying = {}

MayWait == mode.type = "queued" /\ ~SlotFree /\ Len(waiting) < mode.max

Known == occupying \cup {waiting[i] : i \in DOMAIN waiting}

Start(r) ==
  /\ r \notin Known /\ SlotFree
  /\ occupying' = occupying \cup {r}
  /\ UNCHANGED <<mode, waiting>>

Wait(r) ==
  /\ r \notin Known /\ MayWait
  /\ waiting' = Append(waiting, r)
  /\ UNCHANGED <<mode, occupying>>

\* A run gives up its slot, to the first that waits.
Finish(r) ==
  /\ r \in occupying
  /\ IF waiting = <<>>
       THEN /\ occupying' = occupying \ {r}
            /\ UNCHANGED waiting
       ELSE /\ occupying' = (occupying \ {r}) \cup {Head(waiting)}
            /\ waiting' = Tail(waiting)
  /\ UNCHANGED mode

SlotsInit == mode \in Modes(Nat) /\ occupying = {} /\ waiting = <<>>

SlotsNext == \E r \in Runs : Start(r) \/ Wait(r) \/ Finish(r)

\* A run does not hold its slot for ever.
SlotsSpec ==
  /\ SlotsInit /\ [][SlotsNext]_slotVars
  /\ \A r \in Runs : WF_slotVars(Finish(r))

=============================================================================
