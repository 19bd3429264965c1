------------------------------- MODULE IpcHost -------------------------------
(***************************************************************************)
(* IpcAdapterHost (crates/plugin-host/src/ipc_host.rs): one task for each  *)
(* adapter in a process of its own spawns the process, restarts it when it *)
(* exits after a pause that doubles up to a minute, and kills it when the  *)
(* shutdown is signalled on a watch channel.                               *)
(***************************************************************************)
EXTENDS Naturals

CONSTANTS
  Ipc,         (* the adapters                                              *)
  MaxExits     (* bound: exits of a process and failures to spawn it        *)

VARIABLES
  child,      (* "top" of the loop, "up", "down", "pausing", "stopped"      *)
  backoff,    (* the next pause, in seconds                                 *)
  exits,
  stopping    (* the value of the watch channel                             *)

HostInit ==
  /\ child = [a \in Ipc |-> "top"]
  /\ backoff = [a \in Ipc |-> 1]
  /\ exits = [a \in Ipc |-> 0]
  /\ stopping = FALSE

Turn(a, from, to) == child[a] = from /\ child' = [child EXCEPT ![a] = to]

\* The loop's top, and spawn_child.
SpawnChild(a) ==
  /\ \/ ~stopping /\ Turn(a, "top", "up") /\ UNCHANGED exits
     \/ /\ ~stopping /\ Turn(a, "top", "down")
        /\ exits[a] < MaxExits /\ exits' = [exits EXCEPT ![a] = @ + 1]
     \/ stopping /\ Turn(a, "top", "stopped") /\ UNCHANGED exits
  /\ UNCHANGED <<backoff, stopping>>

ChildExits(a) ==
  /\ Turn(a, "up", "down")
  /\ exits[a] < MaxExits /\ exits' = [exits EXCEPT ![a] = @ + 1]
  /\ UNCHANGED <<backoff, stopping>>

\* Faulty variant: only the loop's top looks for the shutdown.
KillChild_Never(a) == FALSE /\ Turn(a, "up", "stopped") /\ UNCHANGED <<backoff, exits, stopping>>

\* changed() while the process is waited for.
KillChild(a) ==
  /\ stopping
  /\ Turn(a, "up", "stopped")
  /\ UNCHANGED <<backoff, exits, stopping>>

\* Faulty variant: the loop ends with the process.
Pause_Gone(a) == Turn(a, "down", "stopped") /\ UNCHANGED <<backoff, exits, stopping>>

\* The look at the channel after the process went down.
Pause(a) ==
  /\ \/ stopping /\ Turn(a, "down", "stopped")
     \/ ~stopping /\ Turn(a, "down", "pausing")
  /\ UNCHANGED <<backoff, exits, stopping>>

\* The pause after the next exit: it is never made short again.
Doubled(pause) == IF 2 * pause < 60 THEN 2 * pause ELSE 60

\* The pause ends, or the channel changes in it.
PauseEnds(a) ==
  /\ \/ Turn(a, "pausing", "top") /\ backoff' = [backoff EXCEPT ![a] = Doubled(@)]
     \/ stopping /\ Turn(a, "pausing", "stopped") /\ UNCHANGED backoff
  /\ UNCHANGED <<exits, stopping>>

\* shutdown()
HostShutdown ==
  /\ ~stopping
  /\ stopping' = TRUE
  /\ UNCHANGED <<child, backoff, exits>>

HostTypeOK ==
  /\ child \in [Ipc -> {"top", "up", "down", "pausing", "stopped"}]
  /\ backoff \in [Ipc -> 1..60]
  /\ exits \in [Ipc -> 0..MaxExits]
  /\ stopping \in BOOLEAN

=============================================================================
