------------------------------ MODULE EventBus ------------------------------
(***************************************************************************)
(* The broadcast channel behind EventBus (crates/core/src/bus.rs), seen    *)
(* from ONE of its receivers.  The channel is a ring of Capacity slots     *)
(* shared by all receivers; a publisher never waits.  What a receiver can  *)
(* still read is the suffix of the published events that is in the ring,   *)
(* and a receiver whose oldest unread event was overwritten is told so by  *)
(* one RecvError::Lagged before it reads on from the oldest event left.    *)
(*                                                                         *)
(* A receiver is a record:                                                 *)
(*   buf     the events it has not read and that are still in the ring     *)
(*   lagged  an unread event was overwritten since its last receive        *)
(*                                                                         *)
(* The channel itself (tokio::sync::broadcast) is not in the repository;   *)
(* it is modelled from what bus.rs and the receive loops rely on.          *)
(***************************************************************************)
EXTENDS Naturals, Sequences

CONSTANT Capacity      (* slots of the ring, config runtime.event_bus_capacity *)

ASSUME CapacityAssumption == Capacity \in Nat \ {0}

\* What a receiver of events drawn from Ev can be.
Receiver(Ev) == [buf : Seq(Ev), lagged : BOOLEAN]

\* subscribe(): only what is published from now on.
Subscribed == [buf |-> <<>>, lagged |-> FALSE]

\* Faulty variant: the ring grows.
Published_Unbounded(rx, e) == [rx EXCEPT !.buf = Append(@, e)]

\* publish(): append; in a full ring the oldest unread event is overwritten.
Published(rx, e) ==
  IF Len(rx.buf) < Capacity
    THEN [rx EXCEPT !.buf = Append(@, e)]
    ELSE [buf |-> Append(Tail(rx.buf), e), lagged |-> TRUE]

\* recv() has an event to return, or reports the lag first.
HasEvent(rx)  == ~rx.lagged /\ rx.buf # <<>>
HasLagged(rx) == rx.lagged

\* The receiver after recv() returned the event, or the Lagged error.
AfterEvent(rx)  == [rx EXCEPT !.buf = Tail(@)]
AfterLagged(rx) == [rx EXCEPT !.lagged = FALSE]

=============================================================================
