----------------------------- MODULE MCBookings -----------------------------
(***************************************************************************)
(* An instance of Bookings for TLC.  One unit of time is a reminder lead;  *)
(* services of one unit with and without a buffer meet on two resources,   *)
(* so that bookings touch, overlap by the buffer only, and move between    *)
(* resources.                                                              *)
(*                                                                         *)
(* One run takes two slices of the state space: the calendar of two        *)
(* bookings without their reminders, and one booking followed through all  *)
(* its reminders.  A slice only forgets behaviours, and is chosen by a     *)
(* bound that no step changes.                                             *)
(***************************************************************************)
EXTENDS Bookings, TLC

CONSTANTS b1, b2, r1, r2

VARIABLE slice

TwoBookings == {b1, b2}
TwoResources == {r1, r2}

Plain == [duration |-> 1, buffer |-> 0]
Buffered == [duration |-> 1, buffer |-> 1]
BothShapes == {Plain, Buffered}

Within ==
    \/ /\ slice = "calendar"
       /\ clock <= 1
       /\ \A b \in DOMAIN bookings : bookings[b].cutoff = 1
       /\ \A b \in BookingIds : reminders[b] = <<>> /\ Len(outbox[b]) <= 2
    \/ /\ slice = "reminders"
       /\ Cardinality(DOMAIN bookings) <= 1
       /\ \A b \in DOMAIN bookings :
             /\ bookings[b].start \in {2, 3}
             /\ bookings[b].buffer = 0
             /\ bookings[b].cutoff = 0

SliceInit == Init /\ slice \in {"calendar", "reminders"}
SliceNext == Next /\ UNCHANGED slice /\ Within'
SliceSpec == SliceInit /\ [][SliceNext]_<<slice, vars>>

Symmetry == Permutations(TwoBookings) \cup Permutations(TwoResources)
=============================================================================
