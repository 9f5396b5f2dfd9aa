---------------------------- MODULE MCBookingTxn ----------------------------
(***************************************************************************)
(* An instance of BookingTxn for TLC: three requests, in three slices that *)
(* one run takes together.  A slice is chosen by a bound that no step      *)
(* changes, and only forgets behaviours.                                   *)
(*   race      any kind of request for two crossing slots, the             *)
(*             organization closing or opening once;                       *)
(*   retries   creations and a cancellation for one slot, with taken       *)
(*             references and tokens and a lost connection;                *)
(*   calendar  a third slot that only touches the first.                   *)
(***************************************************************************)
EXTENDS BookingTxn, TLC

CONSTANTS r1, r2, r3, chair

VARIABLE slice

ThreeRequests == {r1, r2, r3}
Chair == {chair}

Slot(from, until) == [resource |-> chair, from |-> from, until |-> until]
Crossing == {Slot(0, 2), Slot(1, 3)}
CrossingAndNext == Crossing \cup {Slot(2, 4)}

AllKinds == RequestKind
Retried == {"public", "manual", "cancel"}

NothingTaken == \A c \in Requests : failure[c] \notin {"reference_taken", "token_taken"}

Within ==
    \/ /\ slice = "race"
       /\ \A c \in DOMAIN request : request[c].slot \in Crossing
       /\ NothingTaken
       /\ lost = 0
    \/ /\ slice = "retries"
       /\ \A c \in DOMAIN request :
             request[c].slot = Slot(0, 2) /\ request[c].kind \in Retried
    \/ /\ slice = "calendar"
       /\ NothingTaken
       /\ lost = 0
       /\ orgChanges = 0

SliceInit == Init /\ slice \in {"race", "retries", "calendar"}
SliceNext == Next /\ UNCHANGED slice /\ Within'
SliceSpec == SliceInit /\ [][SliceNext]_<<slice, vars>>

Symmetry == Permutations(Requests)
=============================================================================
