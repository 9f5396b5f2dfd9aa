------------------------------ MODULE Calendar ------------------------------
(***************************************************************************)
(* What a booking system promises about a resource's time: a booking holds *)
(* at most one slot, slots of one resource never overlap, and one step     *)
(* changes the slot of one booking only.  The booking operations, written  *)
(* as whole transactions (Bookings) and as racing ones (BookingTxn),       *)
(* implement it; the exclusion constraint of the booking table is what     *)
(* they rely on.                                                           *)
(***************************************************************************)
EXTENDS Integers

CONSTANTS BookingIds, Resources

VARIABLE held      \* booking -> the slot it holds, for those that hold one

Slot == [resource : Resources, from : Nat, until : Nat]

Disjoint(s, t) == s.resource = t.resource => s.until <= t.from \/ t.until <= s.from

Init == held = [b \in {} |-> b]

\* Booking b takes a slot, new or instead of the one it held.
Hold(b) ==
    /\ b \in DOMAIN held'
    /\ held'[b] \in Slot
    /\ \A c \in DOMAIN held \ {b} : Disjoint(held'[b], held[c])
    /\ held' = [c \in DOMAIN held \cup {b} |-> IF c = b THEN held'[b] ELSE held[c]]

Release(b) ==
    /\ b \in DOMAIN held
    /\ held' = [c \in DOMAIN held \ {b} |-> held[c]]

Next == \E b \in BookingIds : Hold(b) \/ Release(b)

Spec == Init /\ [][Next]_held

\* Slots of different bookings are disjoint.
NoDoubleBooking ==
    \A b, c \in DOMAIN held : b # c => Disjoint(held[b], held[c])
=============================================================================
