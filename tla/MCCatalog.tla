----------------------------- MODULE MCCatalog -----------------------------
(***************************************************************************)
(* An instance of Catalog and Publication for TLC.  One run takes five     *)
(* slices of the state space; a slice is chosen by a bound that no step    *)
(* changes, and only forgets behaviours.  In the first three the catalogue *)
(* of a public organization moves alone, in the others the organization.   *)
(*   prices    three services and two changes at a time;                   *)
(*   bookings  two bookings race with changes of a service, a resource     *)
(*             and a share link;                                           *)
(*   offers    every catalogue of two services, two resources and a link;  *)
(*   reviews   two reviews of two requests while one service and one       *)
(*             resource change;                                            *)
(*   visitors  a visitor books while the organization is published,        *)
(*             paused, archived and suspended.                             *)
(***************************************************************************)
EXTENDS Publication

CONSTANTS s1, s2, s3, r1, r2, l1, w1, w2, b1, b2, q1, q2, v1, v2

VARIABLE slice

ThreeServices == {s1, s2, s3}
TwoResources == {r1, r2}
OneLink == {l1}
\* r1 belongs to the staff member who asks.
StaffResource == {r1}
TwoWriters == {w1, w2}
TwoBookers == {b1, b2}
TwoRequests == {q1, q2}
TwoReviewers == {v1, v2}

NoBooking(S) == \A b \in S : attempt[b] = NoAttempt
ServicesIn(S, last) ==
    DOMAIN service \subseteq S /\ \A s \in DOMAIN service : service[s].order <= last
OneWriter == seen[w2] = None

Within ==
    \/ /\ slice = "prices"
       /\ DOMAIN resource = {} /\ DOMAIN link = {}
    \/ /\ slice = "bookings"
       /\ ServicesIn({s1}, 1) /\ DOMAIN resource \subseteq {r1} /\ OneWriter
    \/ /\ slice = "offers"
       /\ ServicesIn({s1, s2}, 1) /\ OneWriter /\ NoBooking(TwoBookers)
    \/ /\ slice = "reviews"
       /\ ServicesIn({s1}, 0) /\ DOMAIN resource \subseteq {r1} /\ DOMAIN link = {}
       /\ OneWriter /\ NoBooking(TwoBookers)
    \/ /\ slice = "visitors"
       /\ ServicesIn({s1}, 0) /\ DOMAIN resource \subseteq {r1} /\ DOMAIN link = {}
       /\ OneWriter /\ NoBooking({b2})
       /\ DOMAIN request \subseteq {q1} /\ review[v2] = Idle

\* In the first three slices the organization is public, and the catalogue it was
\* published with is gone. It comes there in three strides, each several steps of
\* Publication at once: a service that can be booked and the request, its
\* approval, and the deletion of the service and the resource.
OneService == [s \in {s1} |-> [active |-> TRUE, priced |-> FALSE, order |-> 0]]

Prepared ==
    /\ ~published /\ events = <<>>
    /\ service' = OneService
    /\ resource' = [r \in {r1} |-> TRUE]
    /\ assigned' = {<<s1, r1>>}
    /\ hours' = TRUE
    /\ request' = [q \in {q1} |-> "pending"]
    /\ Emit("requested", q1)
    /\ UNCHANGED <<pricing, link, locker, seen, booked, attempt,
                   published, archived, suspended, paused, review>>

Published ==
    /\ ~published /\ events # <<>>
    /\ published' = TRUE
    /\ request' = [q \in {q1} |-> "approved"]
    /\ Emit("published", q1)
    /\ UNCHANGED <<catalogVars, archived, suspended, paused, hours, review>>

Emptied ==
    /\ published
    /\ service = OneService
    /\ locker = None /\ DOMAIN link = {} /\ DOMAIN booked = {} /\ NoBooking(TwoBookers)
    /\ service' = [s \in {} |-> s]
    /\ resource' = [r \in {} |-> TRUE]
    /\ assigned' = {}
    /\ UNCHANGED <<pricing, link, locker, seen, booked, attempt, lifecycleVars>>

SliceNext ==
    /\ UNCHANGED slice
    /\ \/ /\ slice \in {"prices", "bookings", "offers"}
          /\ \/ Prepared \/ Published \/ Emptied
             \/ published /\ CatalogNext /\ UNCHANGED lifecycleVars /\ Within'
       \/ slice \in {"reviews", "visitors"} /\ Next /\ Within'

SliceInit == Init /\ slice \in {"prices", "bookings", "offers", "reviews", "visitors"}
SliceSpec == SliceInit /\ [][SliceNext]_<<slice, vars>>
=============================================================================
