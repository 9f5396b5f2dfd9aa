------------------------------- MODULE MCTeam -------------------------------
(***************************************************************************)
(* An instance of Team for TLC: the lock order of memberships is the order *)
(* of the numbers of the users.  One run takes four slices of the state    *)
(* space; a slice is chosen by a bound that no step changes, and only      *)
(* forgets behaviours.                                                     *)
(*   owners       two requests of two users race, without resources;       *)
(*   links        two requests, two resources and one invitation of staff, *)
(*                while the organization closes and opens;                 *)
(*   invitations  two invitations of any kind to one resource or none,     *)
(*                one of them delivered or not;                            *)
(*   promises     two addresses invited to one resource, or one of them    *)
(*                as a manager: an expired invitation to the address and   *)
(*                an open one for the resource meet a new one.             *)
(***************************************************************************)
EXTENDS Team, TLC

CONSTANTS p1, p2, r1, r2, i1, i2

VARIABLE slice

ThreeUsers == 1 .. 3
TwoResources == {r1, r2}
TwoInvitations == {i1, i2}
TwoRequests == {p1, p2}

\* The third user takes no part.
TwoUsers ==
    /\ 3 \notin DOMAIN member
    /\ \A i \in DOMAIN invitation : invitation[i].email # 3
    /\ \A p \in Requests : op[p].actor # 3
OneRequest == Cardinality({p \in Requests : op[p] # Idle}) <= 1
OneResource == Cardinality(DOMAIN resource) <= 1
Undelivered == \A i \in DOMAIN invitation : mail[i] = "sending"
OneOnItsWay == Cardinality({i \in DOMAIN invitation : mail[i] # "sending"}) <= 1
Invited(roles) == \A i \in DOMAIN invitation : invitation[i].role \in roles

Within ==
    \/ slice = "owners" /\ TwoUsers /\ DOMAIN resource = {} /\ Undelivered
    \/ slice = "links" /\ TwoUsers /\ Cardinality(DOMAIN invitation) <= 1
                        /\ Invited({"staff"}) /\ Undelivered
    \/ slice = "invitations" /\ TwoUsers /\ OneResource /\ OneRequest /\ OneOnItsWay
                                      /\ booked = {} /\ open
    \/ slice = "promises" /\ OneResource /\ OneRequest /\ Invited({"staff", "manager"})
                           /\ Undelivered /\ booked = {} /\ open

SliceInit == Init /\ slice \in {"owners", "links", "invitations", "promises"}
SliceNext == Next /\ UNCHANGED slice /\ Within'
SliceSpec == SliceInit /\ [][SliceNext]_<<slice, vars>>

Symmetry == Permutations(TwoRequests) \cup Permutations(TwoInvitations)
                \cup Permutations(TwoResources)
=============================================================================
