---------------------------- MODULE Publication ----------------------------
(***************************************************************************)
(* Publication and lifecycle of one organization, over its catalogue.      *)
(*                                                                         *)
(* An owner asks for publication, a platform administrator reviews the     *)
(* request, and the catalogue changes meanwhile.  A review locks the       *)
(* request row and then, to publish, the organization; a rejection never   *)
(* locks the organization.  Archiving is the owner's, suspension the       *)
(* platform's.  Each decision writes one outbox event.                     *)
(***************************************************************************)
EXTENDS Catalog, Sequences

CONSTANTS
    Requests,       \* publication requests
    Reviewers,      \* reviews that run at the same time
    MaxEvents       \* bound on the outbox events

ASSUME MaxEventsAssumption == MaxEvents \in Nat
ASSUME NoRequestAssumption == None \notin Requests

VARIABLES
    published, archived, suspended, paused,     \* columns of the organization
    hours,          \* the organization has weekly hours
    request,        \* publication requests: "pending", "approved", "rejected"
    review,         \* per reviewer: the request it holds, the organization, readiness
    events          \* outbox events, oldest first

lifecycleVars == <<published, archived, suspended, paused, hours, request, review, events>>
vars == <<catalogVars, lifecycleVars>>

-----------------------------------------------------------------------------
Idle == [request |-> None, locked |-> FALSE, ready |-> FALSE]
Event == [type : {"requested", "published", "rejected", "unpublished", "suspended", "unsuspended"},
          request : Requests \cup {None}]

TypeOK ==
    /\ CatalogTypeOK
    /\ published \in BOOLEAN /\ archived \in BOOLEAN
    /\ suspended \in BOOLEAN /\ paused \in BOOLEAN /\ hours \in BOOLEAN
    /\ DOMAIN request \subseteq Requests
    /\ request \in [DOMAIN request -> {"pending", "approved", "rejected"}]
    /\ review \in [Reviewers -> [request : Requests \cup {None}, locked : BOOLEAN, ready : BOOLEAN]]
    /\ events \in Seq(Event)

Pending == {q \in DOMAIN request : request[q] = "pending"}
Visible == published /\ ~archived /\ ~suspended /\ ~paused
Writable == ~suspended /\ ~archived
OrganizationFree == Lockable /\ \A v \in Reviewers : ~review[v].locked
RequestFree(q) == \A v \in Reviewers : review[v].request # q

\* calculatePublicationReadinessFromFacts
Ready ==
    /\ ~archived /\ ~suspended
    /\ ActiveServices(service) # {} /\ ActiveResources # {}
    /\ \A s \in ActiveServices(service) : \E r \in ActiveResources : <<s, r>> \in assigned
    /\ hours
    /\ pricing => Unpriced(service) = {}

\* What the owner is shown, and who is told of an unpublication.
LastOf(type) ==
    LET told == {i \in DOMAIN events : events[i].type = type}
    IN  IF told = {} THEN None
        ELSE events[CHOOSE i \in told : \A j \in told : j <= i].request
LatestRequest_Oldest ==
    IF \E i \in DOMAIN events : events[i].type = "requested"
    THEN SelectSeq(events, LAMBDA e : e.type = "requested")[1].request ELSE None
LatestRequest == LastOf("requested")
UnpublicationAddressee == LastOf("published")

Emit(type, q) == events' = Append(events, [type |-> type, request |-> q])
\* The bound leaves room for the decision about a pending request.
Room == Len(events) + Cardinality(Pending) < MaxEvents

CatalogUnchanged == UNCHANGED <<service, resource, assigned, pricing, link, locker, seen, booked>>

-----------------------------------------------------------------------------
\* The organization's own changes: the lock, then requireWritableOrganization.

LockForChange(w) ==
    /\ OrganizationFree
    /\ LockOrganization(w)
    /\ UNCHANGED lifecycleVars

ChangeCatalog(w) ==
    /\ Writable
    /\ Write(w)
    /\ UNCHANGED lifecycleVars

OwnChange(w) ==
    /\ Writing(w)
    /\ Release(w)
    /\ UNCHANGED <<service, resource, assigned, pricing, link, booked, published, suspended, review>>

\* The hours of the week are replaced, also by none.
ReplaceOrganizationWeeklyHours(w, some) ==
    /\ OwnChange(w)
    /\ Writable
    /\ hours' = some
    /\ UNCHANGED <<attempt, archived, paused, request, events>>

UpdateOrganizationAvailabilitySettings_OtherRow(w, pause) ==
    /\ OwnChange(w)
    /\ Writable
    /\ paused' = pause
    /\ UNCHANGED <<attempt, archived, hours, request, events>>
UpdateOrganizationAvailabilitySettings(w, pause) ==
    /\ OwnChange(w)
    /\ Writable
    /\ paused' = pause
    /\ attempt' = OutdatedByOrganization
    /\ UNCHANGED <<archived, hours, request, events>>

ArchiveOrganization(w) ==
    /\ OwnChange(w)
    /\ Writable
    /\ archived' = TRUE
    /\ attempt' = OutdatedByOrganization
    /\ UNCHANGED <<paused, hours, request, events>>

RestoreOrganization(w) ==
    /\ OwnChange(w)
    /\ ~suspended /\ archived
    /\ archived' = FALSE
    /\ attempt' = OutdatedByOrganization
    /\ UNCHANGED <<paused, hours, request, events>>

CreatePublicationRequest_PublishedToo(w, q) ==
    /\ OwnChange(w)
    /\ Writable
    /\ Pending = {} /\ Ready
    /\ q \notin DOMAIN request
    /\ Len(events) + 1 < MaxEvents
    /\ request' = Put(request, q, "pending")
    /\ Emit("requested", q)
    /\ UNCHANGED <<attempt, archived, paused, hours>>
CreatePublicationRequest(w, q) ==
    /\ OwnChange(w)
    /\ ~published /\ Writable
    /\ Pending = {} /\ Ready
    /\ q \notin DOMAIN request
    /\ Len(events) + 1 < MaxEvents
    /\ request' = Put(request, q, "pending")
    /\ Emit("requested", q)
    /\ UNCHANGED <<attempt, archived, paused, hours>>

-----------------------------------------------------------------------------
\* Reviews.

\* FOR UPDATE on the request: a request that is not pending ends the review.
LockRequest_AnyStatus(v, q) ==
    /\ review[v] = Idle
    /\ q \in DOMAIN request /\ RequestFree(q)
    /\ review' = [review EXCEPT ![v].request = q]
    /\ CatalogUnchanged
    /\ UNCHANGED <<attempt, published, archived, suspended, paused, hours, request, events>>
LockRequest(v, q) ==
    /\ review[v] = Idle
    /\ q \in Pending /\ RequestFree(q)
    /\ review' = [review EXCEPT ![v].request = q]
    /\ CatalogUnchanged
    /\ UNCHANGED <<attempt, published, archived, suspended, paused, hours, request, events>>

\* FOR UPDATE on the organization, then the readiness.
OrganizationLockable_Always == TRUE
OrganizationLockable == OrganizationFree

ReadReadiness(v) ==
    /\ review[v].request # None /\ ~review[v].locked
    /\ OrganizationLockable
    /\ review' = [review EXCEPT ![v].locked = TRUE, ![v].ready = Ready]
    /\ CatalogUnchanged
    /\ UNCHANGED <<attempt, published, archived, suspended, paused, hours, request, events>>

\* already_published, or readiness_changed.
RefusePublication(v) ==
    /\ review[v].locked
    /\ published \/ ~review[v].ready
    /\ review' = [review EXCEPT ![v] = Idle]
    /\ CatalogUnchanged
    /\ UNCHANGED <<attempt, published, archived, suspended, paused, hours, request, events>>

PublishOrganization(v) ==
    /\ review[v].locked
    /\ ~published /\ review[v].ready
    /\ published' = TRUE
    /\ request' = [request EXCEPT ![review[v].request] = "approved"]
    /\ Emit("published", review[v].request)
    /\ review' = [review EXCEPT ![v] = Idle]
    /\ attempt' = OutdatedByOrganization
    /\ CatalogUnchanged
    /\ UNCHANGED <<archived, suspended, paused, hours>>

RejectPublicationRequest(v) ==
    /\ review[v].request # None /\ ~review[v].locked
    /\ request' = [request EXCEPT ![review[v].request] = "rejected"]
    /\ Emit("rejected", review[v].request)
    /\ review' = [review EXCEPT ![v] = Idle]
    /\ CatalogUnchanged
    /\ UNCHANGED <<attempt, published, archived, suspended, paused, hours>>

-----------------------------------------------------------------------------
\* The platform's changes lock nothing but the organization.

PlatformChange ==
    /\ OrganizationFree
    /\ Room
    /\ attempt' = OutdatedByOrganization
    /\ CatalogUnchanged
    /\ UNCHANGED <<archived, paused, hours, request, review>>

UnpublishOrganization ==
    /\ PlatformChange
    /\ published /\ published' = FALSE
    /\ Emit("unpublished", None)
    /\ UNCHANGED suspended

SuspendOrganization ==
    /\ PlatformChange
    /\ ~suspended /\ suspended' = TRUE
    /\ Emit("suspended", None)
    /\ UNCHANGED published

UnsuspendOrganization_Again ==
    /\ PlatformChange
    /\ suspended' = FALSE
    /\ Emit("unsuspended", None)
    /\ UNCHANGED published
UnsuspendOrganization ==
    /\ PlatformChange
    /\ suspended /\ suspended' = FALSE
    /\ Emit("unsuspended", None)
    /\ UNCHANGED published

-----------------------------------------------------------------------------
\* A visitor sees the page and books on a snapshot (module Catalog).

VisitorDecides(b, p, l) ==
    /\ Visible
    /\ DecideOnSnapshot(b, p, l)
    /\ UNCHANGED lifecycleVars

VisitorBooks(b) ==
    /\ OrganizationFree
    /\ InsertBooking(b)
    /\ UNCHANGED lifecycleVars

VisitorStartsOver(b) ==
    /\ StartOver(b)
    /\ UNCHANGED lifecycleVars

-----------------------------------------------------------------------------
Init ==
    /\ CatalogInit
    /\ published = FALSE /\ archived = FALSE /\ suspended = FALSE /\ paused = FALSE
    /\ hours = FALSE
    /\ request = [q \in {} |-> "pending"]
    /\ review = [v \in Reviewers |-> Idle]
    /\ events = <<>>

OrganizationStep(w) ==
    \/ LockForChange(w)
    \/ ChangeCatalog(w)
    \/ EndUnchanged(w) /\ UNCHANGED lifecycleVars
    \/ \E flag \in BOOLEAN :
          \/ ReplaceOrganizationWeeklyHours(w, flag)
          \/ UpdateOrganizationAvailabilitySettings(w, flag)
    \/ ArchiveOrganization(w)
    \/ RestoreOrganization(w)
    \/ \E q \in Requests : CreatePublicationRequest(w, q)

ReviewStep(v) ==
    \/ \E q \in Requests : LockRequest(v, q)
    \/ ReadReadiness(v)
    \/ RefusePublication(v)
    \/ PublishOrganization(v)
    \/ RejectPublicationRequest(v)

PlatformStep == UnpublishOrganization \/ SuspendOrganization \/ UnsuspendOrganization

VisitorStep(b) ==
    \/ \E p \in Pairs, l \in Links \cup {None} : VisitorDecides(b, p, l)
    \/ VisitorBooks(b)
    \/ VisitorStartsOver(b)

Next ==
    \/ \E w \in Writers : OrganizationStep(w)
    \/ \E v \in Reviewers : ReviewStep(v)
    \/ PlatformStep
    \/ \E b \in Bookers : VisitorStep(b)

Spec == Init /\ [][Next]_vars

-----------------------------------------------------------------------------
\* An organization becomes public only in a state that is ready, although
\* the catalogue, the hours and the lifecycle change while it is reviewed
\* (publication-decisions.ts).
PublishedWhenReady == [][published' /\ ~published => Ready]_vars

\* At most one request waits, and none while the organization is public:
\* a review never meets already_published.
OnePendingRequest ==
    /\ \A q1, q2 \in Pending : q1 = q2
    /\ Pending # {} => ~published

\* The owner is shown the request that matters: the one that waits, or the one
\* that made the organization public, whose author hears of an unpublication.
OwnerSeesStage ==
    /\ Pending \subseteq {LatestRequest}
    /\ published => LatestRequest # None /\ request[LatestRequest] = "approved"
                    /\ UnpublicationAddressee = LatestRequest

\* The outbox tells the whole story: its events alone give the column
\* published_at, the column suspended_at and the status of every request.
Told(types, dflt) ==
    LET told == {i \in DOMAIN events : events[i].type \in types}
    IN  IF told = {} THEN dflt ELSE events[CHOOSE i \in told : \A j \in told : j <= i].type
About(q) == {i \in DOMAIN events : events[i].request = q}
Decision(q) == IF request[q] = "approved" THEN "published" ELSE "rejected"
RequestTold(q) ==
    \E i \in About(q) :
       /\ events[i].type = "requested"
       /\ IF request[q] = "pending" THEN About(q) = {i}
          ELSE \E j \in About(q) : i < j /\ About(q) = {i, j} /\ events[j].type = Decision(q)
EventsReplayPublication ==
    /\ published <=> Told({"published", "unpublished"}, "unpublished") = "published"
    /\ suspended <=> Told({"suspended", "unsuspended"}, "unsuspended") = "suspended"
    /\ \A q \in Requests : IF q \in DOMAIN request THEN RequestTold(q) ELSE About(q) = {}

\* Nobody is told twice in a row that the organization is suspended, or that it
\* is not.
Suspensions == {i \in DOMAIN events : events[i].type \in {"suspended", "unsuspended"}}
SuspensionsAlternate ==
    \A i \in Suspensions :
       events[i].type = "unsuspended" <=>
          \E j \in Suspensions :
             /\ j < i /\ events[j].type = "suspended"
             /\ \A k \in Suspensions : ~(j < k /\ k < i)

\* A visitor's booking is inserted only for what is active, through a link that
\* is not revoked, and while the organization is public and not paused, although
\* it was decided on an older snapshot.
BookedWhileOffered ==
    [][\A b \in Bookers : BookedWhileActive(b) /\ (VisitorBooks(b) => Visible)]_vars

\* Requests, reviews and the events about them tell one story to the owner.
ReviewsConsistent ==
    /\ TypeOK /\ OnePendingRequest
    /\ OwnerSeesStage /\ EventsReplayPublication /\ SuspensionsAlternate

\* Publication follows PublicationFlow.
stage == IF published THEN "public" ELSE IF Pending # {} THEN "asked" ELSE "private"
Flow == INSTANCE PublicationFlow
ImplementsPublicationFlow == Flow!FlowSpec
=============================================================================
