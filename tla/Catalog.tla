------------------------------ MODULE Catalog ------------------------------
(***************************************************************************)
(* Services, the resources that offer them, pricing and booking share      *)
(* links of one organization, and the bookings that rest on them.          *)
(*                                                                         *)
(* A configuration change is a READ COMMITTED transaction that locks the   *)
(* organization FOR UPDATE, reads, and writes.  A booking is SERIALIZABLE: *)
(* it decides on a snapshot taken earlier, and its foreign keys lock the   *)
(* organization, the resource and the service FOR KEY SHARE when the row   *)
(* is inserted; a row that was updated after the snapshot fails with 40001 *)
(* and the booking starts over (module BookingTxn).                        *)
(***************************************************************************)
EXTENDS Integers, FiniteSets

CONSTANTS
    Services, Resources, Links,
    Own,            \* resources linked to the staff member who asks
    Writers,        \* configuration changes that run at the same time
    Bookers,        \* bookings that are attempted at the same time
    MaxOrder,       \* bound on display_order
    None

ASSUME OwnAssumption == Own \subseteq Resources
ASSUME MaxOrderAssumption == MaxOrder \in Nat
ASSUME NoneAssumption == None \notin Services \cup Resources \cup Links \cup Writers

VARIABLES
    service,        \* existing services: [active, priced, order]
    resource,       \* existing resources: active or not
    assigned,       \* pairs <<service, resource>>
    pricing,        \* organization.pricing_enabled
    link,           \* share links: [service, resource, revoked]
    locker,         \* the writer that holds the organization, or None
    seen,           \* what the writers read after they got the lock
    booked,         \* pairs with a booking: upcoming or past
    attempt         \* per booker: the snapshot it decides on

catalogVars == <<service, resource, assigned, pricing, link, locker, seen, booked, attempt>>

-----------------------------------------------------------------------------
Role == {"owner", "manager", "staff"}
Service == [active : BOOLEAN, priced : BOOLEAN, order : 0..MaxOrder]
Link == [service : Services \cup {None}, resource : Resources \cup {None}, revoked : BOOLEAN]
Pairs == Services \X Resources
NoAttempt == [pair |-> None, link |-> None, stale |-> FALSE]

\* One type invariant, with the foreign keys of the assignments and the links
\* and the scope check of a link.
CatalogTypeOK ==
    /\ DOMAIN service \subseteq Services /\ service \in [DOMAIN service -> Service]
    /\ DOMAIN resource \subseteq Resources /\ resource \in [DOMAIN resource -> BOOLEAN]
    /\ assigned \subseteq (DOMAIN service) \X (DOMAIN resource)
    /\ pricing \in BOOLEAN
    /\ DOMAIN link \subseteq Links /\ link \in [DOMAIN link -> Link]
    /\ \A l \in DOMAIN link :
          /\ link[l].service \in (DOMAIN service) \cup {None}
          /\ link[l].resource \in (DOMAIN resource) \cup {None}
          /\ link[l].service # None \/ link[l].resource # None
    /\ locker \in Writers \cup {None}
    /\ DOMAIN booked \subseteq Pairs /\ booked \in [DOMAIN booked -> {"upcoming", "past"}]
    /\ \A b \in Bookers :
          /\ attempt[b].pair \in Pairs \cup {None}
          /\ attempt[b].link \in Links \cup {None}
          /\ attempt[b].stale \in BOOLEAN

-----------------------------------------------------------------------------
ActiveServices(list) == {s \in DOMAIN list : list[s].active}
ActiveResources == {r \in DOMAIN resource : resource[r]}
Unpriced(list) == {s \in ActiveServices(list) : ~list[s].priced}
BookedServices_Upcoming == {p[1] : p \in {q \in DOMAIN booked : booked[q] = "upcoming"}}
BookedServices == {p[1] : p \in DOMAIN booked}
BookedResources == {p[2] : p \in DOMAIN booked}
Put(f, x, v) == [y \in (DOMAIN f) \cup {x} |-> IF y = x THEN v ELSE f[y]]
Without(f, S) == [y \in (DOMAIN f) \ S |-> f[y]]

\* A link is deleted or revoked only when no booking holds it FOR SHARE.  The
\* booking waits for the organization meanwhile: PostgreSQL ends the deadlock by
\* aborting the booking, which starts over, or the change, which fails.
Unheld(L) == \A b \in Bookers : attempt[b].link \notin L

\* A row that was updated or deleted after a snapshot cannot be locked by the
\* transaction that decided on it.
Outdated(S) == [b \in Bookers |->
    IF attempt[b].pair # None /\ {attempt[b].pair[1], attempt[b].pair[2]} \cap S # {}
    THEN [attempt[b] EXCEPT !.stale = TRUE] ELSE attempt[b]]
OutdatedByOrganization == [b \in Bookers |-> [attempt[b] EXCEPT !.stale = attempt[b].pair # None]]

-----------------------------------------------------------------------------
\* A configuration change: requireWritableOrganization, then the reads.

Lockable == locker = None

LockOrganization(w) ==
    /\ Lockable
    /\ seen[w] = None
    /\ locker' = w
    /\ seen' = [seen EXCEPT ![w] = [pricing |-> pricing, service |-> service]]
    /\ UNCHANGED <<service, resource, assigned, pricing, link, booked, attempt>>

Writing(w) == seen[w] # None
Release(w) ==
    /\ locker' = None
    /\ seen' = [seen EXCEPT ![w] = None]

\* A refusal, or a change that is there already.
EndUnchanged(w) ==
    /\ Writing(w)
    /\ Release(w)
    /\ UNCHANGED <<service, resource, assigned, pricing, link, booked, attempt>>

ServicesChanged(w) == Release(w) /\ UNCHANGED <<resource, assigned, pricing, link, booked>>

\* (max(display_order) ?? -1) + 1
NextOrder_Count(list) == Cardinality(DOMAIN list)
NextOrder(list) ==
    IF DOMAIN list = {} THEN 0
    ELSE 1 + (CHOOSE n \in 0..MaxOrder :
                 /\ \E s \in DOMAIN list : list[s].order = n
                 /\ \A s \in DOMAIN list : list[s].order <= n)

CreateService(w, s, priced) ==
    /\ Writing(w)
    /\ s \notin DOMAIN service
    /\ seen[w].pricing => priced
    /\ NextOrder(seen[w].service) <= MaxOrder
    /\ service' = Put(service, s, [active |-> TRUE, priced |-> priced,
                                   order |-> NextOrder(seen[w].service)])
    /\ ServicesChanged(w)
    /\ UNCHANGED attempt

\* Leaving the price out keeps it, null removes it.
UpdateService(w, s, priced) ==
    /\ Writing(w)
    /\ s \in DOMAIN service
    /\ (seen[w].pricing /\ service[s].active) => priced
    /\ service' = [service EXCEPT ![s].priced = priced]
    /\ attempt' = Outdated({s})
    /\ ServicesChanged(w)

DeactivateService(w, s) ==
    /\ Writing(w)
    /\ s \in ActiveServices(service)
    /\ service' = [service EXCEPT ![s].active = FALSE]
    /\ attempt' = Outdated({s})
    /\ ServicesChanged(w)

ReactivateService_AnyPrice(w, s) ==
    /\ Writing(w)
    /\ s \in (DOMAIN service) \ ActiveServices(service)
    /\ service' = [service EXCEPT ![s].active = TRUE]
    /\ attempt' = Outdated({s})
    /\ ServicesChanged(w)
ReactivateService(w, s) ==
    /\ Writing(w)
    /\ s \in (DOMAIN service) \ ActiveServices(service)
    /\ seen[w].pricing => service[s].priced
    /\ service' = [service EXCEPT ![s].active = TRUE]
    /\ attempt' = Outdated({s})
    /\ ServicesChanged(w)

\* Assignments and links go with the service; booking history keeps it.
DeleteService_LinksStay(w, s) ==
    /\ Writing(w)
    /\ s \in (DOMAIN service) \ (ActiveServices(service) \cup BookedServices)
    /\ service' = Without(service, {s})
    /\ assigned' = {p \in assigned : p[1] # s}
    /\ attempt' = Outdated({s})
    /\ Release(w)
    /\ UNCHANGED <<resource, pricing, link, booked>>
DeleteService(w, s) ==
    /\ Writing(w)
    /\ s \in (DOMAIN service) \ (ActiveServices(service) \cup BookedServices)
    /\ Unheld({l \in DOMAIN link : link[l].service = s})
    /\ service' = Without(service, {s})
    /\ assigned' = {p \in assigned : p[1] # s}
    /\ link' = Without(link, {l \in DOMAIN link : link[l].service = s})
    /\ attempt' = Outdated({s})
    /\ Release(w)
    /\ UNCHANGED <<resource, pricing, booked>>

AssignResourceToService(w, s, r) ==
    /\ Writing(w)
    /\ s \in ActiveServices(service) /\ r \in ActiveResources
    /\ assigned' = assigned \cup {<<s, r>>}
    /\ Release(w)
    /\ UNCHANGED <<service, resource, pricing, link, booked, attempt>>

UnassignResourceFromService(w, s, r) ==
    /\ Writing(w)
    /\ s \in DOMAIN service /\ r \in DOMAIN resource
    /\ assigned' = assigned \ {<<s, r>>}
    /\ Release(w)
    /\ UNCHANGED <<service, resource, pricing, link, booked, attempt>>

UpdateOrganizationPricing(w, enabled) ==
    /\ Writing(w)
    /\ enabled => Unpriced(seen[w].service) = {}
    /\ pricing' = enabled
    /\ attempt' = OutdatedByOrganization
    /\ Release(w)
    /\ UNCHANGED <<service, resource, assigned, link, booked>>

-----------------------------------------------------------------------------
\* Resources, as far as services and bookings depend on them (module Team).

ResourceChanged(w) == Release(w) /\ UNCHANGED <<service, pricing, booked>>

CreateResource(w, r) ==
    /\ Writing(w)
    /\ r \notin DOMAIN resource
    /\ resource' = Put(resource, r, TRUE)
    /\ ResourceChanged(w)
    /\ UNCHANGED <<assigned, link, attempt>>

SetResourceActive(w, r, active) ==
    /\ Writing(w)
    /\ r \in DOMAIN resource /\ resource[r] # active
    /\ resource' = [resource EXCEPT ![r] = active]
    /\ attempt' = Outdated({r})
    /\ ResourceChanged(w)
    /\ UNCHANGED <<assigned, link>>

DeleteResource_AssignmentsStay(w, r) ==
    /\ Writing(w)
    /\ r \in (DOMAIN resource) \ (ActiveResources \cup BookedResources)
    /\ resource' = Without(resource, {r})
    /\ attempt' = Outdated({r})
    /\ ResourceChanged(w)
    /\ UNCHANGED <<assigned, link>>
DeleteResource(w, r) ==
    /\ Writing(w)
    /\ r \in (DOMAIN resource) \ (ActiveResources \cup BookedResources)
    /\ Unheld({l \in DOMAIN link : link[l].resource = r})
    /\ resource' = Without(resource, {r})
    /\ assigned' = {p \in assigned : p[2] # r}
    /\ link' = Without(link, {l \in DOMAIN link : link[l].resource = r})
    /\ attempt' = Outdated({r})
    /\ ResourceChanged(w)

-----------------------------------------------------------------------------
\* Share links.

Covers(l, p) ==
    /\ link[l].service \in {None, p[1]}
    /\ link[l].resource \in {None, p[2]}

Bookable(p) == p \in assigned /\ service[p[1]].active /\ resource[p[2]]

\* The scope is known, active, and has an assignment that can be booked.
LinkWorks_Unassigned(l) ==
    /\ ~link[l].revoked
    /\ link[l].service # None => link[l].service \in ActiveServices(service)
    /\ link[l].resource # None => link[l].resource \in ActiveResources
LinkWorks(l) ==
    /\ ~link[l].revoked
    /\ link[l].service # None => link[l].service \in ActiveServices(service)
    /\ link[l].resource # None => link[l].resource \in ActiveResources
    /\ \E p \in assigned : Bookable(p) /\ Covers(l, p)

CreateBookingShareLink(w, l, s, r) ==
    /\ Writing(w)
    /\ l \notin DOMAIN link
    /\ s # None \/ r # None
    /\ \E p \in assigned : Bookable(p) /\ s \in {None, p[1]} /\ r \in {None, p[2]}
    /\ link' = Put(link, l, [service |-> s, resource |-> r, revoked |-> FALSE])
    /\ Release(w)
    /\ UNCHANGED <<service, resource, assigned, pricing, booked, attempt>>

RevokeBookingShareLink_NoWait(w, l) ==
    /\ Writing(w)
    /\ l \in DOMAIN link /\ ~link[l].revoked
    /\ link' = [link EXCEPT ![l].revoked = TRUE]
    /\ Release(w)
    /\ UNCHANGED <<service, resource, assigned, pricing, booked, attempt>>
RevokeBookingShareLink(w, l) ==
    /\ Writing(w)
    /\ l \in DOMAIN link /\ ~link[l].revoked
    /\ Unheld({l})
    /\ link' = [link EXCEPT ![l].revoked = TRUE]
    /\ Release(w)
    /\ UNCHANGED <<service, resource, assigned, pricing, booked, attempt>>

\* resolvePublicBookingShareScopeInTransaction: without a token everything.
InScope(l, p) == l = None \/ (l \in DOMAIN link /\ LinkWorks(l) /\ Covers(l, p))

-----------------------------------------------------------------------------
\* What the booking pages offer and what a booking is refused for.

FirstReason(checks) ==
    LET failed == {k \in DOMAIN checks : ~checks[k].holds}
    IN  IF failed = {} THEN "ok" ELSE checks[CHOOSE k \in failed : \A m \in failed : k <= m].reason
Check(holds, reason) == [holds |-> holds, reason |-> reason]

\* canManageBookingForResource
CanManage(role, r) == role # "staff" \/ r \in Own

ServiceExists(s) == Check(s \in DOMAIN service, "service_not_found")
ServiceAssigned(s, r) == Check(<<s, r>> \in assigned, "service_not_assigned")
ServiceActive(s) == Check(s \in DOMAIN service => service[s].active, "service_inactive")
ResourceExists(r) == Check(r \in DOMAIN resource, "resource_not_found")
ResourceActive(r) == Check(r \in DOMAIN resource => resource[r], "resource_inactive")
ResourceManaged(role, r) == Check(CanManage(role, r), "insufficient_role")

CreateManualReason(role, s, r) ==
    FirstReason(<<ResourceExists(r), ResourceManaged(role, r), ResourceActive(r),
                  ServiceExists(s), ServiceAssigned(s, r), ServiceActive(s)>>)

ManualOptionsReason(role, s, r) ==
    FirstReason(<<ResourceExists(r), ResourceManaged(role, r), ResourceActive(r),
                  ServiceExists(s), ServiceAssigned(s, r), ServiceActive(s)>>)

\* getManualBookingContext
ManualContext_InactiveToo(role) ==
    {p \in assigned : CanManage(role, p[2]) /\ resource[p[2]]}
ManualContext(role) ==
    {p \in assigned : CanManage(role, p[2]) /\ resource[p[2]] /\ service[p[1]].active}

\* A booking keeps its service when it moves, also when the service is inactive.
RescheduleReason(role, s, r) ==
    FirstReason(<<ResourceExists(r), ResourceActive(r), ResourceManaged(role, r),
                  ServiceExists(s), ServiceAssigned(s, r)>>)

\* getBookingRescheduleOptions: the resources it lists, and why another is refused.
RescheduleTargets(role, s) ==
    {r \in ActiveResources : <<s, r>> \in assigned /\ CanManage(role, r)}
RescheduleOptionsReason(role, s, r) ==
    IF r \in RescheduleTargets(role, s) THEN "ok"
    ELSE FirstReason(<<ResourceExists(r), ResourceActive(r), ResourceManaged(role, r),
                       ServiceAssigned(s, r), Check(FALSE, "resource_not_found")>>)

\* getPublicBookingContext, for a visitor with the link l or with none.
PublicServices(l) ==
    {p \in assigned : Bookable(p) /\ InScope(l, p)}

\* resolvePublicResourceServiceAvailability and the transaction of a public
\* booking: each refusal of theirs reaches the visitor as one answer.
PublicBookable(l, p) ==
    /\ InScope(l, p)
    /\ ResourceExists(p[2]).holds /\ ResourceActive(p[2]).holds
    /\ ServiceExists(p[1]).holds /\ ServiceAssigned(p[1], p[2]).holds
    /\ ServiceActive(p[1]).holds

-----------------------------------------------------------------------------
\* Bookings.

\* The snapshot of a public or a manual booking, its decision, and FOR SHARE on
\* the link.
DecideOnSnapshot(b, p, l) ==
    /\ attempt[b] = NoAttempt
    /\ PublicBookable(l, p)
    /\ attempt' = [attempt EXCEPT ![b] = [pair |-> p, link |-> l, stale |-> FALSE]]
    /\ UNCHANGED <<service, resource, assigned, pricing, link, locker, seen, booked>>

\* booking_organization_fk, booking_resource_organization_fk and
\* booking_service_organization_fk.
ReferenceFails(b) == attempt[b].stale

InsertBooking(b) ==
    /\ attempt[b].pair # None
    /\ Lockable
    /\ ~ReferenceFails(b)
    /\ booked' = Put(booked, attempt[b].pair, "upcoming")
    /\ attempt' = [attempt EXCEPT ![b] = NoAttempt]
    /\ UNCHANGED <<service, resource, assigned, pricing, link, locker, seen>>

\* 40001, or 40P01 while a change waits for the link: the transaction is
\* repeated on a new snapshot.
StartOver(b) ==
    /\ attempt[b].pair # None
    /\ \/ Lockable /\ ReferenceFails(b)
       \/ ~Lockable /\ attempt[b].link # None
    /\ attempt' = [attempt EXCEPT ![b] = NoAttempt]
    /\ UNCHANGED <<service, resource, assigned, pricing, link, locker, seen, booked>>

BookingPasses(p) ==
    /\ p \in DOMAIN booked
    /\ booked' = [booked EXCEPT ![p] = "past"]
    /\ UNCHANGED <<service, resource, assigned, pricing, link, locker, seen, attempt>>

-----------------------------------------------------------------------------
CatalogInit ==
    /\ service = [s \in {} |-> s]
    /\ resource = [r \in {} |-> TRUE]
    /\ assigned = {}
    /\ pricing = FALSE
    /\ link = [l \in {} |-> l]
    /\ locker = None
    /\ seen = [w \in Writers |-> None]
    /\ booked = [p \in {} |-> "past"]
    /\ attempt = [b \in Bookers |-> NoAttempt]

Write(w) ==
    \/ EndUnchanged(w)
    \/ \E s \in Services :
          \/ \E priced \in BOOLEAN : CreateService(w, s, priced) \/ UpdateService(w, s, priced)
          \/ DeactivateService(w, s) \/ ReactivateService(w, s) \/ DeleteService(w, s)
          \/ \E r \in Resources :
                AssignResourceToService(w, s, r) \/ UnassignResourceFromService(w, s, r)
    \/ \E enabled \in BOOLEAN : UpdateOrganizationPricing(w, enabled)
    \/ \E r \in Resources :
          \/ CreateResource(w, r) \/ DeleteResource(w, r)
          \/ \E active \in BOOLEAN : SetResourceActive(w, r, active)
    \/ \E l \in Links :
          \/ RevokeBookingShareLink(w, l)
          \/ \E s \in Services \cup {None}, r \in Resources \cup {None} :
                CreateBookingShareLink(w, l, s, r)

CatalogNext ==
    \/ \E w \in Writers : LockOrganization(w) \/ Write(w)
    \/ \E b \in Bookers :
          \/ \E p \in Pairs, l \in Links \cup {None} : DecideOnSnapshot(b, p, l)
          \/ InsertBooking(b) \/ StartOver(b)
    \/ \E p \in Pairs : BookingPasses(p)

CatalogSpec == CatalogInit /\ [][CatalogNext]_catalogVars

-----------------------------------------------------------------------------
\* While pricing is on, every active service has a price: a booking of a
\* service without one would end in an error (create-public-booking.ts throws
\* "Pricing-enabled Service has no persisted price").
PricesWhenRequired == pricing => Unpriced(service) = {}

\* Display orders are distinct, also for services created at the same time.
OrdersDistinct ==
    \A s, t \in DOMAIN service : service[s].order = service[t].order => s = t

\* What has a booking is not deleted, however booking and deletion race.
HistoryKept == DOMAIN booked \subseteq (DOMAIN service) \X (DOMAIN resource)

\* What a page offers is what a booking or a move is accepted for, for every
\* role, selection and link, and the previews refuse for the same reason.
OffersMatchBooking ==
    /\ \A role \in Role, s \in Services, r \in Resources :
          /\ ManualOptionsReason(role, s, r) = CreateManualReason(role, s, r)
          /\ <<s, r>> \in ManualContext(role) <=> CreateManualReason(role, s, r) = "ok"
          /\ s \in DOMAIN service =>
                RescheduleOptionsReason(role, s, r) = RescheduleReason(role, s, r)
    /\ \A l \in (DOMAIN link) \cup {None}, p \in Pairs :
          p \in PublicServices(l) <=> PublicBookable(l, p)

\* A link that is accepted leads to something that can be booked.
LinksLeadSomewhere == \A l \in DOMAIN link : LinkWorks(l) => PublicServices(l) # {}

\* A booking is inserted for a service and a resource that are active at that
\* moment, and through a link that is not revoked, although it was decided on
\* an older snapshot, and although changes and bookings may deadlock.
BookedWhileActive(b) ==
    LET p == attempt[b].pair
        l == attempt[b].link
    IN  InsertBooking(b) =>
           /\ p[1] \in ActiveServices(service)
           /\ p[2] \in ActiveResources
           /\ l # None => l \in DOMAIN link /\ ~link[l].revoked

\* The catalogue through all races: its rows refer to each other rightly, prices
\* are there when required, places differ, and history keeps its rows.
CatalogConsistent == CatalogTypeOK /\ PricesWhenRequired /\ OrdersDistinct /\ HistoryKept

\* What a page offers is what a booking is accepted for, and a link that opens
\* has something to offer.
OffersConsistent == OffersMatchBooking /\ LinksLeadSomewhere
=============================================================================
