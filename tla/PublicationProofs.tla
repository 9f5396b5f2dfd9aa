------------------------- MODULE PublicationProofs -------------------------
(***************************************************************************)
(* Theorems about Catalog, for every set of services, resources, links,    *)
(* writers and bookers, and about Publication, for every set of requests   *)
(* and reviewers and any number of events.                                 *)
(*                                                                         *)
(* A change of the catalogue decides on what it read after it got the lock *)
(* of the organization, so the invariant says that these reads still hold; *)
(* a booking decides on a snapshot, so the invariant says what is true of  *)
(* the rows of a snapshot that was not outdated.  The catalogue keeps that *)
(* invariant; what Publication adds says that a review decides on what     *)
(* still holds, that the snapshot of a visitor is of a visible             *)
(* organization unless it is outdated, and that the outbox tells the same  *)
(* story as the rows.                                                      *)
(***************************************************************************)
EXTENDS Publication, SequenceTheorems, WellFoundedInduction, TLAPS

USE MaxOrderAssumption, NoneAssumption, NoRequestAssumption

-----------------------------------------------------------------------------
(* The inductive invariant of the catalogue.                               *)

\* The rows, with their references.
RowsTyped ==
    /\ DOMAIN service \subseteq Services /\ service \in [DOMAIN service -> Service]
    /\ DOMAIN resource \subseteq Resources /\ resource \in [DOMAIN resource -> BOOLEAN]
    /\ assigned \subseteq (DOMAIN service) \X (DOMAIN resource)
    /\ pricing \in BOOLEAN
    /\ DOMAIN link \subseteq Links /\ link \in [DOMAIN link -> Link]
    /\ \A l \in DOMAIN link :
          /\ link[l].service \in (DOMAIN service) \cup {None}
          /\ link[l].resource \in (DOMAIN resource) \cup {None}
          /\ link[l].service # None \/ link[l].resource # None
    /\ DOMAIN booked \subseteq Pairs /\ booked \in [DOMAIN booked -> {"upcoming", "past"}]

Rows == RowsTyped /\ PricesWhenRequired /\ OrdersDistinct /\ HistoryKept

\* The organization is locked by the one change that has read, and what it read
\* is what there is.
Seen == [pricing : BOOLEAN, service : UNION {[S -> Service] : S \in SUBSET Services}]
ReadsHold ==
    /\ locker \in Writers \cup {None}
    /\ seen \in [Writers -> Seen \cup {None}]
    /\ \A w \in Writers : seen[w] # None =>
          locker = w /\ seen[w].pricing = pricing /\ seen[w].service = service

\* The rows of a snapshot that is not outdated are active, and a link that a
\* booking holds is there and not revoked.
Attempt == [pair : Pairs \cup {None}, link : Links \cup {None}, stale : BOOLEAN]
SnapshotsHold ==
    /\ attempt \in [Bookers -> Attempt]
    /\ \A b \in Bookers :
          /\ attempt[b].pair # None /\ ~attempt[b].stale =>
                /\ attempt[b].pair[1] \in ActiveServices(service)
                /\ attempt[b].pair[2] \in ActiveResources
          /\ attempt[b].link # None =>
                attempt[b].link \in DOMAIN link /\ ~link[attempt[b].link].revoked

CatalogInv == Rows /\ ReadsHold /\ SnapshotsHold

\* The invariant contains the type invariant.
LEMMA CatalogTyped == CatalogInv => CatalogTypeOK
  BY DEF CatalogInv, Rows, RowsTyped, ReadsHold, SnapshotsHold, Attempt, CatalogTypeOK

-----------------------------------------------------------------------------
(* Display orders.                                                         *)

\* A set of bounded naturals that is not empty has a least and a greatest
\* element.
LEMMA LeastExists ==
    ASSUME NEW S \in SUBSET Nat, S # {}
    PROVE  \E n \in S : \A m \in S : n <= m
<1>1. PICK n \in S : \A m \in S : ~ (<<m, n>> \in OpToRel(<, Nat))
  BY NatLessThanWellFounded, WFMin
<1>2. \A m \in S : ~ (m < n)
  BY <1>1 DEF OpToRel
<1> QED
  BY <1>2

\* A nonempty set of numbers up to a bound has a greatest element.
LEMMA GreatestExists ==
    ASSUME NEW N \in Nat, NEW S \in SUBSET (0 .. N), S # {}
    PROVE  \E n \in S : \A m \in S : m <= n
<1> DEFINE T == {N - n : n \in S}
<1>1. T \in SUBSET Nat /\ T # {}
  <2>1. \A n \in S : N - n \in Nat
    OBVIOUS
  <2>2. T \in SUBSET Nat
    BY <2>1
  <2>3. PICK n \in S : TRUE
    OBVIOUS
  <2>4. N - n \in T
    BY <2>3
  <2> QED
    BY <2>2, <2>4
<1>2. PICK t \in T : \A u \in T : t <= u
  <2> HIDE DEF T
  <2> QED
    BY <1>1, LeastExists
<1>3. PICK n \in S : t = N - n
  BY <1>2
<1>4. \A m \in S : N - n <= N - m
  BY <1>2, <1>3
<1> QED
  BY <1>4

\* A new service comes after all the others.
LEMMA NextOrderIsNew ==
    ASSUME NEW list, DOMAIN list \subseteq Services, list \in [DOMAIN list -> Service]
    PROVE  /\ NextOrder(list) \in Nat
           /\ \A s \in DOMAIN list : list[s].order # NextOrder(list)
<1>1. CASE DOMAIN list = {}
  BY <1>1 DEF NextOrder
<1>2. CASE DOMAIN list # {}
  <2> DEFINE Top(n) == /\ \E s \in DOMAIN list : list[s].order = n
                       /\ \A s \in DOMAIN list : list[s].order <= n
  <2> DEFINE orders == {list[s].order : s \in DOMAIN list}
  <2>1. orders \in SUBSET (0 .. MaxOrder) /\ orders # {}
    BY <1>2 DEF Service
  <2>2. PICK n \in orders : \A m \in orders : m <= n
    <3> HIDE DEF orders
    <3> QED
      BY <2>1, GreatestExists
  <2>3. n \in 0 .. MaxOrder /\ Top(n)
    BY <2>1, <2>2
  <2> DEFINE top == CHOOSE k \in 0 .. MaxOrder : Top(k)
  <2>4. top \in 0 .. MaxOrder /\ Top(top)
    <3> HIDE DEF Top
    <3> QED
      BY <2>3
  <2>5. NextOrder(list) = 1 + top
    BY <1>2 DEF NextOrder
  <2> HIDE DEF top
  <2>6. \A s \in DOMAIN list : list[s].order \in Nat
    BY DEF Service
  <2> QED
    BY <2>4, <2>5, <2>6
<1> QED
  BY <1>1, <1>2

-----------------------------------------------------------------------------
(* Locks and reads.                                                        *)

\* A change that ends was the only one that had read.
LEMMA ReleaseEndsReads ==
    ASSUME ReadsHold, NEW w \in Writers, Writing(w), Release(w)
    PROVE  ReadsHold' /\ \A v \in Writers : seen'[v] = None
<1>1. \A v \in Writers : v # w => seen[v] = None
  BY DEF ReadsHold, Writing
<1>2. \A v \in Writers : seen'[v] = None
  BY <1>1 DEF ReadsHold, Release
<1> QED
  BY <1>2 DEF ReadsHold, Release

\* The reads of a change are the rows it changes.
LEMMA LockReads ==
    ASSUME Rows, ReadsHold, NEW w \in Writers, LockOrganization(w)
    PROVE  ReadsHold'
<1> DEFINE s == [pricing |-> pricing, service |-> service]
<1>1. s \in Seen /\ s.pricing = pricing /\ s.service = service
  BY DEF Rows, RowsTyped, Seen
<1>2. locker' = w /\ seen' = [seen EXCEPT ![w] = s] /\ pricing' = pricing /\ service' = service
  BY DEF LockOrganization
<1>3. \A v \in Writers : seen[v] = None
  BY DEF LockOrganization, Lockable, ReadsHold
<1> HIDE DEF s
<1> QED
  BY <1>1, <1>2, <1>3 DEF ReadsHold

-----------------------------------------------------------------------------
(* Snapshots.                                                              *)

\* Every attempt keeps its decision, and is not made fresh again.
AttemptsStay ==
    /\ attempt' \in [Bookers -> Attempt]
    /\ \A b \in Bookers :
          /\ attempt'[b].pair = attempt[b].pair /\ attempt'[b].link = attempt[b].link
          /\ attempt[b].pair # None => (attempt[b].stale => attempt'[b].stale)

\* When a row x is written, the attempts whose snapshot saw it become outdated, and
\* those that do not have read other rows.
LEMMA OutdatedStays ==
    ASSUME SnapshotsHold, NEW x, attempt' = Outdated({x})
    PROVE  /\ AttemptsStay
           /\ \A b \in Bookers : attempt[b].pair # None /\ ~attempt'[b].stale =>
                 attempt[b].pair[1] # x /\ attempt[b].pair[2] # x
<1>1. ASSUME NEW b \in Bookers
      PROVE  /\ attempt'[b] \in Attempt
             /\ attempt'[b].pair = attempt[b].pair /\ attempt'[b].link = attempt[b].link
             /\ attempt[b].pair # None => (attempt[b].stale => attempt'[b].stale)
             /\ attempt[b].pair # None /\ ~attempt'[b].stale =>
                   attempt[b].pair[1] # x /\ attempt[b].pair[2] # x
  <2>1. attempt[b] \in Attempt
    BY DEF SnapshotsHold
  <2> DEFINE hit == attempt[b].pair # None
                    /\ {attempt[b].pair[1], attempt[b].pair[2]} \cap {x} # {}
  <2>2. attempt'[b] = IF hit THEN [attempt[b] EXCEPT !.stale = TRUE] ELSE attempt[b]
    BY DEF Outdated
  <2>3. CASE hit
    BY <2>1, <2>2, <2>3 DEF Attempt
  <2>4. CASE ~hit
    <3>1. attempt[b].pair # None => attempt[b].pair[1] # x /\ attempt[b].pair[2] # x
      BY <2>4
    <3> QED
      BY <2>1, <2>2, <2>4, <3>1
  <2> QED
    BY <2>3, <2>4
<1>2. attempt' \in [Bookers -> Attempt]
  BY <1>1 DEF Outdated
<1> QED
  BY <1>1, <1>2 DEF AttemptsStay

\* When the row of the organization is written, every attempt with a snapshot becomes
\* outdated.
LEMMA OutdatedByOrganizationStays ==
    ASSUME SnapshotsHold, attempt' = OutdatedByOrganization
    PROVE  /\ AttemptsStay
           /\ \A b \in Bookers : attempt[b].pair # None => attempt'[b].stale
<1>1. ASSUME NEW b \in Bookers
      PROVE  /\ attempt'[b] \in Attempt
             /\ attempt'[b].pair = attempt[b].pair /\ attempt'[b].link = attempt[b].link
             /\ attempt[b].pair # None => attempt'[b].stale
  <2>1. attempt[b] \in Attempt
    BY DEF SnapshotsHold
  <2>2. attempt'[b] = [attempt[b] EXCEPT !.stale = attempt[b].pair # None]
    BY DEF OutdatedByOrganization
  <2>3. (attempt[b].pair # None) \in BOOLEAN
    OBVIOUS
  <2> QED
    BY <2>1, <2>2, <2>3 DEF Attempt
<1>2. attempt' \in [Bookers -> Attempt]
  BY <1>1 DEF OutdatedByOrganization
<1> QED
  BY <1>1, <1>2 DEF AttemptsStay

\* Attempts that are left alone stay as they were.
LEMMA UnchangedStays ==
    ASSUME SnapshotsHold, attempt' = attempt
    PROVE  AttemptsStay
  BY DEF SnapshotsHold, AttemptsStay

\* Snapshots hold when what is no longer active is outdated, and the links that
\* are held are left alone.
LEMMA SnapshotsStillHold ==
    ASSUME SnapshotsHold, AttemptsStay,
           \A b \in Bookers : attempt[b].pair # None /\ ~attempt'[b].stale =>
              /\ attempt[b].pair[1] \in ActiveServices(service)
                    => attempt[b].pair[1] \in ActiveServices(service')
              /\ attempt[b].pair[2] \in ActiveResources
                    => attempt[b].pair[2] \in ActiveResources',
           \A b \in Bookers : attempt[b].link \in DOMAIN link =>
              /\ attempt[b].link \in DOMAIN link'
              /\ link'[attempt[b].link].revoked = link[attempt[b].link].revoked
    PROVE  SnapshotsHold'
<1>1. ASSUME NEW b \in Bookers, attempt'[b].pair # None, ~attempt'[b].stale
      PROVE  /\ attempt'[b].pair[1] \in ActiveServices(service')
             /\ attempt'[b].pair[2] \in ActiveResources'
  BY <1>1 DEF SnapshotsHold, AttemptsStay, Attempt
<1>2. ASSUME NEW b \in Bookers, attempt'[b].link # None
      PROVE  attempt'[b].link \in DOMAIN link' /\ ~link'[attempt'[b].link].revoked
  BY <1>2 DEF SnapshotsHold, AttemptsStay
<1> QED
  BY <1>1, <1>2 DEF SnapshotsHold, AttemptsStay

-----------------------------------------------------------------------------
(* Changes of services.                                                    *)

\* Prices are there when every active service has one.
LEMMA PricesAre ==
    ASSUME NEW list
    PROVE  Unpriced(list) = {} <=> \A s \in DOMAIN list : list[s].active => list[s].priced
  BY DEF Unpriced, ActiveServices

\* A change of services in place keeps the rows when it keeps the orders and
\* leaves no active service without the price it needs.
LEMMA ServicesInPlace ==
    ASSUME Rows, DOMAIN service' = DOMAIN service, service' \in [DOMAIN service -> Service],
           \A s \in DOMAIN service : service'[s].order = service[s].order,
           pricing => \A s \in DOMAIN service : service'[s].active => service'[s].priced,
           UNCHANGED <<resource, assigned, pricing, link, booked>>
    PROVE  Rows'
<1>1. RowsTyped'
  BY DEF Rows, RowsTyped
<1>2. PricesWhenRequired'
  BY PricesAre DEF PricesWhenRequired
<1>3. OrdersDistinct'
  BY DEF Rows, OrdersDistinct
<1>4. HistoryKept'
  BY DEF Rows, HistoryKept
<1> QED
  BY <1>1, <1>2, <1>3, <1>4 DEF Rows

\* A service that is created is the last one, and has the price that is needed.
LEMMA CreateServiceKeeps ==
    ASSUME CatalogInv, NEW w \in Writers, NEW s \in Services, NEW priced \in BOOLEAN,
           CreateService(w, s, priced)
    PROVE  CatalogInv'
<1> USE DEF CatalogInv
<1>1. seen[w].pricing = pricing /\ seen[w].service = service
  BY DEF CreateService, Writing, ReadsHold
<1> DEFINE v == [active |-> TRUE, priced |-> priced, order |-> NextOrder(service)]
<1>2. /\ DOMAIN service \subseteq Services /\ service \in [DOMAIN service -> Service]
  BY DEF Rows, RowsTyped
<1>3. NextOrder(service) \in 0 .. MaxOrder
  BY <1>1, <1>2, NextOrderIsNew DEF CreateService
<1>4. /\ v \in Service /\ v.active /\ v.priced = priced /\ v.order = NextOrder(service)
  BY <1>3 DEF Service
<1>5. /\ s \notin DOMAIN service /\ service' = Put(service, s, v)
      /\ pricing => priced
      /\ UNCHANGED <<resource, assigned, pricing, link, booked, attempt>>
  BY <1>1 DEF CreateService, ServicesChanged
<1> HIDE DEF v
<1>6. /\ service' \in [DOMAIN service' -> Service]
      /\ DOMAIN service' = DOMAIN service \cup {s}
      /\ service'[s] = v
      /\ \A t \in DOMAIN service : service'[t] = service[t]
  BY <1>2, <1>4, <1>5 DEF Put
<1>7. RowsTyped'
  BY <1>5, <1>6 DEF Rows, RowsTyped
<1>8. PricesWhenRequired'
  <2>1. pricing => \A t \in DOMAIN service : service[t].active => service[t].priced
    BY PricesAre DEF Rows, PricesWhenRequired
  <2>2. pricing => \A t \in DOMAIN service' : service'[t].active => service'[t].priced
    BY <1>4, <1>5, <1>6, <2>1
  <2> QED
    BY <1>5, <2>2, PricesAre DEF PricesWhenRequired
<1>9. OrdersDistinct'
  BY <1>2, <1>4, <1>6, NextOrderIsNew DEF Rows, OrdersDistinct
<1>10. HistoryKept'
  BY <1>5, <1>6 DEF Rows, HistoryKept
<1>11. ReadsHold'
  BY ReleaseEndsReads DEF CreateService, ServicesChanged
<1>12. SnapshotsHold'
  <2>1. AttemptsStay
    BY <1>5, UnchangedStays
  <2>2. \A t : t \in ActiveServices(service) => t \in ActiveServices(service')
    BY <1>6 DEF ActiveServices
  <2>3. ActiveResources' = ActiveResources
    BY <1>5 DEF ActiveResources
  <2> QED
    BY <1>5, <2>1, <2>2, <2>3, SnapshotsStillHold
<1> QED
  BY <1>7, <1>8, <1>9, <1>10, <1>11, <1>12 DEF Rows

\* A price is not taken from an active service while prices are required.
LEMMA UpdateServiceKeeps ==
    ASSUME CatalogInv, NEW w \in Writers, NEW s \in Services, NEW priced \in BOOLEAN,
           UpdateService(w, s, priced)
    PROVE  CatalogInv'
<1> USE DEF CatalogInv
<1>1. seen[w].pricing = pricing
  BY DEF UpdateService, Writing, ReadsHold
<1>2. /\ s \in DOMAIN service /\ service' = [service EXCEPT ![s].priced = priced]
      /\ pricing /\ service[s].active => priced
      /\ UNCHANGED <<resource, assigned, pricing, link, booked>>
  BY <1>1 DEF UpdateService, ServicesChanged
<1>3. service \in [DOMAIN service -> Service]
  BY DEF Rows, RowsTyped
<1>4. /\ DOMAIN service' = DOMAIN service /\ service' \in [DOMAIN service -> Service]
      /\ \A t \in DOMAIN service :
            /\ service'[t].order = service[t].order
            /\ service'[t].active = service[t].active
            /\ service'[t].priced = IF t = s THEN priced ELSE service[t].priced
  BY <1>2, <1>3 DEF Service
<1>5. pricing => \A t \in DOMAIN service : service[t].active => service[t].priced
  BY PricesAre DEF Rows, PricesWhenRequired
<1>6. Rows'
  BY <1>2, <1>4, <1>5, ServicesInPlace
<1>7. ReadsHold'
  BY ReleaseEndsReads DEF UpdateService, ServicesChanged
<1>8. SnapshotsHold'
  <2>1. AttemptsStay
    BY OutdatedStays DEF UpdateService
  <2>2. \A t : t \in ActiveServices(service) => t \in ActiveServices(service')
    BY <1>4 DEF ActiveServices
  <2>3. ActiveResources' = ActiveResources
    BY <1>2 DEF ActiveResources
  <2> QED
    BY <1>2, <2>1, <2>2, <2>3, SnapshotsStillHold
<1> QED
  BY <1>6, <1>7, <1>8

\* A service is active again with the price that is needed; a service that is no
\* longer active outdates the snapshots that rest on it.
LEMMA SetServiceActiveKeeps ==
    ASSUME CatalogInv, NEW w \in Writers, NEW s \in Services,
           DeactivateService(w, s) \/ ReactivateService(w, s)
    PROVE  CatalogInv'
<1> USE DEF CatalogInv
<1>1. seen[w].pricing = pricing
  BY DEF DeactivateService, ReactivateService, Writing, ReadsHold
<1>2. PICK active \in BOOLEAN :
        /\ s \in DOMAIN service /\ service' = [service EXCEPT ![s].active = active]
        /\ pricing /\ active => service[s].priced
  BY <1>1 DEF DeactivateService, ReactivateService, ActiveServices
<1>3. service \in [DOMAIN service -> Service]
  BY DEF Rows, RowsTyped
<1>4. /\ DOMAIN service' = DOMAIN service /\ service' \in [DOMAIN service -> Service]
      /\ \A t \in DOMAIN service :
            /\ service'[t].order = service[t].order
            /\ service'[t].active = IF t = s THEN active ELSE service[t].active
            /\ service'[t].priced = service[t].priced
  BY <1>2, <1>3 DEF Service
<1>5. pricing => \A t \in DOMAIN service : service[t].active => service[t].priced
  BY PricesAre DEF Rows, PricesWhenRequired
<1>6. UNCHANGED <<resource, assigned, pricing, link, booked>> /\ attempt' = Outdated({s})
  BY DEF DeactivateService, ReactivateService, ServicesChanged
<1>7. Rows'
  BY <1>2, <1>4, <1>5, <1>6, ServicesInPlace
<1>8. ReadsHold'
  BY ReleaseEndsReads DEF DeactivateService, ReactivateService, ServicesChanged
<1>9. SnapshotsHold'
  <2>1. /\ AttemptsStay
        /\ \A b \in Bookers : attempt[b].pair # None /\ ~attempt'[b].stale =>
              attempt[b].pair[1] # s
    BY <1>6, OutdatedStays
  <2>2. \A t : t # s /\ t \in ActiveServices(service) => t \in ActiveServices(service')
    BY <1>4 DEF ActiveServices
  <2>3. ActiveResources' = ActiveResources
    BY <1>6 DEF ActiveResources
  <2> QED
    BY <1>6, <2>1, <2>2, <2>3, SnapshotsStillHold
<1> QED
  BY <1>7, <1>8, <1>9

\* Only what has no booking is deleted, with its assignments and its links.
LEMMA DeleteServiceKeeps ==
    ASSUME CatalogInv, NEW w \in Writers, NEW s \in Services, DeleteService(w, s)
    PROVE  CatalogInv'
<1> USE DEF CatalogInv
<1> DEFINE L == {l \in DOMAIN link : link[l].service = s}
<1>1. /\ s \in DOMAIN service /\ s \notin BookedServices
      /\ service' = Without(service, {s})
      /\ assigned' = {p \in assigned : p[1] # s}
      /\ link' = Without(link, L)
      /\ attempt' = Outdated({s})
      /\ UNCHANGED <<resource, pricing, booked>>
      /\ \A b \in Bookers : attempt[b].link \notin L
  BY DEF DeleteService, Unheld
<1>2. /\ service \in [DOMAIN service -> Service] /\ link \in [DOMAIN link -> Link]
  BY DEF Rows, RowsTyped
<1>3. /\ service' \in [DOMAIN service' -> Service]
      /\ DOMAIN service' = DOMAIN service \ {s}
      /\ \A t \in DOMAIN service' : service'[t] = service[t]
  BY <1>1, <1>2 DEF Without
<1>4. /\ link' \in [DOMAIN link' -> Link]
      /\ DOMAIN link' = DOMAIN link \ L
      /\ \A l \in DOMAIN link' : link'[l] = link[l] /\ link[l].service # s
  <2>1. \A l \in DOMAIN link \ L : link[l].service # s
    OBVIOUS
  <2> HIDE DEF L
  <2> QED
    BY <1>1, <1>2, <2>1 DEF Without
<1> HIDE DEF L
<1>5. RowsTyped'
  <2>1. assigned' \subseteq (DOMAIN service') \X (DOMAIN resource')
    BY <1>1, <1>3 DEF Rows, RowsTyped
  <2>2. \A l \in DOMAIN link' :
          /\ link'[l].service \in (DOMAIN service') \cup {None}
          /\ link'[l].resource \in (DOMAIN resource') \cup {None}
          /\ link'[l].service # None \/ link'[l].resource # None
    BY <1>1, <1>3, <1>4 DEF Rows, RowsTyped
  <2> QED
    BY <1>1, <1>3, <1>4, <2>1, <2>2 DEF Rows, RowsTyped
<1>6. PricesWhenRequired'
  BY <1>1, <1>3, PricesAre DEF Rows, PricesWhenRequired
<1>7. OrdersDistinct'
  BY <1>3 DEF Rows, OrdersDistinct
<1>8. HistoryKept'
  <2>1. \A p \in DOMAIN booked : p[1] # s
    BY <1>1 DEF BookedServices
  <2> QED
    BY <1>1, <1>3, <2>1 DEF Rows, HistoryKept
<1>9. ReadsHold'
  BY ReleaseEndsReads DEF DeleteService
<1>10. SnapshotsHold'
  <2>1. /\ AttemptsStay
        /\ \A b \in Bookers : attempt[b].pair # None /\ ~attempt'[b].stale =>
              attempt[b].pair[1] # s
    BY <1>1, OutdatedStays
  <2>2. \A t : t # s /\ t \in ActiveServices(service) => t \in ActiveServices(service')
    BY <1>3 DEF ActiveServices
  <2>3. ActiveResources' = ActiveResources
    BY <1>1 DEF ActiveResources
  <2> QED
    BY <1>1, <1>4, <2>1, <2>2, <2>3, SnapshotsStillHold
<1> QED
  BY <1>5, <1>6, <1>7, <1>8, <1>9, <1>10 DEF Rows

-----------------------------------------------------------------------------
(* Other changes.                                                          *)

\* Assignments join rows that exist.
LEMMA AssignKeeps ==
    ASSUME CatalogInv, NEW w \in Writers, NEW s \in Services, NEW r \in Resources,
           AssignResourceToService(w, s, r) \/ UnassignResourceFromService(w, s, r)
    PROVE  CatalogInv'
<1> USE DEF CatalogInv
<1>1. /\ UNCHANGED <<service, resource, pricing, link, booked, attempt>>
      /\ assigned' \subseteq assigned \cup {<<s, r>>}
      /\ s \in DOMAIN service /\ r \in DOMAIN resource
  BY DEF AssignResourceToService, UnassignResourceFromService, ActiveServices,
         ActiveResources
<1>2. Rows'
  BY <1>1 DEF Rows, RowsTyped, PricesWhenRequired, OrdersDistinct, HistoryKept
<1>3. ReadsHold'
  BY ReleaseEndsReads DEF AssignResourceToService, UnassignResourceFromService
<1>4. SnapshotsHold'
  BY <1>1 DEF SnapshotsHold, ActiveResources
<1> QED
  BY <1>2, <1>3, <1>4

\* Prices become required only when every active service has one.
LEMMA PricingKeeps ==
    ASSUME CatalogInv, NEW w \in Writers, NEW enabled \in BOOLEAN,
           UpdateOrganizationPricing(w, enabled)
    PROVE  CatalogInv'
<1> USE DEF CatalogInv
<1>1. seen[w].service = service
  BY DEF UpdateOrganizationPricing, Writing, ReadsHold
<1>2. /\ pricing' = enabled /\ (enabled => Unpriced(service) = {})
      /\ attempt' = OutdatedByOrganization
      /\ UNCHANGED <<service, resource, assigned, link, booked>>
  BY <1>1 DEF UpdateOrganizationPricing
<1>3. Rows'
  BY <1>2 DEF Rows, RowsTyped, PricesWhenRequired, OrdersDistinct, HistoryKept
<1>4. ReadsHold'
  BY ReleaseEndsReads DEF UpdateOrganizationPricing
<1>5. SnapshotsHold'
  BY <1>2, OutdatedByOrganizationStays, SnapshotsStillHold
<1> QED
  BY <1>3, <1>4, <1>5

\* A resource is created, or is activated or deactivated.
LEMMA ResourceKeeps ==
    ASSUME CatalogInv, NEW w \in Writers, NEW r \in Resources,
           CreateResource(w, r) \/ \E active \in BOOLEAN : SetResourceActive(w, r, active)
    PROVE  CatalogInv'
<1> USE DEF CatalogInv
<1>1. /\ UNCHANGED <<service, assigned, pricing, link, booked>>
      /\ (attempt' = attempt /\ r \notin DOMAIN resource) \/ attempt' = Outdated({r})
  BY DEF CreateResource, SetResourceActive, ResourceChanged
<1>2. resource \in [DOMAIN resource -> BOOLEAN] /\ DOMAIN resource \subseteq Resources
  BY DEF Rows, RowsTyped
<1>3. /\ resource' \in [DOMAIN resource' -> BOOLEAN]
      /\ DOMAIN resource' = DOMAIN resource \cup {r}
      /\ \A q \in DOMAIN resource : q # r => resource'[q] = resource[q]
  <2>1. CASE CreateResource(w, r)
    BY <1>2, <2>1 DEF CreateResource, Put
  <2>2. ASSUME NEW active \in BOOLEAN, SetResourceActive(w, r, active)
        PROVE  <1>3!:
    BY <1>2, <2>2 DEF SetResourceActive
  <2> QED
    BY <2>1, <2>2
<1>4. Rows'
  BY <1>1, <1>3 DEF Rows, RowsTyped, PricesWhenRequired, OrdersDistinct, HistoryKept
<1>5. ReadsHold'
  BY ReleaseEndsReads DEF CreateResource, SetResourceActive, ResourceChanged
<1>6. SnapshotsHold'
  <2>1. \A q : q # r /\ q \in ActiveResources => q \in ActiveResources'
    BY <1>3 DEF ActiveResources
  <2>2. AttemptsStay
    BY <1>1, UnchangedStays, OutdatedStays
  <2>3. \A b \in Bookers : attempt[b].pair # None /\ ~attempt'[b].stale =>
           attempt[b].pair[2] # r \/ r \notin ActiveResources
    BY <1>1, OutdatedStays DEF ActiveResources
  <2> QED
    BY <1>1, <2>1, <2>2, <2>3, SnapshotsStillHold
<1> QED
  BY <1>4, <1>5, <1>6

\* A resource without a booking goes with its assignments and its links.
LEMMA DeleteResourceKeeps ==
    ASSUME CatalogInv, NEW w \in Writers, NEW r \in Resources, DeleteResource(w, r)
    PROVE  CatalogInv'
<1> USE DEF CatalogInv
<1> DEFINE L == {l \in DOMAIN link : link[l].resource = r}
<1>1. /\ r \in DOMAIN resource /\ r \notin BookedResources
      /\ resource' = Without(resource, {r})
      /\ assigned' = {p \in assigned : p[2] # r}
      /\ link' = Without(link, L)
      /\ attempt' = Outdated({r})
      /\ UNCHANGED <<service, pricing, booked>>
      /\ \A b \in Bookers : attempt[b].link \notin L
  BY DEF DeleteResource, Unheld, ResourceChanged
<1>2. /\ resource \in [DOMAIN resource -> BOOLEAN] /\ link \in [DOMAIN link -> Link]
  BY DEF Rows, RowsTyped
<1>3. /\ resource' \in [DOMAIN resource' -> BOOLEAN]
      /\ DOMAIN resource' = DOMAIN resource \ {r}
      /\ \A q \in DOMAIN resource' : resource'[q] = resource[q]
  BY <1>1, <1>2 DEF Without
<1>4. /\ link' \in [DOMAIN link' -> Link]
      /\ DOMAIN link' = DOMAIN link \ L
      /\ \A l \in DOMAIN link' : link'[l] = link[l] /\ link[l].resource # r
  <2>1. \A l \in DOMAIN link \ L : link[l].resource # r
    OBVIOUS
  <2> HIDE DEF L
  <2> QED
    BY <1>1, <1>2, <2>1 DEF Without
<1> HIDE DEF L
<1>5. RowsTyped'
  <2>1. assigned' \subseteq (DOMAIN service') \X (DOMAIN resource')
    BY <1>1, <1>3 DEF Rows, RowsTyped
  <2>2. \A l \in DOMAIN link' :
          /\ link'[l].service \in (DOMAIN service') \cup {None}
          /\ link'[l].resource \in (DOMAIN resource') \cup {None}
          /\ link'[l].service # None \/ link'[l].resource # None
    BY <1>1, <1>3, <1>4 DEF Rows, RowsTyped
  <2> QED
    BY <1>1, <1>3, <1>4, <2>1, <2>2 DEF Rows, RowsTyped
<1>6. PricesWhenRequired' /\ OrdersDistinct'
  BY <1>1 DEF Rows, PricesWhenRequired, OrdersDistinct
<1>7. HistoryKept'
  <2>1. \A p \in DOMAIN booked : p[2] # r
    BY <1>1 DEF BookedResources
  <2> QED
    BY <1>1, <1>3, <2>1 DEF Rows, HistoryKept
<1>8. ReadsHold'
  BY ReleaseEndsReads DEF DeleteResource, ResourceChanged
<1>9. SnapshotsHold'
  <2>1. /\ AttemptsStay
        /\ \A b \in Bookers : attempt[b].pair # None /\ ~attempt'[b].stale =>
              attempt[b].pair[2] # r
    BY <1>1, OutdatedStays
  <2>2. \A q : q # r /\ q \in ActiveResources => q \in ActiveResources'
    BY <1>3 DEF ActiveResources
  <2> QED
    BY <1>1, <1>4, <2>1, <2>2, SnapshotsStillHold
<1> QED
  BY <1>5, <1>6, <1>7, <1>8, <1>9 DEF Rows

-----------------------------------------------------------------------------
(* Share links.                                                            *)

\* A link is made for rows that are assigned, and revoked while no booking holds
\* it.
LEMMA LinkKeeps ==
    ASSUME CatalogInv, NEW w \in Writers, NEW l \in Links,
           \/ RevokeBookingShareLink(w, l)
           \/ \E s \in Services \cup {None}, r \in Resources \cup {None} :
                 CreateBookingShareLink(w, l, s, r)
    PROVE  CatalogInv'
<1> USE DEF CatalogInv
<1>1. /\ UNCHANGED <<service, resource, assigned, pricing, booked, attempt>>
      /\ Writing(w) /\ Release(w)
  BY DEF RevokeBookingShareLink, CreateBookingShareLink
<1>2. link \in [DOMAIN link -> Link] /\ DOMAIN link \subseteq Links
  BY DEF Rows, RowsTyped
<1>3. /\ link' \in [DOMAIN link' -> Link] /\ DOMAIN link' \subseteq Links
      /\ \A k \in DOMAIN link' :
            /\ link'[k].service \in (DOMAIN service) \cup {None}
            /\ link'[k].resource \in (DOMAIN resource) \cup {None}
            /\ link'[k].service # None \/ link'[k].resource # None
      /\ \A b \in Bookers : attempt[b].link \in DOMAIN link =>
            /\ attempt[b].link \in DOMAIN link'
            /\ link'[attempt[b].link].revoked = link[attempt[b].link].revoked
  <2>1. CASE RevokeBookingShareLink(w, l)
    <3>1. /\ l \in DOMAIN link /\ link' = [link EXCEPT ![l].revoked = TRUE]
          /\ \A b \in Bookers : attempt[b].link # l
      BY <2>1 DEF RevokeBookingShareLink, Unheld
    <3>2. /\ DOMAIN link' = DOMAIN link /\ link' \in [DOMAIN link -> Link]
          /\ \A k \in DOMAIN link : /\ link'[k].service = link[k].service
                                    /\ link'[k].resource = link[k].resource
                                    /\ k # l => link'[k].revoked = link[k].revoked
      BY <1>2, <3>1 DEF Link
    <3> QED
      BY <3>1, <3>2 DEF Rows, RowsTyped
  <2>2. ASSUME NEW s \in Services \cup {None}, NEW r \in Resources \cup {None},
               CreateBookingShareLink(w, l, s, r)
        PROVE  <1>3!:
    <3> DEFINE v == [service |-> s, resource |-> r, revoked |-> FALSE]
    <3>1. /\ l \notin DOMAIN link /\ (s # None \/ r # None) /\ link' = Put(link, l, v)
      BY <2>2 DEF CreateBookingShareLink
    <3>2. v \in Link /\ v.service = s /\ v.resource = r
      BY DEF Link
    <3>3. s \in (DOMAIN service) \cup {None} /\ r \in (DOMAIN resource) \cup {None}
      BY <2>2 DEF CreateBookingShareLink, Rows, RowsTyped
    <3> HIDE DEF v
    <3>4. /\ DOMAIN link' = DOMAIN link \cup {l} /\ link' \in [DOMAIN link' -> Link]
          /\ link'[l] = v
          /\ \A k \in DOMAIN link : link'[k] = link[k]
      BY <1>2, <3>1, <3>2 DEF Put
    <3> QED
      BY <1>2, <3>1, <3>2, <3>3, <3>4 DEF Rows, RowsTyped
  <2> QED
    BY <2>1, <2>2
<1>4. Rows'
  BY <1>1, <1>3 DEF Rows, RowsTyped, PricesWhenRequired, OrdersDistinct, HistoryKept
<1>5. ReadsHold'
  BY <1>1, ReleaseEndsReads
<1>6. SnapshotsHold'
  <2>1. AttemptsStay /\ ActiveResources' = ActiveResources
    BY <1>1, UnchangedStays DEF ActiveResources
  <2> QED
    BY <1>1, <1>3, <2>1, SnapshotsStillHold
<1> QED
  BY <1>4, <1>5, <1>6

-----------------------------------------------------------------------------
(* Bookings.                                                               *)

\* A snapshot shows active rows and a link that works.
LEMMA DecideKeeps ==
    ASSUME CatalogInv, NEW b \in Bookers, NEW p \in Pairs, NEW l \in Links \cup {None},
           DecideOnSnapshot(b, p, l)
    PROVE  CatalogInv'
<1> USE DEF CatalogInv
<1>1. UNCHANGED <<service, resource, assigned, pricing, link, locker, seen, booked>>
  BY DEF DecideOnSnapshot
<1> DEFINE a == [pair |-> p, link |-> l, stale |-> FALSE]
<1>2. a \in Attempt /\ a.pair = p /\ a.link = l
  BY DEF Attempt
<1>3. attempt' = [attempt EXCEPT ![b] = a]
  BY DEF DecideOnSnapshot
<1>4. /\ p[1] \in ActiveServices(service) /\ p[2] \in ActiveResources
      /\ l # None => l \in DOMAIN link /\ ~link[l].revoked
  BY DEF DecideOnSnapshot, PublicBookable, InScope, LinkWorks, ServiceExists, ServiceActive,
         ResourceExists, ResourceActive, Check, ActiveServices, ActiveResources
<1> HIDE DEF a
<1>5. Rows' /\ ReadsHold'
  BY <1>1 DEF Rows, RowsTyped, PricesWhenRequired, OrdersDistinct, HistoryKept, ReadsHold
<1>6. SnapshotsHold'
  BY <1>1, <1>2, <1>3, <1>4 DEF SnapshotsHold, ActiveResources
<1> QED
  BY <1>5, <1>6

\* What is booked exists.
LEMMA InsertKeeps ==
    ASSUME CatalogInv, NEW b \in Bookers, InsertBooking(b)
    PROVE  CatalogInv'
<1> USE DEF CatalogInv
<1> DEFINE p == attempt[b].pair
<1>1. /\ p # None /\ ~attempt[b].stale
      /\ booked' = Put(booked, p, "upcoming")
      /\ attempt' = [attempt EXCEPT ![b] = NoAttempt]
      /\ UNCHANGED <<service, resource, assigned, pricing, link, locker, seen>>
  BY DEF InsertBooking, ReferenceFails
<1>2. p \in Pairs /\ p[1] \in DOMAIN service /\ p[2] \in DOMAIN resource
  BY <1>1 DEF SnapshotsHold, Attempt, ActiveServices, ActiveResources
<1> HIDE DEF p
<1>3. /\ DOMAIN booked' = DOMAIN booked \cup {p}
      /\ booked' \in [DOMAIN booked' -> {"upcoming", "past"}]
  BY <1>1 DEF Put, Rows, RowsTyped
<1>4. RowsTyped'
  BY <1>1, <1>2, <1>3 DEF Rows, RowsTyped
<1>5. PricesWhenRequired' /\ OrdersDistinct'
  BY <1>1 DEF Rows, PricesWhenRequired, OrdersDistinct
<1>6. HistoryKept'
  <2>1. p \in (DOMAIN service) \X (DOMAIN resource)
    BY <1>2 DEF Pairs
  <2> QED
    BY <1>1, <1>3, <2>1 DEF Rows, HistoryKept
<1>7. ReadsHold'
  BY <1>1 DEF ReadsHold
<1>8. NoAttempt \in Attempt /\ NoAttempt.pair = None /\ NoAttempt.link = None
  BY DEF NoAttempt, Attempt
<1>9. SnapshotsHold'
  BY <1>1, <1>8 DEF SnapshotsHold, ActiveResources
<1> QED
  BY <1>4, <1>5, <1>6, <1>7, <1>9 DEF Rows

\* An attempt that starts over holds nothing; a booking that passes is kept.
LEMMA StartOverKeeps ==
    ASSUME CatalogInv, NEW b \in Bookers, StartOver(b)
    PROVE  CatalogInv'
<1>1. NoAttempt \in Attempt /\ NoAttempt.pair = None /\ NoAttempt.link = None
  BY DEF NoAttempt, Attempt
<1>2. SnapshotsHold'
  BY <1>1 DEF StartOver, CatalogInv, SnapshotsHold, ActiveResources
<1> QED
  BY <1>2 DEF StartOver, CatalogInv, ReadsHold, Rows, RowsTyped, PricesWhenRequired,
              OrdersDistinct, HistoryKept

\* A booking whose time is over stays in the history of its pair.
LEMMA PassesKeeps ==
    ASSUME CatalogInv, NEW p \in Pairs, BookingPasses(p)
    PROVE  CatalogInv'
<1>1. SnapshotsHold' /\ ReadsHold'
  BY DEF BookingPasses, CatalogInv, SnapshotsHold, ReadsHold, ActiveResources
<1>2. DOMAIN booked' = DOMAIN booked /\ booked' \in [DOMAIN booked -> {"upcoming", "past"}]
  BY DEF BookingPasses, CatalogInv, Rows, RowsTyped
<1>3. Rows'
  BY <1>2 DEF BookingPasses, CatalogInv, Rows, RowsTyped, PricesWhenRequired,
              OrdersDistinct, HistoryKept
<1> QED
  BY <1>1, <1>3 DEF CatalogInv

-----------------------------------------------------------------------------
(* Every step.                                                             *)

\* A step that changes no row of the catalogue, may end a change, and may outdate
\* every snapshot.
LEMMA QuietKeeps ==
    ASSUME CatalogInv,
           UNCHANGED <<service, resource, assigned, pricing, link, booked>>,
           \/ UNCHANGED <<locker, seen>>
           \/ \E w \in Writers : Writing(w) /\ Release(w),
           attempt' = attempt \/ attempt' = OutdatedByOrganization
    PROVE  CatalogInv'
<1> USE DEF CatalogInv
<1>1. Rows'
  BY DEF Rows, RowsTyped, PricesWhenRequired, OrdersDistinct, HistoryKept
<1>2. ReadsHold'
  <2>1. CASE UNCHANGED <<locker, seen>>
    BY <2>1 DEF ReadsHold
  <2>2. CASE \E w \in Writers : Writing(w) /\ Release(w)
    BY <2>2, ReleaseEndsReads
  <2> QED
    BY <2>1, <2>2
<1>3. SnapshotsHold'
  <2>1. AttemptsStay /\ ActiveResources' = ActiveResources
    BY UnchangedStays, OutdatedByOrganizationStays DEF ActiveResources
  <2> QED
    BY <2>1, SnapshotsStillHold
<1> QED
  BY <1>1, <1>2, <1>3

\* The changes of the catalogue keep its invariant, however they interleave with
\* one another and with bookings.
LEMMA WriteKeeps ==
    ASSUME CatalogInv, NEW w \in Writers, Write(w)
    PROVE  CatalogInv'
<1>1. CASE EndUnchanged(w)
  BY <1>1, QuietKeeps DEF EndUnchanged
<1> QED
  BY <1>1, CreateServiceKeeps, UpdateServiceKeeps, SetServiceActiveKeeps, DeleteServiceKeeps,
     AssignKeeps, PricingKeeps, ResourceKeeps, DeleteResourceKeeps, LinkKeeps DEF Write

\* A writer that takes the lock of the organization reads pricing and services with it.
LEMMA LockKeeps ==
    ASSUME CatalogInv, NEW w \in Writers, LockOrganization(w)
    PROVE  CatalogInv'
<1>1. ReadsHold'
  BY LockReads DEF CatalogInv
<1>2. Rows' /\ SnapshotsHold'
  BY DEF CatalogInv, LockOrganization, Rows, RowsTyped, PricesWhenRequired,
         OrdersDistinct, HistoryKept, SnapshotsHold, ActiveResources
<1> QED
  BY <1>1, <1>2 DEF CatalogInv

\* The empty catalog satisfies the invariant.
LEMMA CatalogStarts == CatalogInit => CatalogInv
<1> SUFFICES ASSUME CatalogInit PROVE CatalogInv
  OBVIOUS
<1>1. RowsTyped
  BY DEF CatalogInit, RowsTyped
<1>2. PricesWhenRequired /\ OrdersDistinct /\ HistoryKept
  BY DEF CatalogInit, PricesWhenRequired, OrdersDistinct, HistoryKept
<1>3. ReadsHold
  BY DEF CatalogInit, ReadsHold
<1>4. NoAttempt \in Attempt /\ NoAttempt.pair = None /\ NoAttempt.link = None
  BY DEF NoAttempt, Attempt
<1>5. SnapshotsHold
  BY <1>4 DEF CatalogInit, SnapshotsHold
<1> QED
  BY <1>1, <1>2, <1>3, <1>5 DEF CatalogInv, Rows

\* Every write, lock, read and booking keeps the invariant of the catalog.
LEMMA CatalogStep == CatalogInv /\ [CatalogNext]_catalogVars => CatalogInv'
<1> SUFFICES ASSUME CatalogInv, [CatalogNext]_catalogVars PROVE CatalogInv'
  OBVIOUS
<1>1. CASE UNCHANGED catalogVars
  BY <1>1, QuietKeeps DEF catalogVars
<1>2. CASE CatalogNext
  BY <1>2, LockKeeps, WriteKeeps, DecideKeeps, InsertKeeps, StartOverKeeps, PassesKeeps
     DEF CatalogNext
<1> QED
  BY <1>1, <1>2

-----------------------------------------------------------------------------
(* Refusals.                                                               *)

\* The first check that fails gives the reason.
LEMMA FirstReasonOfChecks ==
    ASSUME NEW n \in Nat, NEW checks, DOMAIN checks = 1 .. n,
           \A k \in 1 .. n : checks[k].reason # "ok"
    PROVE  /\ FirstReason(checks) = "ok" <=> \A k \in 1 .. n : checks[k].holds
           /\ \A k \in 1 .. n :
                 ~checks[k].holds /\ (\A j \in 1 .. (k - 1) : checks[j].holds)
                    => FirstReason(checks) = checks[k].reason
<1> DEFINE failed == {k \in 1 .. n : ~checks[k].holds}
           first == CHOOSE k \in failed : \A m \in failed : k <= m
<1>1. FirstReason(checks) = IF failed = {} THEN "ok" ELSE checks[first].reason
  BY DEF FirstReason
<1>2. failed \in SUBSET Nat
  OBVIOUS
<1>3. CASE failed = {}
  BY <1>1, <1>3
<1>4. CASE failed # {}
  <2>1. \E k \in failed : \A m \in failed : k <= m
    <3> HIDE DEF failed
    <3> QED
      BY <1>2, <1>4, LeastExists
  <2>2. first \in failed /\ \A m \in failed : first <= m
    <3> HIDE DEF failed
    <3> QED
      BY <2>1
  <2>3. first \in 1 .. n /\ ~checks[first].holds
    BY <2>2
  <2>4. FirstReason(checks) = checks[first].reason
    BY <1>1, <1>4
  <2>5. ASSUME NEW k \in 1 .. n, ~checks[k].holds, \A j \in 1 .. (k - 1) : checks[j].holds
        PROVE  first = k
    <3>1. first <= k
      BY <2>2, <2>5
    <3>2. ~(first < k)
      BY <2>3, <2>5
    <3> HIDE DEF first
    <3> QED
      BY <2>3, <3>1, <3>2
  <2> HIDE DEF first, failed
  <2> QED
    BY <2>3, <2>4, <2>5
<1> QED
  BY <1>3, <1>4

\* A check is the record of its two fields.
LEMMA CheckFields ==
    ASSUME NEW holds, NEW reason
    PROVE  Check(holds, reason).holds = holds /\ Check(holds, reason).reason = reason
  BY DEF Check

\* A booking by hand is accepted for what the page of the role lists.
LEMMA ManualMatches ==
    ASSUME RowsTyped, NEW role \in Role, NEW s \in Services, NEW r \in Resources
    PROVE  <<s, r>> \in ManualContext(role) <=> CreateManualReason(role, s, r) = "ok"
<1> DEFINE c == <<ResourceExists(r), ResourceManaged(role, r), ResourceActive(r),
                  ServiceExists(s), ServiceAssigned(s, r), ServiceActive(s)>>
<1>1. DOMAIN c = 1 .. 6 /\ 6 \in Nat
  OBVIOUS
<1>2. /\ c[1].reason # "ok" /\ c[2].reason # "ok" /\ c[3].reason # "ok"
      /\ c[4].reason # "ok" /\ c[5].reason # "ok" /\ c[6].reason # "ok"
  BY CheckFields DEF ResourceExists, ResourceManaged, ResourceActive, ServiceExists,
                     ServiceAssigned, ServiceActive
<1>3. \A k \in 1 .. 6 : c[k].reason # "ok"
  <2>1. \A k \in 1 .. 6 : k = 1 \/ k = 2 \/ k = 3 \/ k = 4 \/ k = 5 \/ k = 6
    OBVIOUS
  <2> HIDE DEF c
  <2> QED
    BY <1>2, <2>1
<1>4. /\ c[1].holds = (r \in DOMAIN resource) /\ c[2].holds = CanManage(role, r)
      /\ c[3].holds = (r \in DOMAIN resource => resource[r])
      /\ c[4].holds = (s \in DOMAIN service) /\ c[5].holds = (<<s, r>> \in assigned)
      /\ c[6].holds = (s \in DOMAIN service => service[s].active)
  BY CheckFields DEF ResourceExists, ResourceManaged, ResourceActive, ServiceExists,
                     ServiceAssigned, ServiceActive
<1>5. CreateManualReason(role, s, r) = FirstReason(c)
  BY DEF CreateManualReason
<1> HIDE DEF c
<1>6. CreateManualReason(role, s, r) = "ok" <=> \A k \in 1 .. 6 : c[k].holds
  BY <1>1, <1>3, <1>5, FirstReasonOfChecks
<1>7. (\A k \in 1 .. 6 : c[k].holds) <=>
          /\ c[1].holds /\ c[2].holds /\ c[3].holds
          /\ c[4].holds /\ c[5].holds /\ c[6].holds
  <2>1. \A k \in 1 .. 6 : k = 1 \/ k = 2 \/ k = 3 \/ k = 4 \/ k = 5 \/ k = 6
    OBVIOUS
  <2> QED
    BY <2>1
<1>8. <<s, r>> \in ManualContext(role) <=>
          /\ <<s, r>> \in assigned /\ CanManage(role, r)
          /\ resource[r] /\ service[s].active
  BY DEF ManualContext
<1>9. <<s, r>> \in assigned => s \in DOMAIN service /\ r \in DOMAIN resource
  BY DEF RowsTyped
<1> QED
  BY <1>4, <1>6, <1>7, <1>8, <1>9

\* A move is refused for the reason its options show.
LEMMA RescheduleMatches ==
    ASSUME RowsTyped, NEW role \in Role, NEW s \in DOMAIN service, NEW r \in Resources
    PROVE  RescheduleOptionsReason(role, s, r) = RescheduleReason(role, s, r)
<1> DEFINE c == <<ResourceExists(r), ResourceActive(r), ResourceManaged(role, r),
                  ServiceExists(s), ServiceAssigned(s, r)>>
           d == <<ResourceExists(r), ResourceActive(r), ResourceManaged(role, r),
                  ServiceAssigned(s, r), Check(FALSE, "resource_not_found")>>
<1>1. DOMAIN c = 1 .. 5 /\ DOMAIN d = 1 .. 5 /\ 5 \in Nat
  OBVIOUS
<1>2. \A k \in 1 .. 5 : k = 1 \/ k = 2 \/ k = 3 \/ k = 4 \/ k = 5
  OBVIOUS
<1>3. /\ c[1] = ResourceExists(r) /\ c[2] = ResourceActive(r)
      /\ c[3] = ResourceManaged(role, r) /\ c[4] = ServiceExists(s)
      /\ c[5] = ServiceAssigned(s, r)
      /\ d[1] = ResourceExists(r) /\ d[2] = ResourceActive(r)
      /\ d[3] = ResourceManaged(role, r) /\ d[4] = ServiceAssigned(s, r)
      /\ d[5] = Check(FALSE, "resource_not_found")
  OBVIOUS
<1>4. /\ RescheduleReason(role, s, r) = FirstReason(c)
      /\ RescheduleOptionsReason(role, s, r) =
            IF r \in RescheduleTargets(role, s) THEN "ok" ELSE FirstReason(d)
  BY DEF RescheduleReason, RescheduleOptionsReason
<1> HIDE DEF c, d
<1>5. \A k \in 1 .. 5 : c[k].reason # "ok" /\ d[k].reason # "ok"
  <2>1. /\ c[1].reason # "ok" /\ c[2].reason # "ok" /\ c[3].reason # "ok"
        /\ c[4].reason # "ok" /\ c[5].reason # "ok"
    BY <1>3, CheckFields DEF ResourceExists, ResourceManaged, ResourceActive,
                             ServiceExists, ServiceAssigned
  <2>2. /\ d[1].reason # "ok" /\ d[2].reason # "ok" /\ d[3].reason # "ok"
        /\ d[4].reason # "ok"
    BY <1>3, CheckFields DEF ResourceExists, ResourceManaged, ResourceActive, ServiceAssigned
  <2>3. d[5].reason # "ok"
    BY <1>3 DEF Check
  <2> QED
    BY <1>2, <2>1, <2>2, <2>3
<1>6. FirstReason(c) = "ok" <=> \A k \in 1 .. 5 : c[k].holds
  BY <1>1, <1>5, FirstReasonOfChecks
<1>7. ASSUME NEW k \in 1 .. 5, ~c[k].holds, \A j \in 1 .. (k - 1) : c[j].holds
      PROVE  FirstReason(c) = c[k].reason
  BY <1>1, <1>5, <1>7, FirstReasonOfChecks
<1>8. ASSUME NEW k \in 1 .. 5, ~d[k].holds, \A j \in 1 .. (k - 1) : d[j].holds
      PROVE  FirstReason(d) = d[k].reason
  BY <1>1, <1>5, <1>8, FirstReasonOfChecks
<1>9. /\ c[1].holds = (r \in DOMAIN resource)
      /\ c[2].holds = (r \in DOMAIN resource => resource[r])
      /\ c[3].holds = CanManage(role, r)
      /\ c[4].holds = (s \in DOMAIN service)
      /\ c[5].holds = (<<s, r>> \in assigned)
      /\ d[4].holds = (<<s, r>> \in assigned)
  BY <1>3, CheckFields DEF ResourceExists, ResourceManaged, ResourceActive, ServiceExists,
                           ServiceAssigned
<1>10. r \in RescheduleTargets(role, s) <=>
          c[1].holds /\ c[2].holds /\ c[3].holds /\ c[5].holds
  BY <1>9 DEF RescheduleTargets, ActiveResources
<1>11. CASE r \in RescheduleTargets(role, s)
  <2>1. \A k \in 1 .. 5 : c[k].holds
    BY <1>2, <1>9, <1>10, <1>11
  <2> QED
    BY <1>4, <1>6, <1>11, <2>1
<1>12. CASE r \notin RescheduleTargets(role, s)
  <2>1. \A j : j \in 1 .. 0 => FALSE
    OBVIOUS
  <2>2. \A j \in 1 .. 1 : j = 1
    OBVIOUS
  <2>3. \A j \in 1 .. 2 : j = 1 \/ j = 2
    OBVIOUS
  <2>4. \A j \in 1 .. 3 : j = 1 \/ j = 2 \/ j = 3
    OBVIOUS
  <2>5. \A j \in 1 .. 4 : j = 1 \/ j = 2 \/ j = 3 \/ j = 4
    OBVIOUS
  <2>6. CASE ~c[1].holds
    <3>1. \A j \in 1 .. (1 - 1) : c[j].holds /\ d[j].holds
      OBVIOUS
    <3> QED
      BY <1>3, <1>4, <1>7, <1>8, <1>12, <2>6, <3>1
  <2>7. CASE c[1].holds /\ ~c[2].holds
    <3>1. \A j \in 1 .. (2 - 1) : c[j].holds /\ d[j].holds
      BY <1>3, <2>2, <2>7
    <3> QED
      BY <1>3, <1>4, <1>7, <1>8, <1>12, <2>7, <3>1
  <2>8. CASE c[1].holds /\ c[2].holds /\ ~c[3].holds
    <3>1. \A j \in 1 .. (3 - 1) : c[j].holds /\ d[j].holds
      BY <1>3, <2>3, <2>8
    <3> QED
      BY <1>3, <1>4, <1>7, <1>8, <1>12, <2>8, <3>1
  <2>9. CASE c[1].holds /\ c[2].holds /\ c[3].holds /\ ~c[5].holds
    <3>1. \A j \in 1 .. (5 - 1) : c[j].holds
      BY <1>9, <2>5, <2>9
    <3>2. \A j \in 1 .. (4 - 1) : d[j].holds
      BY <1>3, <2>4, <2>9
    <3>3. ~d[4].holds
      BY <1>9, <2>9
    <3>4. FirstReason(c) = c[5].reason /\ FirstReason(d) = d[4].reason
      BY <1>7, <1>8, <2>9, <3>1, <3>2, <3>3
    <3> QED
      BY <1>3, <1>4, <1>12, <3>4
  <2> QED
    BY <1>10, <1>12, <2>6, <2>7, <2>8, <2>9
<1> QED
  BY <1>11, <1>12

\* A visitor books what the page shows.
LEMMA PublicMatches ==
    ASSUME RowsTyped, NEW l \in (DOMAIN link) \cup {None}, NEW p \in Pairs
    PROVE  p \in PublicServices(l) <=> PublicBookable(l, p)
<1>1. p \in assigned => p[1] \in DOMAIN service /\ p[2] \in DOMAIN resource
  BY DEF RowsTyped
<1>2. p = <<p[1], p[2]>>
  BY DEF Pairs
<1>3. /\ ResourceExists(p[2]).holds = (p[2] \in DOMAIN resource)
      /\ ResourceActive(p[2]).holds = (p[2] \in DOMAIN resource => resource[p[2]])
      /\ ServiceExists(p[1]).holds = (p[1] \in DOMAIN service)
      /\ ServiceAssigned(p[1], p[2]).holds = (p \in assigned)
      /\ ServiceActive(p[1]).holds = (p[1] \in DOMAIN service => service[p[1]].active)
  BY <1>2, CheckFields DEF ResourceExists, ResourceActive, ServiceExists, ServiceAssigned,
                           ServiceActive
<1> QED
  BY <1>1, <1>3 DEF PublicServices, PublicBookable, Bookable

\* Offers agree with what is accepted, for every catalogue.
LEMMA OffersFollow == RowsTyped => OffersConsistent
<1> SUFFICES ASSUME RowsTyped PROVE OffersConsistent
  OBVIOUS
<1>1. \A role \in Role, s \in Services, r \in Resources :
         ManualOptionsReason(role, s, r) = CreateManualReason(role, s, r)
  BY DEF ManualOptionsReason, CreateManualReason
<1>2. OffersMatchBooking
  BY <1>1, ManualMatches, RescheduleMatches, PublicMatches DEF OffersMatchBooking
<1>3. LinksLeadSomewhere
  <2>1. ASSUME NEW l \in DOMAIN link, LinkWorks(l) PROVE PublicServices(l) # {}
    <3>1. PICK p \in assigned : Bookable(p) /\ Covers(l, p)
      BY <2>1 DEF LinkWorks
    <3>2. p \in PublicServices(l)
      BY <2>1, <3>1 DEF PublicServices, InScope
    <3> QED
      BY <3>2
  <2> QED
    BY <2>1 DEF LinksLeadSomewhere
<1> QED
  BY <1>2, <1>3 DEF OffersConsistent

-----------------------------------------------------------------------------
(* Theorems.                                                               *)

\* The catalogue stays as the invariant says, however changes and bookings
\* interleave.
THEOREM CatalogInvariance == CatalogSpec => []CatalogInv
  BY CatalogStarts, CatalogStep, PTL DEF CatalogSpec

\* Rows refer to each other rightly, prices are there when required, places
\* differ, and what has a booking is not deleted.
THEOREM CatalogStaysConsistent == CatalogSpec => []CatalogConsistent
<1>1. CatalogInv => CatalogConsistent
  BY CatalogTyped DEF CatalogInv, Rows, CatalogConsistent
<1> QED
  BY <1>1, CatalogInvariance, PTL

\* The pages offer what a booking or a move is accepted for, and refuse for the
\* same reason.
THEOREM OffersStayConsistent == CatalogSpec => []OffersConsistent
<1>1. CatalogInv => OffersConsistent
  BY OffersFollow DEF CatalogInv, Rows
<1> QED
  BY <1>1, CatalogInvariance, PTL

-----------------------------------------------------------------------------
(* The inductive invariant of the publication.                             *)

Columns ==
    /\ published \in BOOLEAN /\ archived \in BOOLEAN
    /\ suspended \in BOOLEAN /\ paused \in BOOLEAN /\ hours \in BOOLEAN

RequestsTyped ==
    /\ DOMAIN request \subseteq Requests
    /\ request \in [DOMAIN request -> {"pending", "approved", "rejected"}]

\* A review holds a pending request that no other review holds; one that locked
\* the organization is alone with it, and has read how ready it is.
Review == [request : Requests \cup {None}, locked : BOOLEAN, ready : BOOLEAN]
ReviewsHold ==
    /\ review \in [Reviewers -> Review]
    /\ \A v \in Reviewers :
          /\ review[v].request # None => review[v].request \in Pending
          /\ \A u \in Reviewers : u # v /\ review[v].request # None =>
                review[u].request # review[v].request
          /\ review[v].locked =>
                /\ review[v].request # None
                /\ locker = None
                /\ review[v].ready = Ready
                /\ \A u \in Reviewers : u # v => ~review[u].locked

\* A snapshot that is not outdated is of a visible organization.
VisitorsHold ==
    \A b \in Bookers : attempt[b].pair # None /\ ~attempt[b].stale => Visible

Stories == OwnerSeesStage /\ EventsReplayPublication /\ SuspensionsAlternate

IInv ==
    /\ CatalogInv
    /\ Columns /\ RequestsTyped /\ events \in Seq(Event)
    /\ OnePendingRequest /\ ReviewsHold /\ VisitorsHold
    /\ Stories

\* The invariant contains the type invariant.
LEMMA Typed == IInv => TypeOK
  BY CatalogTyped DEF IInv, Columns, RequestsTyped, ReviewsHold, Review, TypeOK

-----------------------------------------------------------------------------
(* The catalogue.                                                          *)

\* Every step is a step of the catalogue, or changes no row of it.
LEMMA StepKeepsCatalog ==
    ASSUME IInv, [Next]_vars
    PROVE  CatalogInv'
<1> USE DEF IInv
<1>1. ASSUME UNCHANGED vars PROVE CatalogInv'
  BY <1>1, QuietKeeps DEF vars, catalogVars
<1>2. ASSUME NEW w \in Writers, OwnChange(w),
             attempt' = attempt \/ attempt' = OutdatedByOrganization
      PROVE  CatalogInv'
  BY <1>2, QuietKeeps DEF OwnChange
<1>3. ASSUME NEW w \in Writers, OrganizationStep(w) PROVE CatalogInv'
  <2>1. CASE LockForChange(w) \/ ChangeCatalog(w)
    BY <2>1, LockKeeps, WriteKeeps DEF LockForChange, ChangeCatalog
  <2>2. CASE EndUnchanged(w)
    BY <2>2, WriteKeeps DEF Write
  <2>3. CASE \E flag \in BOOLEAN : ReplaceOrganizationWeeklyHours(w, flag)
                                   \/ UpdateOrganizationAvailabilitySettings(w, flag)
    BY <1>2, <2>3 DEF ReplaceOrganizationWeeklyHours, UpdateOrganizationAvailabilitySettings
  <2>4. CASE ArchiveOrganization(w) \/ RestoreOrganization(w)
             \/ \E q \in Requests : CreatePublicationRequest(w, q)
    BY <1>2, <2>4 DEF ArchiveOrganization, RestoreOrganization, CreatePublicationRequest
  <2> QED
    BY <1>3, <2>1, <2>2, <2>3, <2>4 DEF OrganizationStep
<1>4. ASSUME NEW v \in Reviewers, ReviewStep(v) PROVE CatalogInv'
  <2>1. /\ CatalogUnchanged
        /\ attempt' = attempt \/ attempt' = OutdatedByOrganization
    BY <1>4 DEF ReviewStep, LockRequest, ReadReadiness, RefusePublication,
                PublishOrganization, RejectPublicationRequest
  <2> QED
    BY <2>1, QuietKeeps DEF CatalogUnchanged
<1>5. ASSUME PlatformStep PROVE CatalogInv'
  <2>1. CatalogUnchanged /\ attempt' = OutdatedByOrganization
    BY <1>5 DEF PlatformStep, UnpublishOrganization, SuspendOrganization,
                UnsuspendOrganization, PlatformChange
  <2> QED
    BY <2>1, QuietKeeps DEF CatalogUnchanged
<1>6. ASSUME NEW b \in Bookers, VisitorStep(b) PROVE CatalogInv'
  BY <1>6, DecideKeeps, InsertKeeps, StartOverKeeps
     DEF VisitorStep, VisitorDecides, VisitorBooks, VisitorStartsOver
<1> QED
  BY <1>1, <1>3, <1>4, <1>5, <1>6 DEF Next

-----------------------------------------------------------------------------
(* Visitors.                                                               *)

\* Whatever makes an organization less visible outdates every snapshot of it.
LEMMA StepKeepsVisitors ==
    ASSUME IInv, [Next]_vars
    PROVE  VisitorsHold'
<1> USE DEF IInv
<1>1. attempt \in [Bookers -> Attempt]
  BY DEF CatalogInv, SnapshotsHold
<1>2. ASSUME AttemptsStay, Visible => Visible' PROVE VisitorsHold'
  BY <1>2 DEF VisitorsHold, AttemptsStay, Attempt
<1>3. ASSUME attempt' = OutdatedByOrganization PROVE VisitorsHold'
  BY <1>3, OutdatedByOrganizationStays DEF CatalogInv, VisitorsHold, AttemptsStay
<1>4. ASSUME attempt' = attempt,
             UNCHANGED <<archived, suspended, paused>>, published => published'
      PROVE  VisitorsHold'
  BY <1>4, UnchangedStays, <1>2 DEF CatalogInv, Visible
<1>5. ASSUME NEW w \in Writers, OrganizationStep(w) PROVE VisitorsHold'
  <2>1. CASE LockForChange(w) \/ (EndUnchanged(w) /\ UNCHANGED lifecycleVars)
             \/ (\E flag \in BOOLEAN : ReplaceOrganizationWeeklyHours(w, flag))
             \/ (\E q \in Requests : CreatePublicationRequest(w, q))
    BY <1>4, <2>1 DEF LockForChange, LockOrganization, EndUnchanged, lifecycleVars,
                      ReplaceOrganizationWeeklyHours, CreatePublicationRequest, OwnChange
  <2>2. CASE (\E flag \in BOOLEAN : UpdateOrganizationAvailabilitySettings(w, flag))
             \/ ArchiveOrganization(w) \/ RestoreOrganization(w)
    BY <1>3, <2>2 DEF UpdateOrganizationAvailabilitySettings, ArchiveOrganization,
                      RestoreOrganization
  <2>3. CASE ChangeCatalog(w)
    <3>1. UNCHANGED <<published, archived, suspended, paused>>
      BY <2>3 DEF ChangeCatalog, lifecycleVars
    <3>2. attempt' = attempt \/ attempt' = OutdatedByOrganization
          \/ \E x : attempt' = Outdated({x})
      BY <2>3 DEF ChangeCatalog, Write, EndUnchanged, CreateService, UpdateService,
                  DeactivateService, ReactivateService, DeleteService,
                  AssignResourceToService, UnassignResourceFromService,
                  UpdateOrganizationPricing, CreateResource, DeleteResource,
                  SetResourceActive, RevokeBookingShareLink, CreateBookingShareLink
    <3>3. AttemptsStay
      BY <3>2, UnchangedStays, OutdatedStays, OutdatedByOrganizationStays DEF CatalogInv
    <3> QED
      BY <1>2, <3>1, <3>3 DEF Visible
  <2> QED
    BY <1>5, <2>1, <2>2, <2>3 DEF OrganizationStep
<1>6. ASSUME NEW v \in Reviewers, ReviewStep(v) PROVE VisitorsHold'
  <2>1. CASE PublishOrganization(v)
    BY <1>3, <2>1 DEF PublishOrganization
  <2>2. CASE ~PublishOrganization(v)
    BY <1>4, <1>6, <2>2 DEF ReviewStep, LockRequest, ReadReadiness, RefusePublication,
                            RejectPublicationRequest
  <2> QED
    BY <2>1, <2>2
<1>7. ASSUME PlatformStep PROVE VisitorsHold'
  BY <1>3, <1>7 DEF PlatformStep, UnpublishOrganization, SuspendOrganization,
                    UnsuspendOrganization, PlatformChange
<1>8. ASSUME NEW b \in Bookers, VisitorStep(b) PROVE VisitorsHold'
  <2>1. UNCHANGED <<published, archived, suspended, paused>>
    BY <1>8 DEF VisitorStep, VisitorDecides, VisitorBooks, VisitorStartsOver, lifecycleVars
  <2>2. ASSUME NEW p \in Pairs, NEW l \in Links \cup {None}, VisitorDecides(b, p, l)
        PROVE  VisitorsHold'
    BY <2>1, <2>2 DEF VisitorDecides, VisitorsHold, Visible
  <2>3. CASE VisitorBooks(b) \/ VisitorStartsOver(b)
    <3>1. attempt' = [attempt EXCEPT ![b] = NoAttempt] /\ NoAttempt.pair = None
      BY <2>3 DEF VisitorBooks, VisitorStartsOver, InsertBooking, StartOver, NoAttempt
    <3> QED
      BY <1>1, <2>1, <3>1 DEF VisitorsHold, Visible
  <2> QED
    BY <1>8, <2>2, <2>3 DEF VisitorStep
<1>9. ASSUME UNCHANGED vars PROVE VisitorsHold'
  BY <1>4, <1>9 DEF vars, catalogVars, lifecycleVars
<1> QED
  BY <1>5, <1>6, <1>7, <1>8, <1>9 DEF Next

-----------------------------------------------------------------------------
(* Requests and reviews.                                                   *)

\* While a review holds the organization nothing it read changes.
LEMMA HeldStaysReady ==
    ASSUME IInv, [Next]_vars, NEW v \in Reviewers, review[v].locked,
           review'[v].locked, review'[v].ready = review[v].ready
    PROVE  locker' = None /\ Ready' = Ready
<1> USE DEF IInv
<1>1. locker = None /\ ~OrganizationFree
  BY DEF ReviewsHold, OrganizationFree
<1>2. \A w \in Writers : ~Writing(w)
  BY <1>1, NoneAssumption DEF CatalogInv, ReadsHold, Writing
<1>3. ASSUME NEW w \in Writers, OrganizationStep(w) PROVE FALSE
  <2>1. ~LockForChange(w)
    BY <1>1 DEF LockForChange
  <2>2. Write(w) => Writing(w)
    BY DEF Write, EndUnchanged, CreateService, UpdateService, DeactivateService,
       ReactivateService, DeleteService, AssignResourceToService,
       UnassignResourceFromService, UpdateOrganizationPricing, CreateResource,
       DeleteResource, SetResourceActive, RevokeBookingShareLink, CreateBookingShareLink
  <2>3. OwnChange(w) => Writing(w)
    BY DEF OwnChange
  <2>4. Writing(w)
    BY <1>3, <2>1, <2>2, <2>3 DEF OrganizationStep, ChangeCatalog, EndUnchanged,
       ReplaceOrganizationWeeklyHours, UpdateOrganizationAvailabilitySettings,
       ArchiveOrganization, RestoreOrganization, CreatePublicationRequest
  <2> QED
    BY <1>2, <2>4
<1>4. UNCHANGED <<service, resource, assigned, pricing, locker, archived, suspended, hours>>
  <2>1. ~PlatformStep
    BY <1>1 DEF PlatformStep, UnpublishOrganization, SuspendOrganization,
       UnsuspendOrganization, PlatformChange
  <2>2. CASE \E u \in Reviewers : ReviewStep(u)
    BY <2>2 DEF ReviewStep, LockRequest, ReadReadiness, RefusePublication,
       PublishOrganization, RejectPublicationRequest, CatalogUnchanged
  <2>3. CASE \E b \in Bookers : VisitorStep(b)
    BY <2>3 DEF VisitorStep, VisitorDecides, VisitorBooks, VisitorStartsOver,
       DecideOnSnapshot, InsertBooking, StartOver, lifecycleVars
  <2>4. CASE UNCHANGED vars
    BY <2>4 DEF vars, catalogVars, lifecycleVars
  <2> QED
    BY <1>3, <2>1, <2>2, <2>3, <2>4 DEF Next
<1> QED
  BY <1>1, <1>4 DEF Ready, ActiveResources

\* Steps that are neither a request nor a review leave requests and reviews alone.
Unreviewed == UNCHANGED <<request, review>>

\* A step that is neither a reviewer's nor a new request leaves the requests and their
\* reviews alone, and hides the organization if it touches the publication at all.
LEMMA OtherSteps ==
    ASSUME [Next]_vars,
           \A v \in Reviewers : ~ReviewStep(v),
           \A w \in Writers, q \in Requests : ~CreatePublicationRequest(w, q)
    PROVE  Unreviewed /\ (published' = published \/ UnpublishOrganization)
<1> USE DEF Unreviewed
<1>1. ASSUME NEW w \in Writers, OrganizationStep(w) PROVE Unreviewed /\ published' = published
  BY <1>1 DEF OrganizationStep, LockForChange, ChangeCatalog, lifecycleVars, OwnChange,
     ReplaceOrganizationWeeklyHours, UpdateOrganizationAvailabilitySettings,
     ArchiveOrganization, RestoreOrganization
<1>2. ASSUME PlatformStep
      PROVE  Unreviewed /\ (published' = published \/ UnpublishOrganization)
  BY <1>2 DEF PlatformStep, UnpublishOrganization, SuspendOrganization,
     UnsuspendOrganization, PlatformChange
<1>3. ASSUME NEW b \in Bookers, VisitorStep(b) PROVE Unreviewed /\ published' = published
  BY <1>3 DEF VisitorStep, VisitorDecides, VisitorBooks, VisitorStartsOver, lifecycleVars
<1>4. ASSUME UNCHANGED vars PROVE Unreviewed /\ published' = published
  BY <1>4 DEF vars, lifecycleVars
<1> QED
  BY <1>1, <1>2, <1>3, <1>4 DEF Next

\* A new request is the only one that waits.
LEMMA CreateKeepsRequests ==
    ASSUME IInv, NEW w \in Writers, NEW q \in Requests, CreatePublicationRequest(w, q)
    PROVE  /\ RequestsTyped' /\ OnePendingRequest' /\ Pending' = {q}
           /\ request' = Put(request, q, "pending") /\ q \notin DOMAIN request
           /\ Pending = {} /\ review' = review /\ published' = published
<1> USE DEF IInv
<1>1. /\ request' = Put(request, q, "pending") /\ q \notin DOMAIN request
      /\ Pending = {} /\ ~published /\ review' = review /\ published' = published
  BY DEF CreatePublicationRequest, OwnChange
<1>2. /\ DOMAIN request' = DOMAIN request \cup {q}
      /\ request'[q] = "pending"
      /\ \A p \in DOMAIN request : request'[p] = request[p]
      /\ request' \in [DOMAIN request' -> {"pending", "approved", "rejected"}]
  BY <1>1 DEF Put, RequestsTyped
<1>3. Pending' = {q}
  BY <1>1, <1>2 DEF Pending
<1>4. RequestsTyped'
  BY <1>2 DEF RequestsTyped
<1>5. OnePendingRequest'
  BY <1>1, <1>3 DEF OnePendingRequest
<1> QED
  BY <1>1, <1>3, <1>4, <1>5

\* A decision is about the request that waits.
LEMMA DecisionKeepsRequests ==
    ASSUME IInv, NEW v \in Reviewers, PublishOrganization(v) \/ RejectPublicationRequest(v)
    PROVE  /\ RequestsTyped' /\ OnePendingRequest' /\ Pending' = {}
           /\ review[v].request \in Requests /\ Pending = {review[v].request}
           /\ DOMAIN request' = DOMAIN request
           /\ request' = [request EXCEPT ![review[v].request] =
                             IF PublishOrganization(v) THEN "approved" ELSE "rejected"]
<1> USE DEF IInv
<1> DEFINE q == review[v].request
<1>1. q # None
  BY DEF PublishOrganization, RejectPublicationRequest, ReviewsHold
<1>2. q \in Pending
  BY <1>1 DEF ReviewsHold
<1>3. Pending = {q}
  BY <1>2 DEF OnePendingRequest
<1>4. q \in Requests /\ q \in DOMAIN request
  BY <1>2 DEF Pending, RequestsTyped
<1>5. request' = [request EXCEPT ![q] =
                     IF PublishOrganization(v) THEN "approved" ELSE "rejected"]
  <2>1. PublishOrganization(v) => review[v].locked
    BY DEF PublishOrganization
  <2>2. RejectPublicationRequest(v) => ~review[v].locked
    BY DEF RejectPublicationRequest
  <2>3. CASE PublishOrganization(v)
    BY <2>3 DEF PublishOrganization
  <2>4. CASE ~PublishOrganization(v)
    BY <2>4 DEF RejectPublicationRequest
  <2> QED
    BY <2>3, <2>4
<1> DEFINE to == IF PublishOrganization(v) THEN "approved" ELSE "rejected"
<1>6. to \in {"approved", "rejected"}
  OBVIOUS
<1> HIDE DEF q, to
<1>7. /\ DOMAIN request' = DOMAIN request
      /\ \A p \in DOMAIN request : request'[p] = IF p = q THEN to ELSE request[p]
  BY <1>4, <1>5 DEF RequestsTyped, to
<1>8. RequestsTyped'
  <2>1. request' = [p \in DOMAIN request |-> request'[p]]
    BY <1>5 DEF RequestsTyped
  <2> QED
    BY <1>6, <1>7, <2>1 DEF RequestsTyped
<1>9. Pending' = {}
  BY <1>3, <1>6, <1>7 DEF Pending
<1>10. OnePendingRequest'
  BY <1>9 DEF OnePendingRequest
<1> QED
  BY <1>3, <1>4, <1>5, <1>7, <1>8, <1>9, <1>10 DEF q

\* Requests stay typed, and at most one waits.
LEMMA StepKeepsRequests ==
    ASSUME IInv, [Next]_vars
    PROVE  RequestsTyped' /\ OnePendingRequest'
<1> USE DEF IInv
<1>1. ASSUME request' = request, published' => published PROVE RequestsTyped' /\ OnePendingRequest'
  BY <1>1 DEF RequestsTyped, OnePendingRequest, Pending
<1>2. ASSUME NEW v \in Reviewers, ReviewStep(v) PROVE RequestsTyped' /\ OnePendingRequest'
  <2>1. CASE PublishOrganization(v) \/ RejectPublicationRequest(v)
    BY <2>1, DecisionKeepsRequests
  <2>2. CASE ~(PublishOrganization(v) \/ RejectPublicationRequest(v))
    BY <1>1, <1>2, <2>2 DEF ReviewStep, LockRequest, ReadReadiness, RefusePublication
  <2> QED
    BY <2>1, <2>2
<1>3. ASSUME NEW w \in Writers, NEW q \in Requests, CreatePublicationRequest(w, q)
      PROVE  RequestsTyped' /\ OnePendingRequest'
  BY <1>3, CreateKeepsRequests
<1>4. ASSUME Unreviewed, published' = published \/ UnpublishOrganization
      PROVE  RequestsTyped' /\ OnePendingRequest'
  BY <1>1, <1>4 DEF Unreviewed, UnpublishOrganization
<1> QED
  BY <1>2, <1>3, <1>4, OtherSteps

\* Reviews hold what they hold alone, and what they read stays true.
LEMMA StepKeepsReviews ==
    ASSUME IInv, [Next]_vars
    PROVE  ReviewsHold'
<1> USE DEF IInv
<1>1. review \in [Reviewers -> Review]
  BY DEF ReviewsHold
<1>2. \A v \in Reviewers : review[v].locked /\ review'[v].locked
                           /\ review'[v].ready = review[v].ready
         => locker' = None /\ Ready' = Ready
  BY HeldStaysReady
<1>3. ASSUME review' = review, Pending \subseteq Pending' PROVE ReviewsHold'
  BY <1>2, <1>3 DEF ReviewsHold
<1>4. Idle \in Review /\ Idle.request = None /\ ~Idle.locked
  BY DEF Idle, Review
<1>5. ASSUME NEW v \in Reviewers, ReviewStep(v) PROVE ReviewsHold'
  <2>1. ASSUME NEW q \in Requests, LockRequest(v, q) PROVE ReviewsHold'
    <3>1. /\ review' = [review EXCEPT ![v].request = q]
          /\ q \in Pending /\ request' = request /\ ~review[v].locked
          /\ \A u \in Reviewers : review[u].request # q
      BY <1>4, <2>1 DEF LockRequest, RequestFree
    <3>2. /\ review' \in [Reviewers -> Review]
          /\ review'[v].request = q /\ ~review'[v].locked
          /\ \A u \in Reviewers : u # v => review'[u] = review[u]
      BY <1>1, <3>1 DEF Review
    <3>3. Pending' = Pending
      BY <3>1 DEF Pending
    <3> QED
      BY <1>2, <3>1, <3>2, <3>3 DEF ReviewsHold
  <2>2. CASE ReadReadiness(v)
    <3>1. /\ review' = [review EXCEPT ![v].locked = TRUE, ![v].ready = Ready]
          /\ review[v].request # None /\ request' = request
          /\ locker = None /\ \A u \in Reviewers : ~review[u].locked
          /\ CatalogUnchanged /\ UNCHANGED <<archived, suspended, hours>>
      BY <2>2 DEF ReadReadiness, OrganizationLockable, OrganizationFree, Lockable
    <3>2. Ready \in BOOLEAN
      BY DEF Ready, Columns
    <3>3. /\ review' \in [Reviewers -> Review]
          /\ review'[v].request = review[v].request
          /\ review'[v].ready = Ready
          /\ \A u \in Reviewers : u # v => review'[u] = review[u]
      BY <1>1, <3>1, <3>2 DEF Review
    <3>4. Pending' = Pending /\ locker' = None
      BY <3>1 DEF Pending, CatalogUnchanged
    <3>5. Ready' = Ready
      BY <3>1 DEF Ready, ActiveResources, CatalogUnchanged
    <3> QED
      BY <3>1, <3>3, <3>4, <3>5 DEF ReviewsHold
  <2>3. ASSUME review' = [review EXCEPT ![v] = Idle],
               \A p \in Pending : p # review[v].request => p \in Pending'
        PROVE  ReviewsHold'
    <3>1. /\ review' \in [Reviewers -> Review]
          /\ review'[v].request = None /\ ~review'[v].locked
          /\ \A u \in Reviewers : u # v => review'[u] = review[u]
      BY <1>1, <1>4, <2>3
    <3>2. \A u \in Reviewers : u # v /\ review[u].request # None => review[u].request \in Pending'
      BY <2>3 DEF ReviewsHold
    <3> QED
      BY <1>2, <3>1, <3>2 DEF ReviewsHold
  <2>4. CASE RefusePublication(v)
    BY <2>3, <2>4 DEF RefusePublication, Pending
  <2>5. CASE PublishOrganization(v) \/ RejectPublicationRequest(v)
    <3>1. Pending = {review[v].request}
      BY <2>5, DecisionKeepsRequests
    <3> QED
      BY <2>3, <2>5, <3>1 DEF PublishOrganization, RejectPublicationRequest
  <2> QED
    BY <1>5, <2>1, <2>2, <2>4, <2>5 DEF ReviewStep
<1>6. ASSUME NEW w \in Writers, NEW q \in Requests, CreatePublicationRequest(w, q)
      PROVE  ReviewsHold'
  BY <1>3, <1>6, CreateKeepsRequests
<1>7. ASSUME Unreviewed PROVE ReviewsHold'
  BY <1>3, <1>7 DEF Unreviewed, Pending
<1> QED
  BY <1>5, <1>6, <1>7, OtherSteps

-----------------------------------------------------------------------------
(* The outbox.                                                             *)

\* The last of some places of the outbox.
LastIn(S) == CHOOSE i \in S : \A j \in S : j <= i

\* A nonempty set of positions in a log has a last one.
LEMMA LastInIs ==
    ASSUME NEW N \in Nat, NEW S \in SUBSET (1 .. N), S # {}
    PROVE  LastIn(S) \in S /\ \A j \in S : j <= LastIn(S)
<1>1. S \in SUBSET (0 .. N)
  OBVIOUS
<1>2. \E i \in S : \A j \in S : j <= i
  BY <1>1, GreatestExists
<1> QED
  BY <1>2 DEF LastIn

\* An event that is recorded comes after all the others.
Next1 == Len(events) + 1
\* Recording an event appends it and leaves those before it as they are.
LEMMA OutboxGrows ==
    ASSUME events \in Seq(Event), NEW type, NEW q, Emit(type, q)
    PROVE  /\ Len(events) \in Nat
           /\ DOMAIN events = 1 .. Len(events)
           /\ DOMAIN events' = DOMAIN events \cup {Next1}
           /\ Next1 \notin DOMAIN events
           /\ \A i \in DOMAIN events : i < Next1 /\ events'[i] = events[i]
           /\ events'[Next1].type = type /\ events'[Next1].request = q
<1> DEFINE e == [type |-> type, request |-> q]
<1>1. events' = Append(events, e)
  BY DEF Emit
<1>2. e.type = type /\ e.request = q
  OBVIOUS
<1> HIDE DEF e
<1> QED
  BY <1>1, <1>2 DEF Next1

\* What was told last, and about which request, after an event is recorded.
LEMMA ToldAfter ==
    ASSUME events \in Seq(Event), NEW type, NEW q, Emit(type, q), NEW types, NEW dflt
    PROVE  Told(types, dflt)' = IF type \in types THEN type ELSE Told(types, dflt)
<1> DEFINE told == {i \in DOMAIN events : events[i].type \in types}
           told1 == {i \in DOMAIN events' : events'[i].type \in types}
<1>1. /\ Told(types, dflt) = IF told = {} THEN dflt ELSE events[LastIn(told)].type
      /\ Told(types, dflt)' = IF told1 = {} THEN dflt ELSE events'[LastIn(told1)].type
  BY DEF Told, LastIn
<1>2. told \in SUBSET (1 .. Len(events)) /\ Len(events) \in Nat
  BY OutboxGrows
<1>3. told # {} => LastIn(told) \in told
  <2> HIDE DEF told
  <2> QED
    BY <1>2, LastInIs
<1>4. CASE type \in types
  <2>1. told1 \in SUBSET (1 .. (Len(events) + 1)) /\ Next1 \in told1 /\ Len(events) + 1 \in Nat
    BY <1>4, OutboxGrows DEF Next1
  <2>2. LastIn(told1) \in told1 /\ Next1 <= LastIn(told1)
    <3> HIDE DEF told1
    <3> QED
      BY <2>1, LastInIs
  <2>3. LastIn(told1) = Next1
    BY <2>1, <2>2 DEF Next1
  <2> HIDE DEF told1
  <2> QED
    BY <1>1, <1>4, <2>1, <2>3, OutboxGrows
<1>5. CASE type \notin types
  <2>1. told1 = told
    BY <1>5, OutboxGrows
  <2>2. told # {} => events'[LastIn(told)] = events[LastIn(told)]
    BY <1>3, OutboxGrows
  <2> HIDE DEF told, told1
  <2> QED
    BY <1>1, <1>5, <2>1, <2>2
<1> QED
  BY <1>4, <1>5

\* After recording an event, the last event of its type is this one, and the last of any
\* other type is what it was.
LEMMA LastAfter ==
    ASSUME events \in Seq(Event), NEW type, NEW q, Emit(type, q), NEW t
    PROVE  LastOf(t)' = IF type = t THEN q ELSE LastOf(t)
<1> DEFINE told == {i \in DOMAIN events : events[i].type = t}
           told1 == {i \in DOMAIN events' : events'[i].type = t}
<1>1. /\ LastOf(t) = IF told = {} THEN None ELSE events[LastIn(told)].request
      /\ LastOf(t)' = IF told1 = {} THEN None ELSE events'[LastIn(told1)].request
  BY DEF LastOf, LastIn
<1>2. told \in SUBSET (1 .. Len(events)) /\ Len(events) \in Nat
  BY OutboxGrows
<1>3. told # {} => LastIn(told) \in told
  <2> HIDE DEF told
  <2> QED
    BY <1>2, LastInIs
<1>4. CASE type = t
  <2>1. told1 \in SUBSET (1 .. (Len(events) + 1)) /\ Next1 \in told1 /\ Len(events) + 1 \in Nat
    BY <1>4, OutboxGrows DEF Next1
  <2>2. LastIn(told1) \in told1 /\ Next1 <= LastIn(told1)
    <3> HIDE DEF told1
    <3> QED
      BY <2>1, LastInIs
  <2>3. LastIn(told1) = Next1
    BY <2>1, <2>2 DEF Next1
  <2> HIDE DEF told1
  <2> QED
    BY <1>1, <1>4, <2>1, <2>3, OutboxGrows
<1>5. CASE type # t
  <2>1. told1 = told
    BY <1>5, OutboxGrows
  <2>2. told # {} => events'[LastIn(told)] = events[LastIn(told)]
    BY <1>3, OutboxGrows
  <2> HIDE DEF told, told1
  <2> QED
    BY <1>1, <1>5, <2>1, <2>2
<1> QED
  BY <1>4, <1>5

\* The events about a request.
LEMMA AboutAfter ==
    ASSUME events \in Seq(Event), NEW type, NEW q, Emit(type, q), NEW p
    PROVE  About(p)' = IF p = q THEN About(p) \cup {Next1} ELSE About(p)
  BY OutboxGrows DEF About

\* A request whose status and whose events stay has its story told as before.
LEMMA StoryStays ==
    ASSUME events \in Seq(Event), NEW type, NEW q, Emit(type, q),
           NEW p, p # q, request'[p] = request[p], RequestTold(p)
    PROVE  RequestTold(p)'
<1>1. About(p)' = About(p)
  BY AboutAfter
<1>2. \A i \in About(p) : events'[i] = events[i]
  BY OutboxGrows DEF About
<1>3. Decision(p)' = Decision(p)
  BY DEF Decision
<1> QED
  BY <1>1, <1>2, <1>3 DEF RequestTold

\* Suspensions alternate, as the next one follows from the column.
LEMMA SuspensionsAfter ==
    ASSUME events \in Seq(Event), NEW type, NEW q, Emit(type, q),
           SuspensionsAlternate,
           suspended <=> Told({"suspended", "unsuspended"}, "unsuspended") = "suspended",
           type = "suspended" => ~suspended,
           type = "unsuspended" => suspended
    PROVE  SuspensionsAlternate'
<1> DEFINE S == Suspensions
           Follows(i) ==
              events[i].type = "unsuspended" <=>
                 \E j \in S : /\ j < i /\ events[j].type = "suspended"
                              /\ \A k \in S : ~(j < k /\ k < i)
           types == {"suspended", "unsuspended"}
<1>1. /\ S \in SUBSET (1 .. Len(events)) /\ Len(events) \in Nat
      /\ \A i \in S : i \in DOMAIN events /\ events[i].type \in types
  BY OutboxGrows DEF Suspensions
<1>2. Suspensions' = IF type \in types THEN S \cup {Next1} ELSE S
  BY OutboxGrows DEF Suspensions
<1>3. \A i \in S : Follows(i)
  BY DEF SuspensionsAlternate
<1>4. \A i \in S : i < Next1 /\ i \in Int /\ events'[i] = events[i]
  BY <1>1, OutboxGrows
<1>5. Next1 \in Int /\ events'[Next1].type = type
  BY <1>1, OutboxGrows DEF Next1
<1>6. Told(types, "unsuspended") = IF S = {} THEN "unsuspended" ELSE events[LastIn(S)].type
  BY DEF Told, LastIn, Suspensions
<1>7. S # {} => LastIn(S) \in S /\ \A j \in S : j <= LastIn(S)
  <2> HIDE DEF S
  <2> QED
    BY <1>1, LastInIs
<1> HIDE DEF S
<1>8. ASSUME NEW i \in S
      PROVE  events'[i].type = "unsuspended" <=>
                \E j \in Suspensions' : /\ j < i /\ events'[j].type = "suspended"
                                        /\ \A k \in Suspensions' : ~(j < k /\ k < i)
  <2>1. \A j \in Suspensions' : j < i => j \in S
    BY <1>2, <1>4, <1>5
  <2>2. \A k \in Suspensions' : k \in S \/ ~(k < i)
    BY <2>1
  <2>3. S \subseteq Suspensions'
    BY <1>2
  <2>4. Follows(i)
    BY <1>3
  <2> QED
    BY <1>4, <2>1, <2>2, <2>3, <2>4
<1>9. ASSUME type \in types
      PROVE  events'[Next1].type = "unsuspended" <=>
                \E j \in Suspensions' : /\ j < Next1 /\ events'[j].type = "suspended"
                                        /\ \A k \in Suspensions' : ~(j < k /\ k < Next1)
  <2>1. Suspensions' = S \cup {Next1} /\ ~(Next1 < Next1)
    BY <1>2, <1>5, <1>9
  <2>2. CASE type = "suspended"
    <3>1. S = {} \/ events[LastIn(S)].type # "suspended"
      BY <1>6, <2>2
    <3>2. ASSUME NEW j \in Suspensions', j < Next1, events'[j].type = "suspended",
                 \A k \in Suspensions' : ~(j < k /\ k < Next1)
          PROVE  FALSE
      <4>1. j \in S
        BY <2>1, <3>2
      <4>2. LastIn(S) \in S /\ j <= LastIn(S)
        BY <1>7, <4>1
      <4>3. ~(j < LastIn(S))
        BY <1>4, <2>1, <3>2, <4>2
      <4>4. j = LastIn(S)
        BY <1>4, <4>1, <4>2, <4>3
      <4> QED
        BY <1>4, <3>1, <3>2, <4>1, <4>4
    <3> QED
      BY <1>5, <2>2, <3>2
  <2>3. CASE type = "unsuspended"
    <3>1. S # {} /\ events[LastIn(S)].type = "suspended"
      BY <1>6, <2>3
    <3>2. LastIn(S) \in S /\ \A k \in S : ~(LastIn(S) < k)
      BY <1>4, <1>7, <3>1
    <3>3. /\ LastIn(S) \in Suspensions' /\ LastIn(S) < Next1
          /\ events'[LastIn(S)].type = "suspended"
          /\ \A k \in Suspensions' : ~(LastIn(S) < k /\ k < Next1)
      BY <1>4, <2>1, <3>1, <3>2
    <3> QED
      BY <1>5, <2>3, <3>3
  <2> QED
    BY <1>9, <2>2, <2>3
<1> QED
  BY <1>2, <1>8, <1>9 DEF SuspensionsAlternate

\* A step that records nothing and leaves the columns and the requests alone.
LEMMA NothingTold ==
    ASSUME Stories, UNCHANGED <<events, request, published, suspended>>
    PROVE  Stories'
<1>1. /\ Pending' = Pending /\ Suspensions' = Suspensions
      /\ \A p : About(p)' = About(p) /\ Decision(p)' = Decision(p)
      /\ \A t : LastOf(t)' = LastOf(t)
      /\ \A types, dflt : Told(types, dflt)' = Told(types, dflt)
  BY DEF Pending, Suspensions, About, Decision, LastOf, Told
<1>2. OwnerSeesStage'
  BY <1>1 DEF Stories, OwnerSeesStage, LatestRequest, UnpublicationAddressee
<1>3. EventsReplayPublication'
  BY <1>1 DEF Stories, EventsReplayPublication, RequestTold
<1>4. SuspensionsAlternate'
  BY <1>1 DEF Stories, SuspensionsAlternate
<1> QED
  BY <1>2, <1>3, <1>4 DEF Stories

\* The owner who asked sees the request that waits, and its event is its story.
LEMMA CreateTold ==
    ASSUME IInv, NEW w \in Writers, NEW q \in Requests, CreatePublicationRequest(w, q)
    PROVE  events' \in Seq(Event) /\ Stories'
<1> USE DEF IInv
<1>1. Emit("requested", q) /\ suspended' = suspended /\ ~published
  BY DEF CreatePublicationRequest, OwnChange
<1>2. /\ Pending' = {q} /\ request' = Put(request, q, "pending")
      /\ q \notin DOMAIN request /\ published' = published
  BY CreateKeepsRequests
<1>3. /\ DOMAIN request' = DOMAIN request \cup {q} /\ request'[q] = "pending"
      /\ \A p \in DOMAIN request : request'[p] = request[p]
  BY <1>2 DEF Put
<1>4. events' \in Seq(Event)
  <2>1. [type |-> "requested", request |-> q] \in Event
    BY DEF Event
  <2> QED
    BY <1>1, <2>1 DEF Emit
<1>5. LatestRequest' = q
  BY <1>1, LastAfter DEF LatestRequest
<1>6. OwnerSeesStage'
  BY <1>1, <1>2, <1>5 DEF OwnerSeesStage
<1>7. Told({"published", "unpublished"}, "unpublished")'
        = Told({"published", "unpublished"}, "unpublished")
  BY <1>1, ToldAfter
<1>8. Told({"suspended", "unsuspended"}, "unsuspended")'
        = Told({"suspended", "unsuspended"}, "unsuspended")
  BY <1>1, ToldAfter
<1>9. \A p \in Requests : IF p \in DOMAIN request' THEN RequestTold(p)' ELSE About(p)' = {}
  <2>1. TAKE p \in Requests
  <2>2. CASE p = q
    <3>1. About(q) = {}
      BY <1>2 DEF Stories, EventsReplayPublication
    <3>2. About(q)' = {Next1}
      BY <1>1, <3>1, AboutAfter
    <3>3. events'[Next1].type = "requested"
      BY <1>1, OutboxGrows
    <3> QED
      BY <1>3, <2>2, <3>2, <3>3 DEF RequestTold
  <2>3. CASE p # q /\ p \in DOMAIN request
    <3>1. RequestTold(p) /\ request'[p] = request[p]
      BY <1>3, <2>3 DEF Stories, EventsReplayPublication
    <3>2. RequestTold(p)'
      BY <1>1, <2>3, <3>1, StoryStays
    <3> QED
      BY <1>3, <2>3, <3>2
  <2>4. CASE p # q /\ p \notin DOMAIN request
    <3>1. About(p) = {}
      BY <2>4 DEF Stories, EventsReplayPublication
    <3>2. About(p)' = {}
      BY <1>1, <2>4, <3>1, AboutAfter
    <3> QED
      BY <1>3, <2>4, <3>2
  <2> QED
    BY <2>2, <2>3, <2>4
<1>10. EventsReplayPublication'
  BY <1>1, <1>2, <1>7, <1>8, <1>9 DEF Stories, EventsReplayPublication
<1>11. SuspensionsAlternate'
  BY <1>1, SuspensionsAfter DEF Stories, EventsReplayPublication
<1> QED
  BY <1>4, <1>6, <1>10, <1>11 DEF Stories

\* A decision is the second and last event about its request.
LEMMA DecisionTold ==
    ASSUME IInv, NEW v \in Reviewers, PublishOrganization(v) \/ RejectPublicationRequest(v)
    PROVE  events' \in Seq(Event) /\ Stories'
<1> USE DEF IInv
<1>1. PICK q \in Requests : /\ q = review[v].request /\ Pending = {q} /\ Pending' = {}
                            /\ DOMAIN request' = DOMAIN request
                            /\ request' = [request EXCEPT ![q] =
                                  IF PublishOrganization(v) THEN "approved" ELSE "rejected"]
  BY DecisionKeepsRequests
<1>2. /\ q \in DOMAIN request /\ request[q] = "pending"
      /\ request'[q] = IF PublishOrganization(v) THEN "approved" ELSE "rejected"
      /\ \A p \in DOMAIN request : p # q => request'[p] = request[p]
  <2>1. q \in DOMAIN request /\ request[q] = "pending"
    BY <1>1 DEF Pending
  <2> QED
    BY <1>1, <2>1 DEF RequestsTyped
<1>3. PICK type \in {"published", "rejected"} :
        /\ Emit(type, q) /\ suspended' = suspended
        /\ (type = "published") <=> PublishOrganization(v)
        /\ PublishOrganization(v) => published'
        /\ ~PublishOrganization(v) => published' = published
  <2>1. CASE PublishOrganization(v)
    <3>1. Emit("published", review[v].request) /\ suspended' = suspended /\ published'
      BY <2>1 DEF PublishOrganization
    <3> QED
      BY <1>1, <2>1, <3>1
  <2>2. CASE ~PublishOrganization(v)
    <3>1. /\ Emit("rejected", review[v].request) /\ suspended' = suspended
          /\ published' = published
      BY <2>2 DEF RejectPublicationRequest
    <3> QED
      BY <1>1, <2>2, <3>1
  <2> QED
    BY <2>1, <2>2
<1>4. type \in {"published", "rejected"}
  OBVIOUS
<1>5. ~published
  BY <1>1 DEF OnePendingRequest
<1>6. q # None
  OBVIOUS
<1>7. (type = "published") <=> PublishOrganization(v)
  BY <1>3
<1>8. events' \in Seq(Event)
  <2>1. [type |-> type, request |-> q] \in Event
    BY <1>1, <1>4 DEF Event
  <2> QED
    BY <1>3, <2>1 DEF Emit
<1>9. LatestRequest' = LatestRequest /\ LatestRequest = q
  <2>1. LatestRequest = q
    BY <1>1 DEF Stories, OwnerSeesStage
  <2>2. LatestRequest' = LatestRequest
    BY <1>3, <1>4, LastAfter DEF LatestRequest
  <2> QED
    BY <2>1, <2>2
<1>10. PublishOrganization(v) => UnpublicationAddressee' = q
  BY <1>3, <1>7, LastAfter DEF UnpublicationAddressee
<1>11. OwnerSeesStage'
  BY <1>1, <1>2, <1>3, <1>5, <1>6, <1>9, <1>10 DEF OwnerSeesStage
<1>12. Told({"suspended", "unsuspended"}, "unsuspended")'
        = Told({"suspended", "unsuspended"}, "unsuspended")
  BY <1>3, <1>4, ToldAfter
<1>13. published' <=> Told({"published", "unpublished"}, "unpublished")' = "published"
  <2>1. CASE PublishOrganization(v)
    <3>1. Told({"published", "unpublished"}, "unpublished")' = "published"
      BY <1>3, <1>7, <2>1, ToldAfter
    <3> QED
      BY <1>3, <2>1, <3>1
  <2>2. CASE ~PublishOrganization(v)
    <3>1. type \notin {"published", "unpublished"}
      BY <1>4, <1>7, <2>2
    <3>2. Told({"published", "unpublished"}, "unpublished")'
            = Told({"published", "unpublished"}, "unpublished")
      BY <1>3, <3>1, ToldAfter
    <3> QED
      BY <1>3, <2>2, <3>2 DEF Stories, EventsReplayPublication
  <2> QED
    BY <2>1, <2>2
<1>14. RequestTold(q)'
  <2>1. RequestTold(q)
    BY <1>1, <1>2 DEF Stories, EventsReplayPublication
  <2>2. PICK i \in About(q) : events[i].type = "requested" /\ About(q) = {i}
    BY <1>2, <2>1 DEF RequestTold
  <2>3. About(q)' = {i, Next1}
    BY <1>3, <2>2, AboutAfter
  <2>4. /\ i < Next1 /\ events'[i].type = "requested" /\ events'[Next1].type = type
    BY <1>3, <2>2, OutboxGrows DEF About
  <2>5. Decision(q)' = type /\ request'[q] # "pending"
    BY <1>2, <1>4, <1>7 DEF Decision
  <2> QED
    BY <2>3, <2>4, <2>5 DEF RequestTold
<1>15. \A p \in Requests : IF p \in DOMAIN request' THEN RequestTold(p)' ELSE About(p)' = {}
  <2>1. TAKE p \in Requests
  <2>2. CASE p = q
    BY <1>1, <1>2, <1>14, <2>2
  <2>3. CASE p # q /\ p \in DOMAIN request
    <3>1. RequestTold(p) /\ request'[p] = request[p]
      BY <1>2, <2>3 DEF Stories, EventsReplayPublication
    <3>2. RequestTold(p)'
      BY <1>3, <2>3, <3>1, StoryStays
    <3> QED
      BY <1>1, <2>3, <3>2
  <2>4. CASE p # q /\ p \notin DOMAIN request
    <3>1. About(p) = {}
      BY <2>4 DEF Stories, EventsReplayPublication
    <3>2. About(p)' = {}
      BY <1>3, <2>4, <3>1, AboutAfter
    <3> QED
      BY <1>1, <2>4, <3>2
  <2> QED
    BY <2>2, <2>3, <2>4
<1>16. EventsReplayPublication'
  BY <1>3, <1>12, <1>13, <1>15 DEF Stories, EventsReplayPublication
<1>17. SuspensionsAlternate'
  BY <1>3, <1>4, SuspensionsAfter DEF Stories, EventsReplayPublication
<1> QED
  BY <1>8, <1>11, <1>16, <1>17 DEF Stories

\* The platform's events tell the columns, and are about no request.
LEMMA PlatformTold ==
    ASSUME IInv, PlatformStep
    PROVE  events' \in Seq(Event) /\ Stories'
<1> USE DEF IInv
<1>1. PICK type \in {"unpublished", "suspended", "unsuspended"} :
        /\ Emit(type, None)
        /\ published' = IF type = "unpublished" THEN FALSE ELSE published
        /\ suspended' = IF type = "suspended" THEN TRUE
                        ELSE IF type = "unsuspended" THEN FALSE ELSE suspended
        /\ type = "suspended" => ~suspended
        /\ type = "unsuspended" => suspended
  BY DEF PlatformStep, UnpublishOrganization, SuspendOrganization, UnsuspendOrganization
<1>2. request' = request
  BY DEF PlatformStep, UnpublishOrganization, SuspendOrganization, UnsuspendOrganization,
         PlatformChange
<1>3. events' \in Seq(Event)
  <2>1. [type |-> type, request |-> None] \in Event
    BY DEF Event
  <2> QED
    BY <1>1, <2>1 DEF Emit
<1>4. LatestRequest' = LatestRequest /\ UnpublicationAddressee' = UnpublicationAddressee
  BY <1>1, LastAfter DEF LatestRequest, UnpublicationAddressee
<1>5. Pending' = Pending
  BY <1>2 DEF Pending
<1>6. OwnerSeesStage'
  BY <1>1, <1>2, <1>4, <1>5 DEF Stories, OwnerSeesStage
<1>7. published' <=> Told({"published", "unpublished"}, "unpublished")' = "published"
  <2>1. Told({"published", "unpublished"}, "unpublished")'
          = IF type \in {"published", "unpublished"} THEN type
            ELSE Told({"published", "unpublished"}, "unpublished")
    BY <1>1, ToldAfter
  <2> QED
    BY <1>1, <2>1 DEF Stories, EventsReplayPublication
<1>8. suspended' <=> Told({"suspended", "unsuspended"}, "unsuspended")' = "suspended"
  <2>1. Told({"suspended", "unsuspended"}, "unsuspended")'
          = IF type \in {"suspended", "unsuspended"} THEN type
            ELSE Told({"suspended", "unsuspended"}, "unsuspended")
    BY <1>1, ToldAfter
  <2> QED
    BY <1>1, <2>1 DEF Stories, EventsReplayPublication
<1>9. ASSUME NEW p \in Requests
      PROVE  IF p \in DOMAIN request' THEN RequestTold(p)' ELSE About(p)' = {}
  <2>1. p # None
    OBVIOUS
  <2>2. RequestTold(p) => RequestTold(p)'
    BY <1>1, <1>2, <2>1, StoryStays
  <2>3. About(p)' = About(p)
    BY <1>1, <2>1, AboutAfter
  <2> QED
    BY <1>2, <2>2, <2>3 DEF Stories, EventsReplayPublication
<1>10. EventsReplayPublication'
  BY <1>7, <1>8, <1>9 DEF EventsReplayPublication
<1>11. SuspensionsAlternate'
  BY <1>1, SuspensionsAfter DEF Stories, EventsReplayPublication
<1> QED
  BY <1>3, <1>6, <1>10, <1>11 DEF Stories

\* Every step keeps the stories of the outbox, and the types of its columns.
LEMMA StepKeepsStories ==
    ASSUME IInv, [Next]_vars
    PROVE  Columns' /\ events' \in Seq(Event) /\ Stories'
<1> USE DEF IInv
<1>1. ASSUME UNCHANGED <<events, request, published, suspended>>
      PROVE  events' \in Seq(Event) /\ Stories'
  BY <1>1, NothingTold
<1>2. ASSUME NEW w \in Writers, OrganizationStep(w)
      PROVE  Columns' /\ events' \in Seq(Event) /\ Stories'
  <2>1. Columns'
    BY <1>2 DEF Columns, OrganizationStep, LockForChange, ChangeCatalog, lifecycleVars,
       ReplaceOrganizationWeeklyHours, UpdateOrganizationAvailabilitySettings,
       ArchiveOrganization, RestoreOrganization, CreatePublicationRequest, OwnChange
  <2>2. CASE \E q \in Requests : CreatePublicationRequest(w, q)
    BY <2>1, <2>2, CreateTold
  <2>3. CASE ~\E q \in Requests : CreatePublicationRequest(w, q)
    <3>1. UNCHANGED <<events, request, published, suspended>>
      BY <1>2, <2>3 DEF OrganizationStep, LockForChange, ChangeCatalog, lifecycleVars,
         ReplaceOrganizationWeeklyHours, UpdateOrganizationAvailabilitySettings,
         ArchiveOrganization, RestoreOrganization, OwnChange
    <3> QED
      BY <1>1, <2>1, <3>1
  <2> QED
    BY <2>2, <2>3
<1>3. ASSUME NEW v \in Reviewers, ReviewStep(v)
      PROVE  Columns' /\ events' \in Seq(Event) /\ Stories'
  <2>1. Columns'
    BY <1>3 DEF Columns, ReviewStep, LockRequest, ReadReadiness, RefusePublication,
       PublishOrganization, RejectPublicationRequest
  <2>2. CASE PublishOrganization(v) \/ RejectPublicationRequest(v)
    BY <2>1, <2>2, DecisionTold
  <2>3. CASE ~(PublishOrganization(v) \/ RejectPublicationRequest(v))
    BY <1>1, <1>3, <2>1, <2>3 DEF ReviewStep, LockRequest, ReadReadiness, RefusePublication
  <2> QED
    BY <2>2, <2>3
<1>4. ASSUME PlatformStep PROVE Columns' /\ events' \in Seq(Event) /\ Stories'
  <2>1. Columns'
    BY <1>4 DEF Columns, PlatformStep, UnpublishOrganization, SuspendOrganization,
       UnsuspendOrganization, PlatformChange
  <2> QED
    BY <1>4, <2>1, PlatformTold
<1>5. ASSUME NEW b \in Bookers, VisitorStep(b)
      PROVE  Columns' /\ events' \in Seq(Event) /\ Stories'
  <2>1. UNCHANGED lifecycleVars
    BY <1>5 DEF VisitorStep, VisitorDecides, VisitorBooks, VisitorStartsOver
  <2> QED
    BY <1>1, <2>1 DEF lifecycleVars, Columns
<1>6. ASSUME UNCHANGED vars PROVE Columns' /\ events' \in Seq(Event) /\ Stories'
  BY <1>1, <1>6 DEF vars, lifecycleVars, Columns
<1> QED
  BY <1>2, <1>3, <1>4, <1>5, <1>6 DEF Next

-----------------------------------------------------------------------------
(* Theorems.                                                               *)

\* Before the first step there is no catalogue, no request and no event.
LEMMA InitHolds == Init => IInv
<1> SUFFICES ASSUME Init PROVE IInv
  OBVIOUS
<1>1. CatalogInv
  BY CatalogStarts DEF Init
<1>2. Columns /\ RequestsTyped /\ OnePendingRequest
  BY DEF Init, Columns, RequestsTyped, OnePendingRequest, Pending
<1>3. events = <<>> /\ events \in Seq(Event) /\ DOMAIN events = {}
  BY DEF Init
<1>4. ReviewsHold
  BY DEF Init, ReviewsHold, Idle, Review
<1>5. VisitorsHold
  BY DEF Init, CatalogInit, NoAttempt, VisitorsHold
<1>6. OwnerSeesStage
  BY DEF Init, OwnerSeesStage, Pending
<1>7. EventsReplayPublication
  <2>1. Told({"published", "unpublished"}, "unpublished") = "unpublished"
    BY <1>3 DEF Told
  <2>2. Told({"suspended", "unsuspended"}, "unsuspended") = "unsuspended"
    BY <1>3 DEF Told
  <2>3. \A p : About(p) = {}
    BY <1>3 DEF About
  <2> QED
    BY <2>1, <2>2, <2>3 DEF Init, EventsReplayPublication
<1>8. SuspensionsAlternate
  BY <1>3 DEF SuspensionsAlternate, Suspensions
<1> QED
  BY <1>1, <1>2, <1>3, <1>4, <1>5, <1>6, <1>7, <1>8 DEF IInv, Stories

\* Every reachable state satisfies the inductive invariant.
THEOREM Invariance == Spec => []IInv
<1>1. IInv /\ [Next]_vars => IInv'
  BY StepKeepsCatalog, StepKeepsVisitors, StepKeepsRequests, StepKeepsReviews,
     StepKeepsStories DEF IInv
<1> QED
  BY <1>1, InitHolds, PTL DEF Spec

\* With the lifecycle around it the catalogue stays consistent all the same, and
\* so do its offers.
THEOREM LivingCatalogStaysConsistent ==
    Spec => [](CatalogConsistent /\ OffersConsistent)
<1>1. IInv => CatalogConsistent /\ OffersConsistent
  BY CatalogTyped, OffersFollow DEF IInv, CatalogInv, Rows, CatalogConsistent
<1> QED
  BY <1>1, Invariance, PTL

\* One request waits at most, the owner is shown the one that matters, and the
\* events alone give the columns and the status of every request.
THEOREM ReviewsStayConsistent == Spec => []ReviewsConsistent
<1>1. IInv => ReviewsConsistent
  BY Typed DEF IInv, Stories, ReviewsConsistent
<1> QED
  BY <1>1, Invariance, PTL

\* An organization becomes public only in a state that is ready.
THEOREM OnlyReadyIsPublished == Spec => PublishedWhenReady
<1>1. IInv /\ [Next]_vars => [published' /\ ~published => Ready]_vars
  <2> SUFFICES ASSUME IInv, [Next]_vars, published', ~published PROVE Ready
    OBVIOUS
  <2>1. PICK v \in Reviewers : ReviewStep(v)
    <3>1. ASSUME NEW w \in Writers, OrganizationStep(w) PROVE published' = published
      BY <3>1 DEF OrganizationStep, LockForChange, ChangeCatalog, lifecycleVars, OwnChange,
         ReplaceOrganizationWeeklyHours, UpdateOrganizationAvailabilitySettings,
         ArchiveOrganization, RestoreOrganization, CreatePublicationRequest
    <3>2. PlatformStep => published' = published \/ ~published'
      BY DEF PlatformStep, UnpublishOrganization, SuspendOrganization, UnsuspendOrganization
    <3>3. ASSUME NEW b \in Bookers, VisitorStep(b) PROVE published' = published
      BY <3>3 DEF VisitorStep, VisitorDecides, VisitorBooks, VisitorStartsOver, lifecycleVars
    <3>4. UNCHANGED vars => published' = published
      BY DEF vars, lifecycleVars
    <3> QED
      BY <3>1, <3>2, <3>3, <3>4 DEF Next
  <2>2. PublishOrganization(v)
    BY <2>1 DEF ReviewStep, LockRequest, ReadReadiness, RefusePublication,
                RejectPublicationRequest
  <2> QED
    BY <2>2 DEF PublishOrganization, IInv, ReviewsHold
<1> QED
  BY <1>1, Invariance, PTL DEF Spec, PublishedWhenReady

\* What is booked is active, its link is not revoked, and the organization is
\* visible, at the moment the booking is inserted.
THEOREM OnlyOfferedIsBooked == Spec => BookedWhileOffered
<1>1. IInv => \A b \in Bookers : BookedWhileActive(b) /\ (VisitorBooks(b) => Visible)
  <2> SUFFICES ASSUME IInv, NEW b \in Bookers
               PROVE  BookedWhileActive(b) /\ (VisitorBooks(b) => Visible)
    OBVIOUS
  <2>1. InsertBooking(b) => attempt[b].pair # None /\ ~attempt[b].stale
    BY DEF InsertBooking, ReferenceFails
  <2>2. BookedWhileActive(b)
    BY <2>1 DEF BookedWhileActive, IInv, CatalogInv, SnapshotsHold
  <2>3. VisitorBooks(b) => Visible
    BY <2>1 DEF VisitorBooks, IInv, VisitorsHold
  <2> QED
    BY <2>2, <2>3
<1> QED
  BY <1>1, Invariance, PTL DEF BookedWhileOffered

\* Publication implements PublicationFlow: every step of the organization is a
\* step of the flow, or none.
THEOREM ImplementsFlow == Spec => ImplementsPublicationFlow
<1>1. Init => Flow!FlowInit
  BY DEF Init, stage, Pending, Flow!FlowInit
<1>2. ASSUME IInv, [Next]_vars PROVE [Flow!FlowNext]_stage
  <2> USE <1>2 DEF IInv
  <2>1. Pending # {} => ~published
    BY DEF OnePendingRequest
  <2>2. ASSUME NEW w \in Writers, NEW q \in Requests, CreatePublicationRequest(w, q)
        PROVE  Flow!Ask
    <3>1. Pending = {} /\ Pending' = {q} /\ published' = published
      BY <2>2, CreateKeepsRequests
    <3>2. ~published
      BY <2>2 DEF CreatePublicationRequest
    <3> QED
      BY <3>1, <3>2 DEF Flow!Ask, stage
  <2>3. ASSUME NEW v \in Reviewers, PublishOrganization(v) PROVE Flow!Approve
    <3>1. Pending # {}
      BY <2>3, DecisionKeepsRequests
    <3>2. ~published /\ published'
      BY <2>3 DEF PublishOrganization
    <3> QED
      BY <3>1, <3>2 DEF Flow!Approve, stage
  <2>4. ASSUME NEW v \in Reviewers, RejectPublicationRequest(v) PROVE Flow!Reject
    <3>1. Pending # {} /\ Pending' = {}
      BY <2>4, DecisionKeepsRequests
    <3>2. published' = published
      BY <2>4 DEF RejectPublicationRequest
    <3> QED
      BY <2>1, <3>1, <3>2 DEF Flow!Reject, stage
  <2>5. ASSUME NEW v \in Reviewers, ReviewStep(v),
               ~PublishOrganization(v), ~RejectPublicationRequest(v)
        PROVE  stage' = stage
    <3>1. published' = published /\ request' = request
      BY <2>5 DEF ReviewStep, LockRequest, ReadReadiness, RefusePublication
    <3> QED
      BY <3>1 DEF stage, Pending
  <2>6. ASSUME UnpublishOrganization PROVE Flow!Withdraw
    <3>1. published /\ ~published' /\ Pending' = Pending
      BY <2>6 DEF UnpublishOrganization, PlatformChange, Pending
    <3> QED
      BY <2>1, <3>1 DEF Flow!Withdraw, stage
  <2>7. ASSUME Unreviewed, published' = published PROVE stage' = stage
    BY <2>7 DEF Unreviewed, stage, Pending
  <2> QED
    BY <2>2, <2>3, <2>4, <2>5, <2>6, <2>7, OtherSteps DEF Flow!FlowNext
<1> QED
  BY <1>1, <1>2, Invariance, PTL DEF Spec, ImplementsPublicationFlow, Flow!FlowSpec
=============================================================================
