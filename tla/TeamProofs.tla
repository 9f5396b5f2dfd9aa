----------------------------- MODULE TeamProofs -----------------------------
(***************************************************************************)
(* Theorems about Team for every set of users, resources, invitations and  *)
(* requests.                                                               *)
(*                                                                         *)
(* The inductive invariant has a part about the requests (each row is held *)
(* by one of them, and read as it still is) and a part about the tables.   *)
(* The tables change in few ways: an operation ends one request, keeps the *)
(* invitations but for settling some, and changes members or links.  Each  *)
(* way has a lemma, and each action is an instance of some of them.        *)
(***************************************************************************)
EXTENDS Team, FiniteSetTheorems, WellFoundedInduction, TLAPS

USE UsersAssumption, NoneAssumption

-----------------------------------------------------------------------------
(* The inductive invariant.                                                *)

\* The parts of the type invariant.
TablesTyped ==
    /\ DOMAIN member \subseteq Users /\ member \in [DOMAIN member -> Role]
    /\ DOMAIN resource \subseteq Resources /\ resource \in [DOMAIN resource -> Resource]
    /\ DOMAIN invitation \subseteq Invitations
    /\ invitation \in [DOMAIN invitation -> Invitation]
    /\ \A i \in DOMAIN invitation :
          IF invitation[i].role = "staff" THEN invitation[i].resource \in DOMAIN resource
                                          ELSE invitation[i].resource = None
    /\ mail \in [DOMAIN invitation -> {"sending", "sent", "failed", "undelivered"}]
    /\ booked \subseteq DOMAIN resource
    /\ open \in BOOLEAN

RequestsTyped ==
    \A p \in Requests :
       /\ op[p].scope \in {"none", "own", "all"}
       /\ op[p].actor \in Users \cup {None}
       /\ op[p].todo \subseteq DOMAIN member
       /\ \A u \in DOMAIN op[p].seen : u \in DOMAIN member /\ op[p].seen[u] = member[u]

\* Every request is a record of its four fields.
SeenRows == UNION {[S -> Role] : S \in SUBSET Users}
Request == [scope : {"none", "own", "all"}, actor : Users \cup {None},
            todo : SUBSET Users, seen : SeenRows]
RequestRecords == op \in [Requests -> Request]

\* A membership row is locked by one request at a time.
RowsHeldOnce ==
    \A p, q \in Requests : p # q => DOMAIN op[p].seen \cap DOMAIN op[q].seen = {}

RequestsHoldRows == RequestsTyped /\ RequestRecords /\ RowsHeldOnce

IInv ==
    /\ TablesTyped /\ RequestsHoldRows
    /\ AlwaysOwned /\ LinksFollowMembers
    /\ OneOpenInvitation /\ PromisedResourceUnlinked

\* The invariant contains the type invariant.
LEMMA TypedInParts == TypeOK <=> TablesTyped /\ RequestsTyped
  BY DEF TypeOK, TablesTyped, RequestsTyped

-----------------------------------------------------------------------------
(* Requests.                                                               *)

\* A function from some users to roles is a set of seen rows; so are no rows,
\* and a row more.
LEMMA SeenRowsAre ==
    ASSUME NEW S \in SUBSET Users, NEW f \in [S -> Role]
    PROVE  f \in SeenRows
  BY DEF SeenRows

\* Rows an operation has seen stay rows when another one is read.
LEMMA SeenRowsGrow ==
    ASSUME NEW seen \in SeenRows, NEW u \in Users, NEW role \in Role
    PROVE  [v \in DOMAIN seen \cup {u} |-> IF v = u THEN role ELSE seen[v]] \in SeenRows
<1>1. PICK S \in SUBSET Users : seen \in [S -> Role]
  BY DEF SeenRows
<1>2. DOMAIN seen \cup {u} \in SUBSET Users
  BY <1>1
<1>3. [v \in DOMAIN seen \cup {u} |-> IF v = u THEN role ELSE seen[v]]
        \in [DOMAIN seen \cup {u} -> Role]
  BY <1>1
<1> QED
  BY <1>2, <1>3, SeenRowsAre

\* A request at rest is a request.
LEMMA IdleIsRequest == Idle \in Request /\ Idle.seen \in SeenRows
<1>1. [u \in {} |-> "staff"] \in [{} -> Role] /\ {} \in SUBSET Users
  OBVIOUS
<1>2. [u \in {} |-> "staff"] \in SeenRows
  BY <1>1, SeenRowsAre
<1> QED
  BY <1>2 DEF Idle, Request

\* The end of a request frees its rows; the others keep what they have seen,
\* even if the rows this request held are changed or gone.
LEMMA EndKeepsRequests ==
    ASSUME RequestsHoldRows, NEW p \in Requests, NEW gone, EndWithout(p, gone),
           gone \subseteq DOMAIN op[p].seen,
           \A u \in DOMAIN member \ gone : u \in DOMAIN member',
           \A u \in DOMAIN member \ DOMAIN op[p].seen : member'[u] = member[u]
    PROVE  RequestsHoldRows'
<1>1. op' = [q \in Requests |-> IF q = p THEN Idle ELSE [op[q] EXCEPT !.todo = @ \ gone]]
  BY DEF EndWithout
<1>2. /\ op'[p].scope = "none" /\ op'[p].actor = None
      /\ op'[p].todo = {} /\ DOMAIN op'[p].seen = {}
  BY <1>1 DEF Idle
<1>3. \A q \in Requests \ {p} :
        /\ op'[q] \in Request
        /\ op'[q].scope = op[q].scope /\ op'[q].actor = op[q].actor
        /\ op'[q].todo = op[q].todo \ gone /\ op'[q].seen = op[q].seen
  BY <1>1 DEF RequestsHoldRows, RequestRecords, Request
<1>4. RequestsTyped'
  <2> SUFFICES ASSUME NEW q \in Requests
               PROVE  /\ op'[q].scope \in {"none", "own", "all"}
                      /\ op'[q].actor \in Users \cup {None}
                      /\ op'[q].todo \subseteq DOMAIN member'
                      /\ \A u \in DOMAIN op'[q].seen :
                            u \in DOMAIN member' /\ op'[q].seen[u] = member'[u]
    BY DEF RequestsTyped
  <2>1. CASE q = p
    BY <1>2, <2>1
  <2>2. CASE q # p
    <3>1. DOMAIN op[q].seen \cap DOMAIN op[p].seen = {}
      BY <2>2 DEF RequestsHoldRows, RowsHeldOnce
    <3>2. op[q].todo \subseteq DOMAIN member
          /\ \A u \in DOMAIN op[q].seen : u \in DOMAIN member /\ op[q].seen[u] = member[u]
      BY DEF RequestsHoldRows, RequestsTyped
    <3>3. op'[q].todo = op[q].todo \ gone /\ op'[q].seen = op[q].seen
      BY <1>3, <2>2
    <3>4. op'[q].todo \subseteq DOMAIN member'
      BY <3>2, <3>3
    <3>5. ASSUME NEW u \in DOMAIN op'[q].seen
          PROVE  u \in DOMAIN member' /\ op'[q].seen[u] = member'[u]
      <4>1. u \in DOMAIN op[q].seen /\ u \in DOMAIN member /\ op[q].seen[u] = member[u]
        BY <3>2, <3>3
      <4>2. u \notin DOMAIN op[p].seen /\ u \notin gone
        BY <3>1, <4>1
      <4> QED
        BY <3>3, <4>1, <4>2
    <3>6. op'[q].scope \in {"none", "own", "all"} /\ op'[q].actor \in Users \cup {None}
      BY <1>3, <2>2 DEF Request
    <3> QED
      BY <3>4, <3>5, <3>6
  <2> QED
    BY <2>1, <2>2
<1>5. RequestRecords'
  BY <1>1, <1>3, IdleIsRequest DEF RequestRecords
<1>6. RowsHeldOnce'
  <2>1. \A q \in Requests \ {p} : op'[q].seen = op[q].seen
    BY <1>3
  <2> QED
    BY <1>2, <2>1 DEF RequestsHoldRows, RowsHeldOnce
<1> QED
  BY <1>4, <1>5, <1>6 DEF RequestsHoldRows

\* An operation that keeps the members keeps what the requests have seen.
LEMMA PlainEndKeepsRequests ==
    ASSUME RequestsHoldRows, NEW p \in Requests, End(p), member' = member
    PROVE  RequestsHoldRows'
<1>1. EndWithout(p, {}) /\ {} \subseteq DOMAIN op[p].seen
  BY DEF End
<1>2. /\ \A u \in DOMAIN member \ {} : u \in DOMAIN member'
      /\ \A u \in DOMAIN member \ DOMAIN op[p].seen : member'[u] = member[u]
  OBVIOUS
<1> QED
  BY <1>1, <1>2, EndKeepsRequests

\* Reading the list of rows locks none yet.
LEMMA ReadKeepsRequests ==
    ASSUME TablesTyped, RequestsHoldRows, NEW p \in Requests, NEW u \in Users,
           NEW scope \in {"own", "all"}, ReadMemberships(p, u, scope)
    PROVE  RequestsHoldRows'
<1> DEFINE todo == IF scope = "all" THEN DOMAIN member ELSE DOMAIN member \cap {u}
<1>1. op' = [op EXCEPT ![p] = [scope |-> scope, actor |-> u, seen |-> Idle.seen, todo |-> todo]]
      /\ member' = member
  BY DEF ReadMemberships
<1>2. DOMAIN Idle.seen = {}
  BY DEF Idle
<1>3. todo \subseteq DOMAIN member
  OBVIOUS
<1>4. DOMAIN op = Requests
  BY DEF RequestsHoldRows, RequestRecords
<1> HIDE DEF todo
<1>6. op'[p] = [scope |-> scope, actor |-> u, seen |-> Idle.seen, todo |-> todo]
      /\ \A q \in Requests \ {p} : op'[q] = op[q]
  BY <1>1, <1>4
<1>7. RequestsTyped'
  BY <1>1, <1>2, <1>3, <1>6 DEF RequestsHoldRows, RequestsTyped
<1>8. RequestRecords'
  <2>1. op'[p] \in Request
    BY <1>3, <1>6, IdleIsRequest DEF Request, TablesTyped
  <2> QED
    BY <1>1, <1>6, <2>1 DEF RequestsHoldRows, RequestRecords
<1>9. RowsHeldOnce'
  BY <1>2, <1>6 DEF RequestsHoldRows, RowsHeldOnce
<1> QED
  BY <1>7, <1>8, <1>9 DEF RequestsHoldRows

\* A lock is granted on a row that no other request holds, and the row is read
\* as it is then.
LEMMA LockKeepsRequests ==
    ASSUME TablesTyped, RequestsHoldRows, NEW p \in Requests, LockMembership(p)
    PROVE  RequestsHoldRows'
<1>1. PICK u \in NextRows(op[p].todo) :
        /\ RowFree(p, u)
        /\ op' = [op EXCEPT ![p].todo = @ \ {u},
                            ![p].seen = [v \in DOMAIN @ \cup {u} |->
                                            IF v = u THEN member[u] ELSE @[v]]]
  BY DEF LockMembership
<1> DEFINE seen == [v \in DOMAIN op[p].seen \cup {u} |->
                       IF v = u THEN member[u] ELSE op[p].seen[v]]
<1>2. member' = member /\ u \in op[p].todo /\ u \in DOMAIN member
  BY DEF LockMembership, NextRows, RequestsHoldRows, RequestsTyped
<1>3. DOMAIN op = Requests
  BY DEF RequestsHoldRows, RequestRecords
<1>4. op[p] \in Request /\ op[p].seen \in SeenRows
  BY DEF RequestsHoldRows, RequestRecords, Request
<1>5. /\ seen \in SeenRows
      /\ DOMAIN seen = DOMAIN op[p].seen \cup {u}
      /\ \A v \in DOMAIN seen : seen[v] = IF v = u THEN member[u] ELSE op[p].seen[v]
  <2>1. u \in Users /\ member[u] \in Role
    BY <1>2 DEF TablesTyped
  <2> QED
    BY <1>4, <2>1, SeenRowsGrow
<1>6. op' = [op EXCEPT ![p] = [op[p] EXCEPT !.todo = @ \ {u}, !.seen = seen]]
  BY <1>1, <1>3
<1> HIDE DEF seen
<1>7. /\ op'[p] \in Request
      /\ op'[p].scope = op[p].scope /\ op'[p].actor = op[p].actor
      /\ op'[p].todo = op[p].todo \ {u} /\ op'[p].seen = seen
      /\ \A q \in Requests \ {p} : op'[q] = op[q]
  BY <1>3, <1>4, <1>5, <1>6 DEF Request
<1>8. RequestsTyped'
  <2>1. \A v \in DOMAIN seen : v \in DOMAIN member /\ seen[v] = member[v]
    BY <1>2, <1>5 DEF RequestsHoldRows, RequestsTyped
  <2> QED
    BY <1>2, <1>7, <2>1 DEF RequestsHoldRows, RequestsTyped
<1>9. RequestRecords'
  BY <1>6, <1>7 DEF RequestsHoldRows, RequestRecords
<1>10. RowsHeldOnce'
  <2>1. \A q \in Requests \ {p} : DOMAIN op[q].seen \cap DOMAIN seen = {}
    BY <1>1, <1>5 DEF RequestsHoldRows, RowsHeldOnce, RowFree
  <2> QED
    BY <1>7, <2>1 DEF RequestsHoldRows, RowsHeldOnce
<1> QED
  BY <1>8, <1>9, <1>10 DEF RequestsHoldRows

-----------------------------------------------------------------------------
(* Tables.                                                                 *)

Tables ==
    /\ TablesTyped /\ LinksFollowMembers
    /\ OneOpenInvitation /\ PromisedResourceUnlinked

\* Invitations stay what they are, but for open ones that are settled.
KeepsInvitations ==
    /\ DOMAIN invitation' = DOMAIN invitation
    /\ invitation' \in [DOMAIN invitation -> Invitation]
    /\ \A i \in DOMAIN invitation :
          /\ invitation'[i].email = invitation[i].email
          /\ invitation'[i].role = invitation[i].role
          /\ invitation'[i].resource = invitation[i].resource
          /\ invitation'[i].status = "open" => invitation[i].status = "open"

\* Links are kept or taken away, from members only; resources may be added.
QuietStep ==
    /\ KeepsInvitations
    /\ DOMAIN member' \subseteq Users /\ member' \in [DOMAIN member' -> Role]
    /\ DOMAIN resource \subseteq DOMAIN resource'
    /\ DOMAIN resource' \subseteq Resources /\ resource' \in [DOMAIN resource' -> Resource]
    /\ \A r \in DOMAIN resource' :
          \/ resource'[r].user = None
          \/ /\ r \in DOMAIN resource
             /\ resource'[r].user = resource[r].user
             /\ resource'[r].user \in DOMAIN member'
    /\ mail' \in [DOMAIN invitation -> {"sending", "sent", "failed", "undelivered"}]
    /\ booked' \subseteq DOMAIN resource'
    /\ open' \in BOOLEAN

\* A step that keeps the invitations opens no second one.
LEMMA KeptInvitationsStayUnique ==
    ASSUME OneOpenInvitation, KeepsInvitations
    PROVE  OneOpenInvitation'
  BY DEF OneOpenInvitation, KeepsInvitations, Pending

\* A quiet step keeps the tables in order.
LEMMA QuietStepKeepsTables ==
    ASSUME Tables, QuietStep
    PROVE  Tables'
<1>1. TablesTyped'
  <2>1. \A i \in DOMAIN invitation' :
          IF invitation'[i].role = "staff" THEN invitation'[i].resource \in DOMAIN resource'
                                           ELSE invitation'[i].resource = None
    BY DEF Tables, TablesTyped, QuietStep, KeepsInvitations
  <2>2. /\ DOMAIN invitation' \subseteq Invitations
        /\ invitation' \in [DOMAIN invitation' -> Invitation]
    BY DEF Tables, TablesTyped, QuietStep, KeepsInvitations
  <2>3. mail' \in [DOMAIN invitation' -> {"sending", "sent", "failed", "undelivered"}]
    BY DEF QuietStep, KeepsInvitations
  <2> QED
    BY <2>1, <2>2, <2>3 DEF TablesTyped, QuietStep
<1>2. LinksFollowMembers'
  BY DEF Tables, LinksFollowMembers, QuietStep
<1>3. OneOpenInvitation'
  BY KeptInvitationsStayUnique DEF Tables, QuietStep
<1>4. PromisedResourceUnlinked'
  <2> SUFFICES ASSUME NEW i \in DOMAIN invitation',
                      invitation'[i].status = "open", invitation'[i].resource # None
               PROVE  resource'[invitation'[i].resource].user = None
    BY DEF PromisedResourceUnlinked, Pending
  <2> DEFINE r == invitation[i].resource
  <2>1. i \in DOMAIN invitation /\ invitation[i].status = "open"
        /\ invitation'[i].resource = r /\ r # None
    BY DEF QuietStep, KeepsInvitations
  <2>2. resource[r].user = None
    BY <2>1 DEF Tables, PromisedResourceUnlinked, Pending
  <2>3. r \in DOMAIN resource
    BY <2>1 DEF Tables, TablesTyped
  <2> HIDE DEF r
  <2> QED
    BY <2>1, <2>2, <2>3 DEF QuietStep
<1> QED
  BY <1>1, <1>2, <1>3, <1>4 DEF Tables

\* Closing invitations keeps them otherwise.
LEMMA CloseFacts ==
    ASSUME TablesTyped, NEW S
    PROVE  /\ Close(S) \in [DOMAIN invitation -> Invitation]
           /\ DOMAIN Close(S) = DOMAIN invitation
           /\ \A i \in DOMAIN invitation :
                 /\ Close(S)[i].email = invitation[i].email
                 /\ Close(S)[i].role = invitation[i].role
                 /\ Close(S)[i].resource = invitation[i].resource
                 /\ Close(S)[i].expired = invitation[i].expired
                 /\ Close(S)[i].status = IF i \in S THEN "revoked" ELSE invitation[i].status
  BY DEF TablesTyped, Close, Invitation

\* Closing invitations only settles them.
LEMMA ClosedInvitationsAreKept ==
    ASSUME TablesTyped, NEW S, invitation' = Close(S)
    PROVE  KeepsInvitations
  BY CloseFacts DEF KeepsInvitations

\* Nor does a step that leaves the table alone.
LEMMA UnchangedInvitationsAreKept ==
    ASSUME TablesTyped, UNCHANGED invitation
    PROVE  KeepsInvitations
  BY DEF TablesTyped, KeepsInvitations

\* A step that changes neither members nor resources is quiet if it keeps the
\* invitations.
LEMMA StillTablesAreQuiet ==
    ASSUME Tables, UNCHANGED <<member, resource>>, KeepsInvitations,
           mail' \in [DOMAIN invitation -> {"sending", "sent", "failed", "undelivered"}],
           booked' \subseteq DOMAIN resource, open' \in BOOLEAN
    PROVE  QuietStep
  BY DEF Tables, TablesTyped, LinksFollowMembers, QuietStep

-----------------------------------------------------------------------------
(* Members.                                                                *)

\* Of two owners, one is left: the count of the owners a request has seen is
\* one only if there is no other.
LEMMA NotLastOwner ==
    ASSUME NEW list, NEW u \in DOMAIN list, ~LastOwner(list, u), list[u] = "owner"
    PROVE  \E w \in OwnersOf(list) : w # u
<1> SUFFICES ASSUME \A w \in OwnersOf(list) : w = u PROVE FALSE
  OBVIOUS
<1>1. OwnersOf(list) = {u}
  BY DEF OwnersOf
<1>2. Cardinality({u}) = 1
  BY FS_Singleton
<1> QED
  BY <1>1, <1>2 DEF LastOwner

\* What a request has seen of its rows is still so.
LEMMA SeenIsSo ==
    ASSUME RequestsHoldRows, NEW p \in Requests, NEW u \in DOMAIN op[p].seen
    PROVE  u \in DOMAIN member /\ op[p].seen[u] = member[u]
  BY DEF RequestsHoldRows, RequestsTyped

\* Somebody else owns the organization when a request that holds all rows
\* takes a role or a membership away from u.
LEMMA AnotherOwner ==
    ASSUME RequestsHoldRows, AlwaysOwned, NEW p \in Requests, NEW u \in DOMAIN op[p].seen,
           ~LastOwner(op[p].seen, u)
    PROVE  \E w \in OwnersOf(member) : w # u
<1>1. CASE op[p].seen[u] = "owner"
  <2>1. PICK w \in OwnersOf(op[p].seen) : w # u
    BY <1>1, NotLastOwner
  <2>2. w \in OwnersOf(member)
    BY <2>1, SeenIsSo DEF OwnersOf
  <2> QED
    BY <2>1, <2>2
<1>2. CASE op[p].seen[u] # "owner"
  <2>1. u \notin OwnersOf(member)
    BY <1>2, SeenIsSo DEF OwnersOf
  <2> QED
    BY <2>1 DEF AlwaysOwned
<1> QED
  BY <1>1, <1>2

\* Removing a member takes the resource link and leaves an owner, if another one is
\* there.
LEMMA DropMemberKeeps ==
    ASSUME IInv, NEW p \in Requests, NEW u \in DOMAIN op[p].seen, DropMember(p, u),
           NEW w \in OwnersOf(member), w # u
    PROVE  IInv'
<1>1. /\ resource' = UnlinkUserResource(u)
      /\ member' = [v \in DOMAIN member \ {u} |-> member[v]]
      /\ EndWithout(p, {u})
      /\ UNCHANGED <<invitation, mail, booked, open>>
  BY DEF DropMember
<1>2. Tables /\ RequestsHoldRows /\ u \in DOMAIN member
  BY SeenIsSo DEF IInv, Tables
<1>3. RequestsHoldRows'
  <2>1. /\ {u} \subseteq DOMAIN op[p].seen
        /\ \A v \in DOMAIN member \ {u} : v \in DOMAIN member'
        /\ \A v \in DOMAIN member \ DOMAIN op[p].seen : member'[v] = member[v]
    BY <1>1
  <2> QED
    BY <1>1, <1>2, <2>1, EndKeepsRequests
<1>4. AlwaysOwned'
  <2>1. w \in DOMAIN member' /\ member'[w] = "owner"
    BY <1>1 DEF OwnersOf
  <2> QED
    BY <2>1 DEF AlwaysOwned, OwnersOf
<1>5. QuietStep
  <2>1. DOMAIN member' \subseteq Users /\ member' \in [DOMAIN member' -> Role]
    BY <1>1, <1>2 DEF Tables, TablesTyped
  <2>2. /\ DOMAIN resource' = DOMAIN resource
        /\ resource' \in [DOMAIN resource -> Resource]
        /\ \A r \in DOMAIN resource :
              resource'[r].user = IF resource[r].user = u THEN None ELSE resource[r].user
    BY <1>1, <1>2 DEF Tables, TablesTyped, UnlinkUserResource, Resource
  <2>3. \A r \in DOMAIN resource : resource[r].user \in DOMAIN member \cup {None}
    BY <1>2 DEF Tables, LinksFollowMembers
  <2>4. KeepsInvitations
    BY <1>1, <1>2, UnchangedInvitationsAreKept DEF Tables
  <2>5. DOMAIN member' = DOMAIN member \ {u}
    BY <1>1
  <2>6. \A r \in DOMAIN resource' :
          \/ resource'[r].user = None
          \/ /\ r \in DOMAIN resource
             /\ resource'[r].user = resource[r].user
             /\ resource'[r].user \in DOMAIN member'
    BY <2>2, <2>3, <2>5
  <2> QED
    BY <1>1, <1>2, <2>1, <2>2, <2>4, <2>6 DEF QuietStep, Tables, TablesTyped
<1> QED
  BY <1>2, <1>3, <1>4, <1>5, QuietStepKeepsTables DEF IInv, Tables

\* Removal: an owner who removes somebody stays, and a manager removes staff.
LEMMA RemovalKeeps ==
    ASSUME IInv, NEW p \in Requests, NEW u \in Users, RemoveOrganizationMember(p, u)
    PROVE  IInv'
<1>1. /\ u \in DOMAIN op[p].seen /\ u # op[p].actor
      /\ op[p].actor \in DOMAIN op[p].seen
      /\ Manages(op[p].seen[op[p].actor], op[p].seen[u])
      /\ DropMember(p, u)
  BY DEF RemoveOrganizationMember, May, ActorRole
<1>2. /\ op[p].actor \in DOMAIN member /\ member[op[p].actor] = op[p].seen[op[p].actor]
      /\ u \in DOMAIN member /\ member[u] = op[p].seen[u]
  BY <1>1, SeenIsSo DEF IInv
<1>3. \E w \in OwnersOf(member) : w # u
  <2>1. CASE member[op[p].actor] = "owner"
    BY <1>1, <1>2, <2>1 DEF OwnersOf
  <2>2. CASE member[u] = "staff"
    BY <2>2 DEF OwnersOf, IInv, AlwaysOwned
  <2> QED
    BY <1>1, <1>2, <2>1, <2>2 DEF Manages
<1> QED
  BY <1>1, <1>3, DropMemberKeeps

\* Leaving keeps the invariant: an owner may leave only if another one stays.
LEMMA DepartureKeeps ==
    ASSUME IInv, NEW p \in Requests, LeaveOrganization(p)
    PROVE  IInv'
<1>1. /\ op[p].actor \in DOMAIN op[p].seen
      /\ ~LastOwner(op[p].seen, op[p].actor)
      /\ DropMember(p, op[p].actor)
  BY DEF LeaveOrganization, May
<1>2. \E w \in OwnersOf(member) : w # op[p].actor
  BY <1>1, AnotherOwner DEF IInv
<1> QED
  BY <1>1, <1>2, DropMemberKeeps

\* A change of role keeps an owner and withdraws the link where the new role has none.
LEMMA UpdateRoleKeeps ==
    ASSUME IInv, NEW p \in Requests, NEW u \in Users, NEW role \in Role,
           UpdateOrganizationMemberRole(p, u, role)
    PROVE  IInv'
<1>1. /\ u \in DOMAIN op[p].seen
      /\ role # "owner" => ~LastOwner(op[p].seen, u)
      /\ member' = [member EXCEPT ![u] = role]
      /\ End(p)
      /\ UNCHANGED <<resource, invitation, mail, booked, open>>
  BY DEF UpdateOrganizationMemberRole
<1>2. Tables /\ RequestsHoldRows /\ u \in DOMAIN member /\ AlwaysOwned
      /\ member \in [DOMAIN member -> Role]
  BY <1>1, SeenIsSo DEF IInv, Tables, TablesTyped
<1>3. /\ DOMAIN member' = DOMAIN member
      /\ member'[u] = role
      /\ \A v \in DOMAIN member \ {u} : member'[v] = member[v]
      /\ member' \in [DOMAIN member -> Role]
  BY <1>1, <1>2
<1>4. RequestsHoldRows'
  <2>1. /\ EndWithout(p, {}) /\ {} \subseteq DOMAIN op[p].seen
        /\ \A v \in DOMAIN member \ {} : v \in DOMAIN member'
        /\ \A v \in DOMAIN member \ DOMAIN op[p].seen : member'[v] = member[v]
    BY <1>1, <1>3 DEF End
  <2> QED
    BY <1>2, <2>1, EndKeepsRequests
<1>5. AlwaysOwned'
  <2>1. CASE role = "owner"
    BY <1>2, <1>3, <2>1 DEF AlwaysOwned, OwnersOf
  <2>2. CASE role # "owner"
    <3>1. PICK w \in OwnersOf(member) : w # u
      BY <1>1, <1>2, <2>2, AnotherOwner
    <3>2. w \in DOMAIN member' /\ member'[w] = "owner"
      BY <1>3, <3>1 DEF OwnersOf
    <3> QED
      BY <3>2 DEF AlwaysOwned, OwnersOf
  <2> QED
    BY <2>1, <2>2
<1>6. QuietStep
  <2>1. KeepsInvitations
    BY <1>1, <1>2, UnchangedInvitationsAreKept DEF Tables
  <2> QED
    BY <1>1, <1>2, <1>3, <2>1 DEF QuietStep, Tables, TablesTyped, LinksFollowMembers
<1> QED
  BY <1>2, <1>4, <1>5, <1>6, QuietStepKeepsTables DEF IInv, Tables

-----------------------------------------------------------------------------
(* Resources and their members.                                            *)

\* An operation of a request that keeps the members and leaves the tables in
\* order keeps the invariant.
LEMMA TableOperationKeeps ==
    ASSUME IInv, NEW p \in Requests, End(p), UNCHANGED member, Tables'
    PROVE  IInv'
<1>1. RequestsHoldRows'
  BY PlainEndKeepsRequests DEF IInv
<1>2. AlwaysOwned'
  BY DEF IInv, AlwaysOwned, OwnersOf
<1> QED
  BY <1>1, <1>2 DEF IInv, Tables

\* A step that only unlinks or switches existing resources is quiet.
LEMMA ResourcesOnlyAreQuiet ==
    ASSUME Tables, UNCHANGED <<member, invitation, mail, booked, open>>,
           DOMAIN resource \subseteq DOMAIN resource', DOMAIN resource' \subseteq Resources,
           resource' \in [DOMAIN resource' -> Resource],
           \A r \in DOMAIN resource' :
              \/ resource'[r].user = None
              \/ r \in DOMAIN resource /\ resource'[r].user = resource[r].user
    PROVE  QuietStep
<1>1. KeepsInvitations
  BY UnchangedInvitationsAreKept DEF Tables
<1> QED
  BY <1>1 DEF Tables, TablesTyped, LinksFollowMembers, QuietStep

\* A new resource is linked to nobody.
LEMMA CreateResourceKeeps ==
    ASSUME IInv, NEW p \in Requests, NEW r \in Resources, CreateResource(p, r)
    PROVE  IInv'
<1>1. /\ resource' = [s \in DOMAIN resource \cup {r} |->
                         IF s = r THEN [user |-> None, active |-> TRUE] ELSE resource[s]]
      /\ End(p) /\ UNCHANGED <<member, invitation, mail, booked, open>>
  BY DEF CreateResource
<1>2. Tables
  BY DEF IInv, Tables
<1>3. [user |-> None, active |-> TRUE] \in Resource
  BY DEF Resource
<1>4. /\ DOMAIN resource' = DOMAIN resource \cup {r}
      /\ resource'[r].user = None
      /\ resource'[r] \in Resource
      /\ \A s \in DOMAIN resource \ {r} : resource'[s] = resource[s]
  BY <1>1, <1>3
<1>5. resource' \in [DOMAIN resource' -> Resource]
  BY <1>1, <1>2, <1>3 DEF Tables, TablesTyped
<1>6. QuietStep
  BY <1>1, <1>2, <1>4, <1>5, ResourcesOnlyAreQuiet DEF Tables, TablesTyped
<1> QED
  BY <1>1, <1>2, <1>6, QuietStepKeepsTables, TableOperationKeeps

\* Activating or deactivating a resource leaves links and promises alone.
LEMMA SetResourceActiveKeeps ==
    ASSUME IInv, NEW p \in Requests, NEW r \in Resources, NEW active \in BOOLEAN,
           SetResourceActive(p, r, active)
    PROVE  IInv'
<1>1. /\ r \in DOMAIN resource
      /\ resource' = [resource EXCEPT ![r].active = active]
      /\ End(p) /\ UNCHANGED <<member, invitation, mail, booked, open>>
  BY DEF SetResourceActive
<1>2. Tables
  BY DEF IInv, Tables
<1>3. /\ DOMAIN resource' = DOMAIN resource
      /\ resource' \in [DOMAIN resource' -> Resource]
      /\ \A s \in DOMAIN resource : resource'[s].user = resource[s].user
  BY <1>1, <1>2 DEF Tables, TablesTyped, Resource
<1>4. QuietStep
  BY <1>1, <1>2, <1>3, ResourcesOnlyAreQuiet DEF Tables, TablesTyped
<1> QED
  BY <1>1, <1>2, <1>4, QuietStepKeepsTables, TableOperationKeeps

\* Unlinking a resource only frees it.
LEMMA UnlinkResourceKeeps ==
    ASSUME IInv, NEW p \in Requests, NEW r \in Resources, UnlinkResource(p, r)
    PROVE  IInv'
<1>1. /\ r \in DOMAIN resource
      /\ resource' = [resource EXCEPT ![r].user = None]
      /\ End(p) /\ UNCHANGED <<member, invitation, mail, booked, open>>
  BY DEF UnlinkResource
<1>2. Tables
  BY DEF IInv, Tables
<1>3. /\ DOMAIN resource' = DOMAIN resource
      /\ resource' \in [DOMAIN resource' -> Resource]
      /\ resource'[r].user = None
      /\ \A s \in DOMAIN resource \ {r} : resource'[s].user = resource[s].user
  BY <1>1, <1>2 DEF Tables, TablesTyped, Resource
<1>4. QuietStep
  BY <1>1, <1>2, <1>3, ResourcesOnlyAreQuiet DEF Tables, TablesTyped
<1> QED
  BY <1>1, <1>2, <1>4, QuietStepKeepsTables, TableOperationKeeps

\* Deletion: nothing is booked on the resource, linked to it or invited to it.
LEMMA DeleteResourceKeeps ==
    ASSUME IInv, NEW p \in Requests, NEW r \in Resources, DeleteResource(p, r)
    PROVE  IInv'
<1>1. /\ r \in DOMAIN resource \ booked
      /\ \A i \in DOMAIN invitation : invitation[i].resource # r
      /\ resource' = [s \in DOMAIN resource \ {r} |-> resource[s]]
      /\ End(p) /\ UNCHANGED <<member, invitation, mail, booked, open>>
  BY DEF DeleteResource
<1>2. Tables
  BY DEF IInv, Tables
<1>3. /\ DOMAIN resource' = DOMAIN resource \ {r}
      /\ \A s \in DOMAIN resource' : resource'[s] = resource[s]
  BY <1>1
<1>4. TablesTyped'
  <2>1. resource' \in [DOMAIN resource' -> Resource]
    BY <1>1, <1>2 DEF Tables, TablesTyped
  <2>2. \A i \in DOMAIN invitation :
          IF invitation[i].role = "staff" THEN invitation[i].resource \in DOMAIN resource'
                                          ELSE invitation[i].resource = None
    BY <1>1, <1>2, <1>3 DEF Tables, TablesTyped
  <2> QED
    BY <1>1, <1>2, <1>3, <2>1, <2>2 DEF Tables, TablesTyped
<1>5. LinksFollowMembers'
  BY <1>1, <1>2, <1>3 DEF Tables, LinksFollowMembers
<1>6. OneOpenInvitation'
  BY <1>1, <1>2 DEF Tables, OneOpenInvitation, Pending
<1>7. PromisedResourceUnlinked'
  <2>1. \A i \in DOMAIN invitation :
          invitation[i].resource # None => invitation[i].resource \in DOMAIN resource'
    BY <1>1, <1>2, <1>3 DEF Tables, TablesTyped
  <2> QED
    BY <1>1, <1>2, <1>3, <2>1 DEF Tables, PromisedResourceUnlinked, Pending
<1> QED
  BY <1>1, <1>4, <1>5, <1>6, <1>7, TableOperationKeeps DEF Tables

\* Linking: the member had no resource, the resource no member, and the open
\* invitations that promised it are closed.
LEMMA LinkKeeps ==
    ASSUME IInv, NEW p \in Requests, NEW r \in Resources, NEW u \in Users,
           LinkResourceToMember(p, r, u)
    PROVE  IInv'
<1>1. /\ u \in DOMAIN op[p].seen
      /\ Linkable(r, u)
      /\ resource' = [resource EXCEPT ![r].user = u]
      /\ invitation' = Close(PendingFor(r))
      /\ End(p) /\ UNCHANGED <<member, mail, booked, open>>
  BY DEF LinkResourceToMember
<1>2. Tables /\ u \in DOMAIN member
  BY <1>1, SeenIsSo DEF IInv, Tables
<1>3. r \in DOMAIN resource /\ \A s \in DOMAIN resource : resource[s].user # u
  BY <1>1 DEF Linkable, LinkedTo
<1>4. /\ DOMAIN resource' = DOMAIN resource
      /\ resource' \in [DOMAIN resource -> Resource]
      /\ resource'[r].user = u
      /\ \A s \in DOMAIN resource \ {r} : resource'[s].user = resource[s].user
  BY <1>1, <1>2, <1>3 DEF Tables, TablesTyped, Resource
<1>5. KeepsInvitations
  BY <1>1, <1>2, ClosedInvitationsAreKept DEF Tables
<1>6. TablesTyped'
  BY <1>1, <1>2, <1>4, <1>5 DEF Tables, TablesTyped, KeepsInvitations
<1>7. LinksFollowMembers'
  BY <1>1, <1>2, <1>3, <1>4 DEF Tables, LinksFollowMembers
<1>8. OneOpenInvitation'
  BY <1>2, <1>5, KeptInvitationsStayUnique DEF Tables
<1>9. PromisedResourceUnlinked'
  <2> SUFFICES ASSUME NEW i \in DOMAIN invitation',
                      invitation'[i].status = "open", invitation'[i].resource # None
               PROVE  resource'[invitation'[i].resource].user = None
    BY DEF PromisedResourceUnlinked, Pending
  <2>1. /\ i \in DOMAIN invitation /\ invitation[i].status = "open"
        /\ invitation'[i].resource = invitation[i].resource
    BY <1>5 DEF KeepsInvitations
  <2>2. resource[invitation[i].resource].user = None
        /\ invitation[i].resource \in DOMAIN resource
    BY <1>2, <2>1 DEF Tables, TablesTyped, PromisedResourceUnlinked, Pending
  <2>3. invitation[i].resource # r
    <3>1. SUFFICES ASSUME invitation[i].resource = r PROVE FALSE
      OBVIOUS
    <3>2. i \in PendingFor(r)
      BY <2>1, <3>1 DEF PendingFor, Pending
    <3>3. invitation'[i].status = "revoked"
      BY <1>1, <1>2, <2>1, <3>2, CloseFacts DEF Tables
    <3> QED
      BY <3>3
  <2> QED
    BY <1>4, <2>1, <2>2, <2>3
<1> QED
  BY <1>1, <1>6, <1>7, <1>8, <1>9, TableOperationKeeps DEF Tables

-----------------------------------------------------------------------------
(* Invitations.                                                            *)

\* A revocation settles an open invitation and gives up the resource it promised.
LEMMA RevokeInvitationKeeps ==
    ASSUME IInv, NEW p \in Requests, NEW i \in Invitations,
           RevokeOrganizationInvitation(p, i)
    PROVE  IInv'
<1>1. /\ invitation' = Close({i})
      /\ End(p) /\ UNCHANGED <<member, resource, mail, booked, open>>
  BY DEF RevokeOrganizationInvitation
<1>2. Tables
  BY DEF IInv, Tables
<1>3. QuietStep
  BY <1>1, <1>2, ClosedInvitationsAreKept, StillTablesAreQuiet DEF Tables, TablesTyped
<1> QED
  BY <1>1, <1>2, <1>3, QuietStepKeepsTables, TableOperationKeeps

\* A refused invitation has settled the expired one to its address.
LEMMA RefuseInvitationKeeps ==
    ASSUME IInv, NEW p \in Requests, NEW u \in Users, NEW role \in Role,
           NEW r \in Resources \cup {None}, RefuseInvitation(p, u, role, r)
    PROVE  IInv'
<1>1. /\ invitation' = Close(PendingTo(u))
      /\ End(p) /\ UNCHANGED <<member, resource, mail, booked, open>>
  BY DEF RefuseInvitation
<1>2. Tables
  BY DEF IInv, Tables
<1>3. QuietStep
  BY <1>1, <1>2, ClosedInvitationsAreKept, StillTablesAreQuiet DEF Tables, TablesTyped
<1> QED
  BY <1>1, <1>2, <1>3, QuietStepKeepsTables, TableOperationKeeps

\* A new invitation: the open ones for its address or its resource make room.
LEMMA CreateInvitationKeeps ==
    ASSUME IInv, NEW p \in Requests, NEW i \in Invitations, NEW u \in Users,
           NEW role \in Role, NEW r \in Resources \cup {None},
           CreateOrganizationInvitation(p, i, u, role, r)
    PROVE  IInv'
<1> DEFINE new == [email |-> u, role |-> role, resource |-> r,
                   status |-> "open", expired |-> FALSE]
           old == Close(InTheWay(u, r))
<1>1. /\ i \notin DOMAIN invitation
      /\ Invitable(u, role, r)
      /\ invitation' = [j \in DOMAIN invitation \cup {i} |-> IF j = i THEN new ELSE old[j]]
      /\ mail' = [j \in DOMAIN mail \cup {i} |-> IF j = i THEN "sending" ELSE mail[j]]
      /\ End(p) /\ UNCHANGED <<member, resource, booked, open>>
  BY DEF CreateOrganizationInvitation
<1>2. Tables
  BY DEF IInv, Tables
<1>3. new \in Invitation /\ new.email = u /\ new.role = role /\ new.resource = r
      /\ new.status = "open"
  BY DEF Invitation
<1>4. /\ old \in [DOMAIN invitation -> Invitation]
      /\ \A j \in DOMAIN invitation :
            /\ old[j].email = invitation[j].email
            /\ old[j].role = invitation[j].role
            /\ old[j].resource = invitation[j].resource
            /\ old[j].status = IF j \in InTheWay(u, r) THEN "revoked" ELSE invitation[j].status
  BY <1>2, CloseFacts DEF Tables
<1> HIDE DEF new, old
<1>5. /\ DOMAIN invitation' = DOMAIN invitation \cup {i}
      /\ invitation'[i] = new
      /\ \A j \in DOMAIN invitation : j # i /\ invitation'[j] = old[j]
  BY <1>1
<1>6. IF role = "staff" THEN r \in DOMAIN resource /\ resource[r].user = None ELSE r = None
  BY <1>1 DEF Invitable
<1>7. TablesTyped'
  <2>1. invitation' \in [DOMAIN invitation' -> Invitation]
    BY <1>1, <1>3, <1>4, <1>5
  <2>2. \A j \in DOMAIN invitation' :
          IF invitation'[j].role = "staff" THEN invitation'[j].resource \in DOMAIN resource
                                           ELSE invitation'[j].resource = None
    BY <1>2, <1>3, <1>4, <1>5, <1>6 DEF Tables, TablesTyped
  <2>3. mail' \in [DOMAIN invitation' -> {"sending", "sent", "failed", "undelivered"}]
    BY <1>1, <1>2, <1>5 DEF Tables, TablesTyped
  <2> QED
    BY <1>1, <1>2, <1>5, <2>1, <2>2, <2>3 DEF Tables, TablesTyped
<1>8. LinksFollowMembers'
  BY <1>1, <1>2 DEF Tables, LinksFollowMembers
<1>9. \A j \in DOMAIN invitation :
        old[j].status = "open" =>
            /\ invitation[j].status = "open"
            /\ invitation[j].email # u
            /\ r # None => invitation[j].resource # r
  BY <1>4 DEF InTheWay, PendingTo, PendingFor, Pending
<1>10. OneOpenInvitation'
  <2> SUFFICES ASSUME NEW j \in DOMAIN invitation', NEW k \in DOMAIN invitation',
                      invitation'[j].status = "open", invitation'[k].status = "open",
                      \/ invitation'[j].email = invitation'[k].email
                      \/ /\ invitation'[j].resource = invitation'[k].resource
                         /\ invitation'[j].resource # None
               PROVE  j = k
    BY DEF OneOpenInvitation, Pending
  <2>1. CASE j \in DOMAIN invitation /\ k \in DOMAIN invitation
    BY <1>2, <1>4, <1>5, <1>9, <2>1 DEF Tables, OneOpenInvitation, Pending
  <2>2. CASE j = i
    BY <1>3, <1>4, <1>5, <1>9, <2>2
  <2>3. CASE k = i
    BY <1>3, <1>4, <1>5, <1>9, <2>3
  <2> QED
    BY <1>5, <2>1, <2>2, <2>3
<1>11. PromisedResourceUnlinked'
  <2> SUFFICES ASSUME NEW j \in DOMAIN invitation',
                      invitation'[j].status = "open", invitation'[j].resource # None
               PROVE  resource[invitation'[j].resource].user = None
    BY <1>1 DEF PromisedResourceUnlinked, Pending
  <2>1. CASE j = i
    BY <1>3, <1>5, <1>6, <2>1
  <2>2. CASE j \in DOMAIN invitation
    BY <1>2, <1>4, <1>5, <1>9, <2>2 DEF Tables, PromisedResourceUnlinked, Pending
  <2> QED
    BY <1>5, <2>1, <2>2
<1> QED
  BY <1>1, <1>7, <1>8, <1>10, <1>11, TableOperationKeeps DEF Tables

-----------------------------------------------------------------------------
(* Acceptance and its preview.                                             *)

\* The answers of a list of checks: ok if all hold, otherwise the reason of
\* the first that fails.
LEMMA FirstReasonOfChecks ==
    ASSUME NEW n \in Nat, NEW checks, DOMAIN checks = 1 .. n,
           \A k \in 1 .. n : checks[k].reason # "ok"
    PROVE  /\ FirstReason(checks) = "ok" <=> \A k \in 1 .. n : checks[k].holds
           /\ ~(\A k \in 1 .. n : checks[k].holds) =>
                 \E k \in 1 .. n :
                    /\ ~checks[k].holds
                    /\ \A l \in 1 .. (k - 1) : checks[l].holds
                    /\ FirstReason(checks) = checks[k].reason
<1> DEFINE failed == {k \in 1 .. n : ~checks[k].holds}
           first == CHOOSE k \in failed : \A l \in failed : k <= l
<1>1. FirstReason(checks) = IF failed = {} THEN "ok" ELSE checks[first].reason
  BY DEF FirstReason
<1>2. failed \in SUBSET Nat
  OBVIOUS
<1>3. CASE failed = {}
  BY <1>1, <1>3
<1>4. CASE failed # {}
  <2>1. \E k \in failed : \A l \in failed : k <= l
    <3>1. PICK k \in failed : \A l \in failed : ~ (<<l, k>> \in OpToRel(<, Nat))
      <4> HIDE DEF failed
      <4> QED
        BY <1>2, <1>4, NatLessThanWellFounded, WFMin
    <3>2. \A l \in failed : ~ (l < k)
      BY <1>2, <3>1 DEF OpToRel
    <3> QED
      BY <1>2, <3>2
  <2>2. first \in failed /\ \A l \in failed : first <= l
    <3> HIDE DEF failed
    <3> QED
      BY <2>1
  <2>3. first \in 1 .. n /\ ~checks[first].holds
    BY <2>2
  <2>4. \A l \in 1 .. (first - 1) : checks[l].holds
    <3>1. \A l \in 1 .. (first - 1) : l \in 1 .. n /\ ~(first <= l)
      BY <2>3
    <3> QED
      BY <2>2, <3>1
  <2>5. FirstReason(checks) = checks[first].reason
    BY <1>1, <1>4
  <2> HIDE DEF first, failed
  <2> QED
    BY <2>3, <2>4, <2>5
<1> QED
  BY <1>3, <1>4

\* The parts of the two lists of checks, joined in one order or the other.
LEMMA JoinedChecks ==
    ASSUME NEW S, NEW a1 \in S, NEW a2 \in S, NEW a3 \in S, NEW a4 \in S, NEW a5 \in S,
           NEW b1 \in S, NEW b2 \in S, NEW b3 \in S, NEW b4 \in S, NEW c \in S,
           NEW s, s = <<a1, a2, a3, a4, a5>> \o <<b1, b2, b3, b4>> \o <<c>>,
           NEW t, t = <<a1, a2, a3, a4, a5>> \o <<c>> \o <<b1, b2, b3, b4>>
    PROVE  /\ DOMAIN s = 1 .. 10
           /\ s[1] = a1 /\ s[2] = a2 /\ s[3] = a3 /\ s[4] = a4 /\ s[5] = a5
           /\ s[6] = b1 /\ s[7] = b2 /\ s[8] = b3 /\ s[9] = b4 /\ s[10] = c
           /\ DOMAIN t = 1 .. 10
           /\ t[1] = a1 /\ t[2] = a2 /\ t[3] = a3 /\ t[4] = a4 /\ t[5] = a5
           /\ t[6] = c /\ t[7] = b1 /\ t[8] = b2 /\ t[9] = b3 /\ t[10] = b4
<1>1. s \in Seq(S) /\ Len(s) = 10 /\ t \in Seq(S) /\ Len(t) = 10
  OBVIOUS
<1>2. DOMAIN s = 1 .. 10 /\ DOMAIN t = 1 .. 10
  BY <1>1
<1>3. /\ s[1] = a1 /\ s[2] = a2 /\ s[3] = a3 /\ s[4] = a4 /\ s[5] = a5
      /\ s[6] = b1 /\ s[7] = b2 /\ s[8] = b3 /\ s[9] = b4 /\ s[10] = c
  OBVIOUS
<1>4. /\ t[1] = a1 /\ t[2] = a2 /\ t[3] = a3 /\ t[4] = a4 /\ t[5] = a5
      /\ t[6] = c /\ t[7] = b1 /\ t[8] = b2 /\ t[9] = b3 /\ t[10] = b4
  OBVIOUS
<1> QED
  BY <1>2, <1>3, <1>4

\* The ten checks of an acceptance, as statements.
AcceptHolds(u, i) ==
    /\ open
    /\ invitation[i].status # "revoked" /\ invitation[i].status # "accepted"
    /\ ~invitation[i].expired
    /\ invitation[i].email = u
    /\ LET r == invitation[i].resource
           staff == invitation[i].role = "staff"
       IN  /\ staff => r \in DOMAIN resource
           /\ staff /\ r \in DOMAIN resource => resource[r].active
           /\ staff /\ r \in DOMAIN resource => resource[r].user = None
           /\ staff => LinkedTo(u) = {}
    /\ u \notin DOMAIN member

\* Acceptance succeeds exactly when all checks hold, and fails with the reason
\* of a membership only if the invitation is open; the preview, which checks
\* in another order, gives the same answer.
LEMMA ReasonFacts ==
    ASSUME TablesTyped, NEW u \in Users, NEW i \in DOMAIN invitation
    PROVE  /\ AcceptReason(u, i) = "ok" <=> AcceptHolds(u, i)
           /\ AcceptReason(u, i) = "already_member" => invitation[i].status = "open"
           /\ PreviewStatus(PreviewReason(u, i)) = AcceptStatus(AcceptReason(u, i))
<1> DEFINE r == invitation[i].resource
           staff == invitation[i].role = "staff"
           a1 == Check(open, "organization_closed")
           a2 == Check(invitation[i].status # "revoked", "invitation_revoked")
           a3 == Check(invitation[i].status # "accepted", "invitation_already_accepted")
           a4 == Check(~invitation[i].expired, "invitation_expired")
           a5 == Check(invitation[i].email = u, "email_mismatch")
           b1 == Check(staff => r \in DOMAIN resource, "resource_not_found")
           b2 == Check(staff /\ r \in DOMAIN resource => resource[r].active,
                       "resource_deactivated")
           b3 == Check(staff /\ r \in DOMAIN resource => resource[r].user = None,
                       "resource_already_linked")
           b4 == Check(staff => LinkedTo(u) = {}, "user_resource_already_linked")
           c  == Check(u \notin DOMAIN member, "already_member")
           s  == <<a1, a2, a3, a4, a5>> \o <<b1, b2, b3, b4>> \o <<c>>
           t  == <<a1, a2, a3, a4, a5>> \o <<c>> \o <<b1, b2, b3, b4>>
<1>1. AcceptReason(u, i) = FirstReason(s) /\ PreviewReason(u, i) = FirstReason(t)
  BY DEF AcceptReason, PreviewReason, InvitationChecks, TargetChecks, NoMember
<1>2. /\ open \in BOOLEAN /\ invitation[i].expired \in BOOLEAN
      /\ invitation[i].status \in {"open", "accepted", "revoked"}
      /\ \A q \in DOMAIN resource : resource[q].active \in BOOLEAN
  BY DEF TablesTyped, Invitation, Resource
<1>4. /\ a1.holds <=> open
      /\ a2.holds <=> invitation[i].status # "revoked"
      /\ a3.holds <=> invitation[i].status # "accepted"
      /\ a4.holds <=> ~invitation[i].expired
      /\ a5.holds <=> invitation[i].email = u
      /\ b1.holds <=> (staff => r \in DOMAIN resource)
      /\ b2.holds <=> (staff /\ r \in DOMAIN resource => resource[r].active)
      /\ b3.holds <=> (staff /\ r \in DOMAIN resource => resource[r].user = None)
      /\ b4.holds <=> (staff => LinkedTo(u) = {})
      /\ c.holds <=> u \notin DOMAIN member
  BY <1>2 DEF Check
<1>5. /\ a1.reason = "organization_closed" /\ a2.reason = "invitation_revoked"
      /\ a3.reason = "invitation_already_accepted" /\ a4.reason = "invitation_expired"
      /\ a5.reason = "email_mismatch" /\ b1.reason = "resource_not_found"
      /\ b2.reason = "resource_deactivated" /\ b3.reason = "resource_already_linked"
      /\ b4.reason = "user_resource_already_linked" /\ c.reason = "already_member"
  BY DEF Check
<1> HIDE DEF a1, a2, a3, a4, a5, b1, b2, b3, b4, c
<1>6. /\ DOMAIN s = 1 .. 10
      /\ s[1] = a1 /\ s[2] = a2 /\ s[3] = a3 /\ s[4] = a4 /\ s[5] = a5
      /\ s[6] = b1 /\ s[7] = b2 /\ s[8] = b3 /\ s[9] = b4 /\ s[10] = c
      /\ DOMAIN t = 1 .. 10
      /\ t[1] = a1 /\ t[2] = a2 /\ t[3] = a3 /\ t[4] = a4 /\ t[5] = a5
      /\ t[6] = c /\ t[7] = b1 /\ t[8] = b2 /\ t[9] = b3 /\ t[10] = b4
  <2> DEFINE S == {a1, a2, a3, a4, a5, b1, b2, b3, b4, c}
  <2> HIDE DEF s, t
  <2>1. s = <<a1, a2, a3, a4, a5>> \o <<b1, b2, b3, b4>> \o <<c>>
        /\ t = <<a1, a2, a3, a4, a5>> \o <<c>> \o <<b1, b2, b3, b4>>
    BY DEF s, t
  <2>2. /\ a1 \in S /\ a2 \in S /\ a3 \in S /\ a4 \in S /\ a5 \in S
        /\ b1 \in S /\ b2 \in S /\ b3 \in S /\ b4 \in S /\ c \in S
    OBVIOUS
  <2> HIDE DEF S
  <2> QED
    BY <2>1, <2>2, JoinedChecks
<1> HIDE DEF s, t
<1>7. /\ (\A k \in 1 .. 10 : s[k].holds) <=> AcceptHolds(u, i)
      /\ (\A k \in 1 .. 10 : t[k].holds) <=> AcceptHolds(u, i)
  <2>1. AcceptHolds(u, i) <=>
          /\ a1.holds /\ a2.holds /\ a3.holds /\ a4.holds /\ a5.holds
          /\ b1.holds /\ b2.holds /\ b3.holds /\ b4.holds /\ c.holds
    BY <1>4 DEF AcceptHolds
  <2>2. (\A k \in 1 .. 10 : s[k].holds) <=>
          /\ a1.holds /\ a2.holds /\ a3.holds /\ a4.holds /\ a5.holds
          /\ b1.holds /\ b2.holds /\ b3.holds /\ b4.holds /\ c.holds
    BY <1>6
  <2>3. (\A k \in 1 .. 10 : t[k].holds) <=>
          /\ a1.holds /\ a2.holds /\ a3.holds /\ a4.holds /\ a5.holds
          /\ b1.holds /\ b2.holds /\ b3.holds /\ b4.holds /\ c.holds
    BY <1>6
  <2> QED
    BY <2>1, <2>2, <2>3
<1>8. /\ \A k \in 1 .. 10 : s[k].reason # "ok"
      /\ \A k \in 1 .. 10 : t[k].reason # "ok"
      /\ \A k \in 1 .. 9 : s[k].reason # "already_member"
  BY <1>5, <1>6
<1>9. /\ FirstReason(s) = "ok" <=> AcceptHolds(u, i)
      /\ FirstReason(t) = "ok" <=> AcceptHolds(u, i)
  <2>1. 10 \in Nat /\ DOMAIN s = 1 .. 10 /\ DOMAIN t = 1 .. 10
    BY <1>6
  <2>2. FirstReason(s) = "ok" <=> \A k \in 1 .. 10 : s[k].holds
    BY <1>8, <2>1, FirstReasonOfChecks
  <2>3. FirstReason(t) = "ok" <=> \A k \in 1 .. 10 : t[k].holds
    BY <1>8, <2>1, FirstReasonOfChecks
  <2> QED
    BY <1>7, <2>2, <2>3
<1>10. CASE AcceptHolds(u, i)
  BY <1>1, <1>2, <1>9, <1>10 DEF PreviewStatus, AcceptStatus
<1>11. CASE ~AcceptHolds(u, i)
  <2>1. 10 \in Nat /\ DOMAIN s = 1 .. 10 /\ DOMAIN t = 1 .. 10
    BY <1>6
  <2>2. PICK k \in 1 .. 10 :
          /\ ~s[k].holds
          /\ \A l \in 1 .. (k - 1) : s[l].holds
          /\ FirstReason(s) = s[k].reason
    BY <1>7, <1>8, <1>11, <2>1, FirstReasonOfChecks
  <2>3. PICK m \in 1 .. 10 :
          /\ ~t[m].holds
          /\ \A l \in 1 .. (m - 1) : t[l].holds
          /\ FirstReason(t) = t[m].reason
    <3>1. ~(\A l \in 1 .. 10 : t[l].holds) /\ \A l \in 1 .. 10 : t[l].reason # "ok"
      BY <1>7, <1>8, <1>11
    <3> QED
      BY <2>1, <3>1, FirstReasonOfChecks
  <2>4. \A l \in 1 .. 5 : s[l] = t[l]
    BY <1>6
  <2>5. FirstReason(s) = "already_member" => invitation[i].status = "open"
    <3>1. SUFFICES ASSUME FirstReason(s) = "already_member"
                   PROVE  invitation[i].status = "open"
      OBVIOUS
    <3>2. k = 10
      <4>1. \A l \in 1 .. 9 : s[l].reason # "already_member"
        BY <1>8
      <4>2. s[k].reason = "already_member"
        BY <2>2, <3>1
      <4>3. k \notin 1 .. 9
        BY <4>1, <4>2
      <4> QED
        BY <4>3
    <3>3. s[2].holds /\ s[3].holds
      BY <2>2, <3>2
    <3> QED
      BY <1>2, <1>4, <1>6, <3>3
  <2>6. CASE k <= 5
    <3>1. ~(m < k)
      BY <2>2, <2>3, <2>4, <2>6
    <3>2. ~(k < m)
      BY <2>2, <2>3, <2>4, <2>6
    <3>3. FirstReason(t) = FirstReason(s)
      BY <2>2, <2>3, <2>4, <2>6, <3>1, <3>2
    <3> QED
      BY <1>1, <1>9, <1>11, <2>5, <3>3 DEF PreviewStatus, AcceptStatus
  <2>7. CASE ~(k <= 5)
    <3>1. ~(m <= 5)
      BY <2>2, <2>3, <2>4, <2>7
    <3> DEFINE late == {"resource_not_found", "resource_deactivated", "resource_already_linked",
                        "user_resource_already_linked", "already_member"}
    <3>2. FirstReason(s) \in late
      BY <1>5, <1>6, <2>2, <2>7
    <3>3. FirstReason(t) \in late
      BY <1>5, <1>6, <2>3, <3>1
    <3>4. AcceptStatus(FirstReason(s)) = 409 /\ PreviewStatus(FirstReason(t)) = 409
      BY <3>2, <3>3 DEF PreviewStatus, AcceptStatus
    <3> QED
      BY <1>1, <1>9, <1>11, <2>5, <3>4
  <2> QED
    BY <2>6, <2>7
<1> QED
  BY <1>10, <1>11

\* An acceptance that passes found its invitation open and all conditions met.
LEMMA AcceptFacts ==
    ASSUME TablesTyped, NEW i \in Invitations, NEW u \in Users,
           AcceptOrganizationInvitation(u, i)
    PROVE  i \in DOMAIN invitation /\ AcceptHolds(u, i) /\ invitation[i].status = "open"
<1>1. AcceptReason(u, i) = "ok"
  BY DEF AcceptOrganizationInvitation
<1>2. i \in DOMAIN invitation
  BY <1>1 DEF AcceptReason
<1>3. AcceptHolds(u, i)
  BY <1>1, <1>2, ReasonFacts
<1> QED
  BY <1>2, <1>3 DEF AcceptHolds, TablesTyped, Invitation

\* Acceptance makes a member of somebody who was none, and links one resource
\* that nobody else was promised.
LEMMA AcceptKeeps ==
    ASSUME IInv, NEW i \in Invitations, NEW u \in Users,
           AcceptOrganizationInvitation(u, i)
    PROVE  IInv'
<1> DEFINE role == invitation[i].role
           r == invitation[i].resource
<1>1. /\ member' = [v \in DOMAIN member \cup {u} |-> IF v = u THEN role ELSE member[v]]
      /\ resource' = [s \in DOMAIN resource |->
                         IF s = r THEN [resource[s] EXCEPT !.user = u] ELSE resource[s]]
      /\ invitation' = [invitation EXCEPT ![i].status = "accepted"]
      /\ UNCHANGED <<mail, booked, open, op>>
  BY DEF AcceptOrganizationInvitation
<1>2. Tables /\ RequestsHoldRows /\ AlwaysOwned
  BY DEF IInv, Tables
<1>3. i \in DOMAIN invitation /\ AcceptHolds(u, i) /\ invitation[i].status = "open"
  BY <1>2, AcceptFacts DEF Tables
<1>4. role \in Role /\ u \notin DOMAIN member
      /\ (role = "staff" => r \in DOMAIN resource /\ LinkedTo(u) = {})
      /\ (role # "staff" => r = None)
  BY <1>2, <1>3 DEF AcceptHolds, Tables, TablesTyped, Invitation
<1> HIDE DEF role, r
<1>5. /\ DOMAIN member' = DOMAIN member \cup {u}
      /\ member' \in [DOMAIN member' -> Role]
      /\ \A v \in DOMAIN member : member'[v] = member[v]
  BY <1>1, <1>2, <1>4 DEF Tables, TablesTyped
<1>6. /\ DOMAIN resource' = DOMAIN resource
      /\ resource' \in [DOMAIN resource -> Resource]
      /\ \A s \in DOMAIN resource :
            resource'[s].user = IF s = r THEN u ELSE resource[s].user
  BY <1>1, <1>2 DEF Tables, TablesTyped, Resource
<1>7. /\ KeepsInvitations
      /\ invitation'[i].status = "accepted"
  BY <1>1, <1>2, <1>3 DEF Tables, TablesTyped, Invitation, KeepsInvitations
<1>8. TablesTyped'
  <2>1. \A j \in DOMAIN invitation' :
          IF invitation'[j].role = "staff" THEN invitation'[j].resource \in DOMAIN resource'
                                           ELSE invitation'[j].resource = None
    BY <1>2, <1>6, <1>7 DEF Tables, TablesTyped, KeepsInvitations
  <2> QED
    BY <1>1, <1>2, <1>5, <1>6, <1>7, <2>1 DEF Tables, TablesTyped, KeepsInvitations
<1>9. LinksFollowMembers'
  <2>1. \A s \in DOMAIN resource : resource'[s].user \in DOMAIN member' \cup {None}
    BY <1>2, <1>5, <1>6 DEF Tables, LinksFollowMembers
  <2>2. r \in DOMAIN resource => \A s \in DOMAIN resource : resource[s].user # u
    BY <1>2, <1>4 DEF LinkedTo, Tables, TablesTyped
  <2>3. \A q, s \in DOMAIN resource :
          resource'[q].user = resource'[s].user /\ resource'[q].user # None => q = s
    BY <1>2, <1>6, <2>2 DEF Tables, LinksFollowMembers
  <2> QED
    BY <1>6, <2>1, <2>3 DEF LinksFollowMembers
<1>10. OneOpenInvitation'
  BY <1>2, <1>7, KeptInvitationsStayUnique DEF Tables
<1>11. PromisedResourceUnlinked'
  <2> SUFFICES ASSUME NEW j \in DOMAIN invitation',
                      invitation'[j].status = "open", invitation'[j].resource # None
               PROVE  resource'[invitation'[j].resource].user = None
    BY DEF PromisedResourceUnlinked, Pending
  <2>1. /\ j \in DOMAIN invitation /\ invitation[j].status = "open" /\ j # i
        /\ invitation'[j].resource = invitation[j].resource
    BY <1>7 DEF KeepsInvitations
  <2>2. invitation[j].resource # r
    BY <1>2, <1>3, <2>1 DEF r, Tables, OneOpenInvitation, Pending
  <2>3. invitation[j].resource \in DOMAIN resource
        /\ resource[invitation[j].resource].user = None
    BY <1>2, <2>1 DEF Tables, TablesTyped, PromisedResourceUnlinked, Pending
  <2> QED
    BY <1>6, <2>1, <2>2, <2>3
<1>12. RequestsHoldRows'
  <2>1. op' = op
    BY <1>1
  <2>2. RequestsTyped'
    BY <1>2, <1>5, <2>1 DEF RequestsHoldRows, RequestsTyped
  <2>3. RequestRecords' /\ RowsHeldOnce'
    BY <1>2, <2>1 DEF RequestsHoldRows, RequestRecords, RowsHeldOnce
  <2> QED
    BY <2>2, <2>3 DEF RequestsHoldRows
<1>13. AlwaysOwned'
  BY <1>2, <1>5 DEF AlwaysOwned, OwnersOf
<1> QED
  BY <1>8, <1>9, <1>10, <1>11, <1>12, <1>13 DEF IInv

-----------------------------------------------------------------------------
(* Steps outside the requests.                                             *)

\* A step outside the requests that leaves members, resources and operations alone
\* keeps the invariant.
LEMMA QuietOutsideKeeps ==
    ASSUME IInv, UNCHANGED <<member, resource, op>>, KeepsInvitations,
           mail' \in [DOMAIN invitation -> {"sending", "sent", "failed", "undelivered"}],
           booked' \subseteq DOMAIN resource, open' \in BOOLEAN
    PROVE  IInv'
<1>1. Tables'
  BY StillTablesAreQuiet, QuietStepKeepsTables DEF IInv, Tables
<1>2. RequestsHoldRows'
  BY DEF IInv, RequestsHoldRows, RequestsTyped, RequestRecords, RowsHeldOnce
<1>3. AlwaysOwned'
  BY DEF IInv, AlwaysOwned, OwnersOf
<1> QED
  BY <1>1, <1>2, <1>3 DEF IInv, Tables

\* So do the delivery of an invitation, the revocation of one that could not be
\* delivered, and expiry,
LEMMA InvitationEventKeeps ==
    ASSUME IInv, NEW i \in DOMAIN invitation,
           DeliverInvitation(i) \/ RevokeInvitationAfterDeliveryFailure(i) \/ Expire(i)
    PROVE  IInv'
<1>1. TablesTyped
  BY DEF IInv
<1>2. CASE DeliverInvitation(i)
  <2>1. PICK outcome \in {"sent", "failed"} : mail' = [mail EXCEPT ![i] = outcome]
    BY <1>2 DEF DeliverInvitation
  <2>2. mail' \in [DOMAIN invitation -> {"sending", "sent", "failed", "undelivered"}]
    BY <1>1, <2>1 DEF TablesTyped
  <2> QED
    BY <1>1, <1>2, <2>2, UnchangedInvitationsAreKept, QuietOutsideKeeps
    DEF DeliverInvitation, TablesTyped
<1>3. CASE RevokeInvitationAfterDeliveryFailure(i)
  <2>1. mail' \in [DOMAIN invitation -> {"sending", "sent", "failed", "undelivered"}]
    BY <1>1, <1>3 DEF TablesTyped, RevokeInvitationAfterDeliveryFailure
  <2>2. KeepsInvitations
    BY <1>1, <1>3, ClosedInvitationsAreKept DEF RevokeInvitationAfterDeliveryFailure
  <2> QED
    BY <1>1, <1>3, <2>1, <2>2, QuietOutsideKeeps
    DEF RevokeInvitationAfterDeliveryFailure, TablesTyped
<1>4. CASE Expire(i)
  <2>1. KeepsInvitations
    <3>1. /\ invitation' = [invitation EXCEPT ![i].expired = TRUE]
          /\ invitation \in [DOMAIN invitation -> Invitation]
      BY <1>1, <1>4 DEF Expire, TablesTyped
    <3> QED
      BY <3>1 DEF KeepsInvitations, Invitation
  <2> QED
    BY <1>1, <1>4, <2>1, QuietOutsideKeeps DEF Expire, TablesTyped
<1> QED
  BY <1>2, <1>3, <1>4

\* and so do the closing of useless invitations, bookings and the life of the
\* organization.
LEMMA OtherEventKeeps ==
    ASSUME IInv, \/ \E i \in Invitations, u \in Users : CloseUselessInvitation(u, i)
                 \/ \E r \in DOMAIN resource : Book(r)
                 \/ ChangeOrganization
    PROVE  IInv'
<1>1. TablesTyped
  BY DEF IInv
<1>2. CASE \E i \in Invitations, u \in Users : CloseUselessInvitation(u, i)
  BY <1>1, <1>2, ClosedInvitationsAreKept, QuietOutsideKeeps
  DEF CloseUselessInvitation, TablesTyped
<1>3. CASE \E r \in DOMAIN resource : Book(r)
  BY <1>1, <1>3, UnchangedInvitationsAreKept, QuietOutsideKeeps DEF Book, TablesTyped
<1>4. CASE ChangeOrganization
  BY <1>1, <1>4, UnchangedInvitationsAreKept, QuietOutsideKeeps
  DEF ChangeOrganization, TablesTyped
<1> QED
  BY <1>2, <1>3, <1>4

\* A request that reads or locks rows changes no table.
LEMMA RequestStepKeeps ==
    ASSUME IInv, UNCHANGED <<member, resource, invitation, mail, booked, open>>,
           RequestsHoldRows'
    PROVE  IInv'
  BY DEF IInv, TablesTyped, AlwaysOwned, OwnersOf, LinksFollowMembers,
         OneOpenInvitation, PromisedResourceUnlinked, Pending

-----------------------------------------------------------------------------
(* The invariant.                                                          *)

\* The tables an organization is provisioned with satisfy the invariant.
LEMMA InitIInv == Init => IInv
<1> SUFFICES ASSUME Init PROVE IInv
  OBVIOUS
<1>1. /\ DOMAIN member = {Owner} /\ member[Owner] = "owner" /\ member \in [{Owner} -> Role]
      /\ DOMAIN resource = {} /\ DOMAIN invitation = {} /\ DOMAIN mail = {}
      /\ booked = {} /\ open = TRUE
      /\ op = [p \in Requests |-> Idle]
  BY DEF Init, Role
<1>2. TablesTyped
  BY <1>1 DEF Init, TablesTyped
<1>3. \A p \in Requests :
        op[p].scope = "none" /\ op[p].actor = None /\ op[p].todo = {} /\ DOMAIN op[p].seen = {}
  BY <1>1 DEF Idle
<1>4. RequestsHoldRows
  BY <1>1, <1>3, IdleIsRequest
  DEF RequestsHoldRows, RequestsTyped, RequestRecords, RowsHeldOnce
<1>5. AlwaysOwned
  BY <1>1 DEF AlwaysOwned, OwnersOf
<1> QED
  BY <1>1, <1>2, <1>4, <1>5
  DEF IInv, LinksFollowMembers, OneOpenInvitation, PromisedResourceUnlinked

\* Every operation that commits keeps the invariant, one case for each operation.
LEMMA FinishKeepsIInv ==
    ASSUME IInv, NEW p \in Requests, Finish(p)
    PROVE  IInv'
<1>1. CASE Refuse(p)
  BY <1>1, PlainEndKeepsRequests, RequestStepKeeps DEF Refuse, IInv
<1>2. CASE \E u \in Users : RemoveOrganizationMember(p, u)
  BY <1>2, RemovalKeeps
<1>3. CASE \E u \in Users, role \in Role : UpdateOrganizationMemberRole(p, u, role)
  BY <1>3, UpdateRoleKeeps
<1>4. CASE LeaveOrganization(p)
  BY <1>4, DepartureKeeps
<1>5. CASE \E r \in Resources : CreateResource(p, r)
  BY <1>5, CreateResourceKeeps
<1>6. CASE \E r \in Resources : DeleteResource(p, r)
  BY <1>6, DeleteResourceKeeps
<1>7. CASE \E r \in Resources : UnlinkResource(p, r)
  BY <1>7, UnlinkResourceKeeps
<1>8. CASE \E r \in Resources : DeactivateResource(p, r) \/ ReactivateResource(p, r)
  BY <1>8, SetResourceActiveKeeps DEF DeactivateResource, ReactivateResource
<1>9. CASE \E r \in Resources, u \in Users : LinkResourceToMember(p, r, u)
  BY <1>9, LinkKeeps
<1>10. CASE \E i \in Invitations : RevokeOrganizationInvitation(p, i)
  BY <1>10, RevokeInvitationKeeps
<1>11. CASE \E i \in Invitations, u \in Users, role \in Role, r \in Resources \cup {None} :
              CreateOrganizationInvitation(p, i, u, role, r)
  BY <1>11, CreateInvitationKeeps
<1>12. CASE \E u \in Users, role \in Role, r \in Resources \cup {None} :
              RefuseInvitation(p, u, role, r)
  BY <1>12, RefuseInvitationKeeps
<1> QED
  BY <1>1, <1>2, <1>3, <1>4, <1>5, <1>6, <1>7, <1>8, <1>9, <1>10, <1>11, <1>12 DEF Finish

\* Every step keeps the invariant.
LEMMA NextKeepsIInv ==
    ASSUME IInv, [Next]_vars
    PROVE  IInv'
<1>1. CASE \E p \in Requests, u \in Users, scope \in {"own", "all"} :
              ReadMemberships(p, u, scope)
  BY <1>1, ReadKeepsRequests, RequestStepKeeps DEF ReadMemberships, IInv
<1>2. CASE \E p \in Requests : LockMembership(p)
  BY <1>2, LockKeepsRequests, RequestStepKeeps DEF LockMembership, IInv
<1>3. CASE \E p \in Requests : Finish(p)
  BY <1>3, FinishKeepsIInv
<1>4. CASE \E i \in DOMAIN invitation :
              DeliverInvitation(i) \/ RevokeInvitationAfterDeliveryFailure(i) \/ Expire(i)
  BY <1>4, InvitationEventKeeps
<1>5. CASE \E i \in Invitations, u \in Users : AcceptOrganizationInvitation(u, i)
  BY <1>5, AcceptKeeps
<1>6. CASE \/ \E i \in Invitations, u \in Users : CloseUselessInvitation(u, i)
           \/ \E r \in DOMAIN resource : Book(r)
           \/ ChangeOrganization
  BY <1>6, OtherEventKeeps
<1>7. CASE UNCHANGED vars
  <2>1. RequestsHoldRows'
    BY <1>7 DEF vars, IInv, RequestsHoldRows, RequestsTyped, RequestRecords, RowsHeldOnce
  <2> QED
    BY <1>7, <2>1, RequestStepKeeps DEF vars
<1> QED
  BY <1>1, <1>2, <1>3, <1>4, <1>5, <1>6, <1>7 DEF Next

\* The inductive invariant the other theorems follow from.
THEOREM Invariance == Spec => []IInv
<1>1. Init => IInv
  BY InitIInv
<1>2. IInv /\ [Next]_vars => IInv'
  BY NextKeepsIInv
<1> QED
  BY <1>1, <1>2, PTL DEF Spec

\* The organization always has an owner, however demotions, removals and
\* departures race.
THEOREM OrganizationStaysOwned == Spec => []AlwaysOwned
  BY Invariance, PTL DEF IInv

-----------------------------------------------------------------------------
(* What is shown.                                                          *)

\* The preview of an invitation answers with the status acceptance would answer with.
LEMMA PreviewsAgree ==
    ASSUME TablesTyped
    PROVE  PreviewAnswersLikeAcceptance
<1> SUFFICES ASSUME NEW u \in Users, NEW i \in Invitations
             PROVE  PreviewStatus(PreviewReason(u, i)) = AcceptStatus(AcceptReason(u, i))
  BY DEF PreviewAnswersLikeAcceptance
<1>1. CASE i \in DOMAIN invitation
  BY <1>1, ReasonFacts
<1>2. CASE i \notin DOMAIN invitation
  <2>1. PreviewReason(u, i) = "invitation_not_found" /\ AcceptReason(u, i) = "invitation_not_found"
    BY <1>2 DEF PreviewReason, AcceptReason
  <2> QED
    BY <2>1 DEF PreviewStatus, AcceptStatus
<1> QED
  BY <1>1, <1>2

\* A candidate has no link but to the resource asked about, which is free.
LEMMA CandidatesAreLinkable ==
    ASSUME Tables, NEW u \in DOMAIN member, NEW r \in DOMAIN resource,
           member[u] # "staff", resource[r].active, resource[r].user = None, ~LinkPending(r)
    PROVE  LinkCandidates(u, r) =
              {t \in DOMAIN member : Manages(member[u], member[t]) /\ Linkable(r, t)}
<1>1. \A t \in DOMAIN member : t # None
  BY DEF Tables, TablesTyped
<1>2. \A t \in DOMAIN member : LinkedTo(t) \subseteq {r} <=> LinkedTo(t) = {}
  BY <1>1 DEF LinkedTo
<1>3. \A i \in PendingFor(r) : invitation[i].expired
  BY DEF LinkPending
<1>4. \A t \in DOMAIN member : Linkable(r, t) <=> LinkedTo(t) = {}
  BY <1>3 DEF Linkable
<1>5. member[u] \in {"owner", "manager"}
  BY DEF Tables, TablesTyped, Role
<1> QED
  BY <1>1, <1>2, <1>4, <1>5 DEF LinkCandidates, Manages

\* The lists a member is shown offer what the operations behind them then allow.
LEMMA ListsAgree ==
    ASSUME Tables
    PROVE  ListsMatchRights
<1>1. \A u \in DOMAIN member : member[u] \in Role
  BY DEF Tables, TablesTyped
<1> SUFFICES ASSUME NEW u \in DOMAIN member
             PROVE
               /\ \A r \in DOMAIN resource :
                     member[u] # "staff" /\ resource[r].active /\ resource[r].user = None
                     /\ ~LinkPending(r)
                     => LinkCandidates(u, r) =
                           {t \in DOMAIN member : Manages(member[u], member[t]) /\ Linkable(r, t)}
               /\ \A r \in DOMAIN resource :
                     member[u] # "staff" /\ resource[r].user # None
                     => LinkManageable(u, r) = Manages(member[u], member[resource[r].user])
               /\ member[u] # "staff"
                  => ListedInvitations(u) =
                        {i \in DOMAIN invitation :
                            Pending(i) /\ Manages(member[u], invitation[i].role)}
               /\ ManageableMembers(u) = {t \in DOMAIN member : Manages(member[u], member[t])}
  BY DEF ListsMatchRights
<1>2. ASSUME NEW r \in DOMAIN resource, member[u] # "staff", resource[r].user # None
      PROVE  LinkManageable(u, r) = Manages(member[u], member[resource[r].user])
  <2>1. CASE member[u] = "owner"
    BY <2>1 DEF LinkManageable, Manages
  <2>2. CASE member[u] = "manager"
    BY <2>2 DEF LinkManageable, Manages
  <2> QED
    BY <1>1, <1>2, <2>1, <2>2 DEF Role
<1>3. ASSUME member[u] # "staff"
      PROVE  ListedInvitations(u) =
                {i \in DOMAIN invitation : Pending(i) /\ Manages(member[u], invitation[i].role)}
  <2>1. member[u] \in {"owner", "manager"}
    BY <1>1, <1>3 DEF Role
  <2> QED
    BY <2>1 DEF ListedInvitations, Manages
<1>4. ManageableMembers(u) = {t \in DOMAIN member : Manages(member[u], member[t])}
  BY DEF ManageableMembers, Manages
<1> QED
  BY <1>2, <1>3, <1>4, CandidatesAreLinkable

\* The tables of a team agree, and what is shown agrees with what is allowed.
THEOREM TeamStaysConsistent == Spec => []TeamConsistent
<1>1. IInv => TeamConsistent
  BY TypedInParts, PreviewsAgree, ListsAgree DEF IInv, Tables, RequestsHoldRows, TeamConsistent
<1> QED
  BY <1>1, Invariance, PTL

-----------------------------------------------------------------------------
(* What a step may not do.                                                 *)

\* An invitation that is not open is left alone by every step.
LEMMA SettledInvitationsKept ==
    ASSUME IInv, [Next]_vars, NEW i \in DOMAIN invitation, ~Pending(i)
    PROVE  invitation'[i].status = invitation[i].status
<1>1. TablesTyped
  BY DEF IInv
<1>2. ASSUME NEW S, invitation' = Close(S), i \notin S
      PROVE  invitation'[i].status = invitation[i].status
  BY <1>1, <1>2, CloseFacts
<1>3. CASE UNCHANGED invitation
  BY <1>3
<1>4. CASE \E p \in Requests, r \in Resources, u \in Users : LinkResourceToMember(p, r, u)
  BY <1>2, <1>4 DEF LinkResourceToMember, PendingFor
<1>5. CASE \E p \in Requests, j \in Invitations : RevokeOrganizationInvitation(p, j)
  <2>1. PICK p \in Requests, j \in Invitations : RevokeOrganizationInvitation(p, j)
    BY <1>5
  <2>2. i \notin {j} /\ invitation' = Close({j})
    BY <2>1 DEF RevokeOrganizationInvitation
  <2> QED
    BY <1>2, <2>2
<1>6. CASE \E p \in Requests, j \in Invitations, u \in Users, role \in Role,
             r \in Resources \cup {None} : CreateOrganizationInvitation(p, j, u, role, r)
  <2>1. PICK p \in Requests, j \in Invitations, u \in Users, role \in Role,
             r \in Resources \cup {None} : CreateOrganizationInvitation(p, j, u, role, r)
    BY <1>6
  <2>2. j \notin DOMAIN invitation /\ invitation'[i] = Close(InTheWay(u, r))[i]
    BY <2>1 DEF CreateOrganizationInvitation
  <2>3. i \notin InTheWay(u, r)
    BY DEF InTheWay, PendingTo, PendingFor
  <2> QED
    BY <1>1, <2>2, <2>3, CloseFacts
<1>7. CASE \E j \in DOMAIN invitation : RevokeInvitationAfterDeliveryFailure(j)
  <2>1. PICK j \in DOMAIN invitation : RevokeInvitationAfterDeliveryFailure(j)
    BY <1>7
  <2> DEFINE S == {j} \cap {k \in DOMAIN invitation : Pending(k)}
  <2>2. i \notin S /\ invitation' = Close(S)
    BY <2>1 DEF RevokeInvitationAfterDeliveryFailure
  <2> QED
    BY <1>2, <2>2
<1>8. CASE \E j \in DOMAIN invitation : Expire(j)
  <2>1. PICK j \in DOMAIN invitation : invitation' = [invitation EXCEPT ![j].expired = TRUE]
    BY <1>8 DEF Expire
  <2>2. invitation \in [DOMAIN invitation -> Invitation]
    BY <1>1 DEF TablesTyped
  <2> QED
    BY <2>1, <2>2 DEF Invitation
<1>9. CASE \E j \in Invitations, u \in Users : AcceptOrganizationInvitation(u, j)
  <2>1. PICK j \in Invitations, u \in Users : AcceptOrganizationInvitation(u, j)
    BY <1>9
  <2>2. j # i /\ invitation' = [invitation EXCEPT ![j].status = "accepted"]
    BY <1>1, <2>1, AcceptFacts DEF Pending, AcceptOrganizationInvitation
  <2> QED
    BY <2>2
<1>10. CASE \E j \in Invitations, u \in Users : CloseUselessInvitation(u, j)
  <2>1. PICK j \in Invitations, u \in Users : CloseUselessInvitation(u, j)
    BY <1>10
  <2>2. AcceptReason(u, j) = "already_member" /\ invitation' = Close({j})
    BY <2>1 DEF CloseUselessInvitation
  <2>3. j \in DOMAIN invitation /\ invitation[j].status = "open"
    BY <1>1, <2>2, ReasonFacts DEF AcceptReason
  <2>4. i \notin {j}
    BY <2>3 DEF Pending
  <2> QED
    BY <1>2, <2>2, <2>4
<1>11. CASE \E p \in Requests, u \in Users, role \in Role, r \in Resources \cup {None} :
               RefuseInvitation(p, u, role, r)
  BY <1>2, <1>11 DEF RefuseInvitation, PendingTo
<1>12. ASSUME Next,
              ~\E p \in Requests, r \in Resources, u \in Users : LinkResourceToMember(p, r, u),
              ~\E p \in Requests, j \in Invitations : RevokeOrganizationInvitation(p, j),
              ~\E p \in Requests, j \in Invitations, u \in Users, role \in Role,
                 r \in Resources \cup {None} : CreateOrganizationInvitation(p, j, u, role, r),
              ~\E p \in Requests, u \in Users, role \in Role, r \in Resources \cup {None} :
                 RefuseInvitation(p, u, role, r),
              ~\E j \in DOMAIN invitation : RevokeInvitationAfterDeliveryFailure(j),
              ~\E j \in DOMAIN invitation : Expire(j),
              ~\E j \in Invitations, u \in Users : AcceptOrganizationInvitation(u, j),
              ~\E j \in Invitations, u \in Users : CloseUselessInvitation(u, j)
       PROVE  UNCHANGED invitation
  <2>1. CASE \E p \in Requests : Finish(p)
    BY <1>12, <2>1
    DEF Finish, Refuse, RemoveOrganizationMember, LeaveOrganization, DropMember,
        UpdateOrganizationMemberRole, CreateResource, DeleteResource, UnlinkResource,
        DeactivateResource, ReactivateResource, SetResourceActive
  <2> QED
    BY <1>12, <2>1
    DEF Next, ReadMemberships, LockMembership, DeliverInvitation, Book, ChangeOrganization
<1> QED
  BY <1>3, <1>4, <1>5, <1>6, <1>7, <1>8, <1>9, <1>10, <1>11, <1>12 DEF vars

\* An invitation is accepted or revoked once and stays so.
THEOREM InvitationsSettleOnce == Spec => SettledInvitationsFinal
<1>1. IInv /\ [Next]_vars =>
        [\A i \in DOMAIN invitation :
            ~Pending(i) => invitation'[i].status = invitation[i].status]_vars
  BY SettledInvitationsKept
<1> QED
  BY <1>1, Invariance, PTL DEF Spec, SettledInvitationsFinal

\* Who the request p of a step is, when the step takes a role or a membership.
LEMMA ActorIsMember ==
    ASSUME IInv, NEW p \in Requests, End(p) \/ \E gone : EndWithout(p, gone),
           op[p].scope # "none", op[p].actor \in DOMAIN op[p].seen
    PROVE  /\ op[p] # op'[p]
           /\ op[p].actor \in DOMAIN member
           /\ op[p].seen[op[p].actor] = member[op[p].actor]
<1>1. op'[p] = Idle
  BY DEF End, EndWithout
<1>2. op'[p].scope = "none"
  BY <1>1 DEF Idle
<1> QED
  BY <1>2, SeenIsSo DEF IInv

\* Whoever loses a role or a membership has left on their own, or a member did it who
\* outranks them when it commits.
LEMMA ChangesAreAuthorized ==
    ASSUME IInv, [Next]_vars, NEW u \in DOMAIN member,
           u \in DOMAIN member' => member'[u] # member[u]
    PROVE  \E p \in Requests :
              /\ op[p] # op'[p]
              /\ op[p].actor \in DOMAIN member
              /\ \/ op[p].actor = u /\ u \notin DOMAIN member'
                 \/ Manages(member[op[p].actor], member[u])
<1>1. ASSUME NEW p \in Requests, NEW v \in Users, RemoveOrganizationMember(p, v)
      PROVE  op[p] # op'[p] /\ op[p].actor \in DOMAIN member
             /\ Manages(member[op[p].actor], member[u])
  <2>1. /\ v \in DOMAIN op[p].seen /\ op[p].scope = "all"
        /\ op[p].actor \in DOMAIN op[p].seen
        /\ Manages(op[p].seen[op[p].actor], op[p].seen[v])
        /\ EndWithout(p, {v})
        /\ member' = [w \in DOMAIN member \ {v} |-> member[w]]
    BY <1>1 DEF RemoveOrganizationMember, May, ActorRole, DropMember
  <2>2. u = v
    BY <2>1
  <2>3. op[p].seen[v] = member[v]
    BY <2>1, SeenIsSo DEF IInv
  <2>4. op[p] # op'[p] /\ op[p].actor \in DOMAIN member
        /\ op[p].seen[op[p].actor] = member[op[p].actor]
    BY <2>1, ActorIsMember
  <2> QED
    BY <2>1, <2>2, <2>3, <2>4
<1>2. ASSUME NEW p \in Requests, LeaveOrganization(p)
      PROVE  op[p] # op'[p] /\ op[p].actor \in DOMAIN member
             /\ op[p].actor = u /\ u \notin DOMAIN member'
  <2>1. /\ op[p].scope = "all" /\ op[p].actor \in DOMAIN op[p].seen
        /\ EndWithout(p, {op[p].actor})
        /\ member' = [w \in DOMAIN member \ {op[p].actor} |-> member[w]]
    BY <1>2 DEF LeaveOrganization, May, DropMember
  <2>2. u = op[p].actor /\ u \notin DOMAIN member'
    BY <2>1
  <2> QED
    BY <2>1, <2>2, ActorIsMember
<1>3. ASSUME NEW p \in Requests, NEW v \in Users, NEW role \in Role,
             UpdateOrganizationMemberRole(p, v, role)
      PROVE  op[p] # op'[p] /\ op[p].actor \in DOMAIN member
             /\ Manages(member[op[p].actor], member[u])
  <2>1. /\ op[p].scope = "all" /\ op[p].actor \in DOMAIN op[p].seen
        /\ op[p].seen[op[p].actor] = "owner" /\ End(p)
    BY <1>3 DEF UpdateOrganizationMemberRole, May
  <2> QED
    BY <2>1, ActorIsMember DEF Manages
<1>4. ASSUME NEW i \in Invitations, NEW v \in Users, AcceptOrganizationInvitation(v, i)
      PROVE  FALSE
  <2>1. v \notin DOMAIN member
    BY <1>4, AcceptFacts DEF IInv, AcceptHolds
  <2>2. \A w \in DOMAIN member : w \in DOMAIN member' /\ member'[w] = member[w]
    BY <1>4, <2>1 DEF AcceptOrganizationInvitation
  <2> QED
    BY <2>2
<1>5. member' # member
  OBVIOUS
<1>6. ASSUME Next,
             ~\E p \in Requests, v \in Users : RemoveOrganizationMember(p, v),
             ~\E p \in Requests : LeaveOrganization(p),
             ~\E p \in Requests, v \in Users, role \in Role :
                UpdateOrganizationMemberRole(p, v, role),
             ~\E i \in Invitations, v \in Users : AcceptOrganizationInvitation(v, i)
      PROVE  member' = member
  <2>1. CASE \E p \in Requests : Finish(p)
    <3>1. PICK p \in Requests : Finish(p)
      BY <2>1
    <3>2. CASE Refuse(p)
      BY <3>2 DEF Refuse
    <3>3. CASE \E r \in Resources :
                 CreateResource(p, r) \/ DeleteResource(p, r) \/ UnlinkResource(p, r)
      BY <3>3 DEF CreateResource, DeleteResource, UnlinkResource
    <3>4. CASE \E r \in Resources : DeactivateResource(p, r) \/ ReactivateResource(p, r)
      BY <3>4 DEF DeactivateResource, ReactivateResource, SetResourceActive
    <3>5. CASE \E r \in Resources, v \in Users : LinkResourceToMember(p, r, v)
      BY <3>5 DEF LinkResourceToMember
    <3>6. CASE \E i \in Invitations : RevokeOrganizationInvitation(p, i)
      BY <3>6 DEF RevokeOrganizationInvitation
    <3>7. CASE \E i \in Invitations, v \in Users, role \in Role, r \in Resources \cup {None} :
                 CreateOrganizationInvitation(p, i, v, role, r)
      BY <3>7 DEF CreateOrganizationInvitation
    <3>8. CASE \E v \in Users, role \in Role, r \in Resources \cup {None} :
                 RefuseInvitation(p, v, role, r)
      BY <3>8 DEF RefuseInvitation
    <3> QED
      BY <1>6, <3>1, <3>2, <3>3, <3>4, <3>5, <3>6, <3>7, <3>8 DEF Finish
  <2> QED
    BY <1>6, <2>1
    DEF Next, ReadMemberships, LockMembership, DeliverInvitation, Expire,
        RevokeInvitationAfterDeliveryFailure, CloseUselessInvitation, Book, ChangeOrganization
<1> QED
  BY <1>1, <1>2, <1>3, <1>4, <1>5, <1>6 DEF vars

\* Nobody loses or changes a role but by their own departure or by a member who
\* outranks them at the moment of the commit.
THEOREM AuthorityHoldsAtCommit == Spec => AuthorizedAtCommit
<1>1. IInv /\ [Next]_vars =>
        [\A u \in DOMAIN member :
            (u \in DOMAIN member' => member'[u] # member[u]) =>
                \E p \in Requests :
                   /\ op[p] # op'[p]
                   /\ op[p].actor \in DOMAIN member
                   /\ \/ op[p].actor = u /\ u \notin DOMAIN member'
                      \/ Manages(member[op[p].actor], member[u])]_vars
  BY ChangesAreAuthorized
<1> QED
  BY <1>1, Invariance, PTL DEF Spec, AuthorizedAtCommit
=============================================================================
