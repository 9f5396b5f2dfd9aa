-------------------------------- MODULE Team --------------------------------
(***************************************************************************)
(* Memberships, invitations and the links between members and resources of *)
(* one organization.  The operations are READ COMMITTED transactions: the  *)
(* first statement locks the actor's membership or all memberships, row by *)
(* row; then the organization is locked FOR UPDATE, and from there on no   *)
(* other operation of the organization runs, so the rest of a transaction  *)
(* is one step.                                                            *)
(*                                                                         *)
(* A user stands for the account and for its verified address.             *)
(***************************************************************************)
EXTENDS Integers, FiniteSets, Sequences

CONSTANTS
    Users,          \* numbers: membership rows are locked in the order of id
    Owner,          \* the user the organization was provisioned for
    Resources,
    Invitations,    \* identities of invitations
    Requests,       \* requests that run at the same time
    Events,         \* bound: which of delivery, expiry, booking, closing occur
    None

ASSUME UsersAssumption == Users \subseteq Nat /\ Owner \in Users
ASSUME NoneAssumption == None \notin Users \cup Resources

VARIABLES
    member,         \* membership rows: user -> role
    resource,       \* existing resources: [user, active]
    invitation,     \* issued invitations
    mail,           \* the message of an invitation: sending, sent, failed, undelivered
    booked,         \* resources that have a booking
    open,           \* the organization is neither archived nor suspended
    op              \* per request: the membership rows it has read and locked

vars == <<member, resource, invitation, mail, booked, open, op>>

-----------------------------------------------------------------------------
Role == {"owner", "manager", "staff"}
Resource == [user : Users \cup {None}, active : BOOLEAN]
Invitation == [email : Users, role : Role, resource : Resources \cup {None},
               status : {"open", "accepted", "revoked"}, expired : BOOLEAN]
Idle == [scope |-> "none", actor |-> None, todo |-> {}, seen |-> [u \in {} |-> "staff"]]

\* One type invariant; staff invitations, and only they, name a resource, and
\* a row is locked by one request at a time and has the role it was read with.
TypeOK ==
    /\ DOMAIN member \subseteq Users /\ member \in [DOMAIN member -> Role]
    /\ DOMAIN resource \subseteq Resources /\ resource \in [DOMAIN resource -> Resource]
    /\ DOMAIN invitation \subseteq Invitations
    /\ invitation \in [DOMAIN invitation -> Invitation]
    /\ \A i \in DOMAIN invitation :
          IF invitation[i].role = "staff" THEN invitation[i].resource \in DOMAIN resource
                                          ELSE invitation[i].resource = None
    /\ mail \in [DOMAIN invitation -> {"sending", "sent", "failed", "undelivered"}]
    /\ booked \subseteq DOMAIN resource
    /\ open \in BOOLEAN
    /\ \A p \in Requests :
          /\ op[p].scope \in {"none", "own", "all"}
          /\ op[p].actor \in Users \cup {None}
          /\ op[p].todo \subseteq DOMAIN member
          /\ \A u \in DOMAIN op[p].seen : u \in DOMAIN member /\ op[p].seen[u] = member[u]

-----------------------------------------------------------------------------
\* Rows and rights.

Pending(i) == invitation[i].status = "open"
PendingFor(r) == {i \in DOMAIN invitation : Pending(i) /\ invitation[i].resource = r}
PendingTo(u) == {i \in DOMAIN invitation : Pending(i) /\ invitation[i].email = u}
LinkedTo(u) == {r \in DOMAIN resource : resource[r].user = u}
OwnersOf(list) == {u \in DOMAIN list : list[u] = "owner"}

\* Managers manage staff, owners everyone.
Manages(role, target) == role = "owner" \/ (role = "manager" /\ target = "staff")

Close(S) == [i \in DOMAIN invitation |->
                IF i \in S THEN [invitation[i] EXCEPT !.status = "revoked"] ELSE invitation[i]]

\* Membership removal detaches the account and keeps the resource.
UnlinkUserResource_KeepsLink(u) == resource
UnlinkUserResource(u) ==
    [r \in DOMAIN resource |->
        IF resource[r].user = u THEN [resource[r] EXCEPT !.user = None] ELSE resource[r]]

-----------------------------------------------------------------------------
\* The membership rows of a request.

\* SELECT ... FOR UPDATE of the actor's row (createOrganizationInvitation,
\* revokeOrganizationInvitation, createResource) or of all rows; the rows are
\* those of the statement's snapshot.
ReadMemberships(p, u, scope) ==
    /\ op[p] = Idle
    /\ op' = [op EXCEPT ![p] =
                 [scope |-> scope, actor |-> u, seen |-> Idle.seen,
                  todo |-> IF scope = "all" THEN DOMAIN member ELSE DOMAIN member \cap {u}]]
    /\ UNCHANGED <<member, resource, invitation, mail, booked, open>>

RowFree(p, u) == \A q \in Requests \ {p} : u \notin DOMAIN op[q].seen

\* The rows a request locks next: ORDER BY id.
NextRows_Unordered(rows) == rows
NextRows(rows) == {u \in rows : \A v \in rows : u <= v}

\* One row is locked, and read as it is now.
LockMembership(p) ==
    /\ \E u \in NextRows(op[p].todo) :
          /\ RowFree(p, u)
          /\ op' = [op EXCEPT ![p].todo = @ \ {u},
                              ![p].seen = [v \in DOMAIN @ \cup {u} |->
                                              IF v = u THEN member[u] ELSE @[v]]]
    /\ UNCHANGED <<member, resource, invitation, mail, booked, open>>

\* All rows are locked and the actor is a member with one of the roles.
May(p, scope, roles) ==
    /\ op[p].scope = scope
    /\ op[p].todo = {}
    /\ op[p].actor \in DOMAIN op[p].seen
    /\ op[p].seen[op[p].actor] \in roles

ActorRole(p) == op[p].seen[op[p].actor]

\* The transaction ends and its locks are free; a deleted row is skipped by the
\* requests that waited for it.
EndWithout_RowStays(p, gone) ==
    op' = [q \in Requests |-> IF q = p THEN Idle ELSE op[q]]
EndWithout(p, gone) ==
    op' = [q \in Requests |-> IF q = p THEN Idle ELSE [op[q] EXCEPT !.todo = @ \ gone]]
End(p) == EndWithout(p, {})

\* Any refusal, and any request that finds nothing to change.
Refuse(p) ==
    /\ op[p].scope # "none"
    /\ op[p].todo = {}
    /\ End(p)
    /\ UNCHANGED <<member, resource, invitation, mail, booked, open>>

-----------------------------------------------------------------------------
\* Memberships.

\* ownerCount === 1
LastOwner_LastMember(list, u) == list[u] = "owner" /\ Cardinality(DOMAIN list) = 1
LastOwner(list, u) == list[u] = "owner" /\ Cardinality(OwnersOf(list)) = 1

UpdateOrganizationMemberRole_ByManagers(p, u, role) ==
    /\ May(p, "all", {"owner", "manager"})
    /\ u \in DOMAIN op[p].seen
    /\ open
    /\ role # "owner" => ~LastOwner(op[p].seen, u)
    /\ member' = [member EXCEPT ![u] = role]
    /\ End(p)
    /\ UNCHANGED <<resource, invitation, mail, booked, open>>
UpdateOrganizationMemberRole(p, u, role) ==
    /\ May(p, "all", {"owner"})
    /\ u \in DOMAIN op[p].seen
    /\ open
    /\ role # "owner" => ~LastOwner(op[p].seen, u)
    /\ member' = [member EXCEPT ![u] = role]
    /\ End(p)
    /\ UNCHANGED <<resource, invitation, mail, booked, open>>

DropMember(p, u) ==
    /\ resource' = UnlinkUserResource(u)
    /\ member' = [v \in DOMAIN member \ {u} |-> member[v]]
    /\ EndWithout(p, {u})
    /\ UNCHANGED <<invitation, mail, booked, open>>

RemoveOrganizationMember(p, u) ==
    /\ May(p, "all", {"owner", "manager"})
    /\ u \in DOMAIN op[p].seen \ {op[p].actor}
    /\ Manages(ActorRole(p), op[p].seen[u])
    /\ open
    /\ DropMember(p, u)

LeaveOrganization(p) ==
    /\ May(p, "all", Role)
    /\ open
    /\ ~LastOwner(op[p].seen, op[p].actor)
    /\ DropMember(p, op[p].actor)

-----------------------------------------------------------------------------
\* Resources and their members.

CreateResource(p, r) ==
    /\ May(p, "own", {"owner", "manager"})
    /\ r \notin DOMAIN resource
    /\ open
    /\ resource' = [s \in DOMAIN resource \cup {r} |->
                       IF s = r THEN [user |-> None, active |-> TRUE] ELSE resource[s]]
    /\ End(p)
    /\ UNCHANGED <<member, invitation, mail, booked, open>>

DeleteResource(p, r) ==
    /\ May(p, "all", {"owner", "manager"})
    /\ r \in DOMAIN resource \ booked
    /\ open
    /\ ~resource[r].active
    /\ resource[r].user = None
    /\ \A i \in DOMAIN invitation : invitation[i].resource # r
    /\ resource' = [s \in DOMAIN resource \ {r} |-> resource[s]]
    /\ End(p)
    /\ UNCHANGED <<member, invitation, mail, booked, open>>

\* A manager's rights over a resource follow the role of its member.
ManagesLink(p, r) ==
    \/ ActorRole(p) = "owner"
    \/ /\ resource[r].user \in DOMAIN op[p].seen
       /\ op[p].seen[resource[r].user] = "staff"

SetResourceActive(p, r, active) ==
    /\ May(p, "all", {"owner", "manager"})
    /\ r \in DOMAIN resource
    /\ open
    /\ resource[r].user # None => ManagesLink(p, r)
    /\ resource[r].active # active
    /\ resource' = [resource EXCEPT ![r].active = active]
    /\ End(p)
    /\ UNCHANGED <<member, invitation, mail, booked, open>>

DeactivateResource(p, r) == SetResourceActive(p, r, FALSE)
ReactivateResource(p, r) == SetResourceActive(p, r, TRUE)

\* What linkResourceToMember asks of the resource and of the member.
Linkable(r, u) ==
    /\ r \in DOMAIN resource /\ resource[r].active /\ resource[r].user = None
    /\ LinkedTo(u) = {}
    /\ \A i \in PendingFor(r) : invitation[i].expired

LinkResourceToMember(p, r, u) ==
    /\ May(p, "all", {"owner", "manager"})
    /\ u \in DOMAIN op[p].seen
    /\ Manages(ActorRole(p), op[p].seen[u])
    /\ open
    /\ Linkable(r, u)
    /\ resource' = [resource EXCEPT ![r].user = u]
    /\ invitation' = Close(PendingFor(r))
    /\ End(p)
    /\ UNCHANGED <<member, mail, booked, open>>

UnlinkResource(p, r) ==
    /\ May(p, "all", {"owner", "manager"})
    /\ r \in DOMAIN resource
    /\ open
    /\ resource[r].user # None
    /\ ManagesLink(p, r)
    /\ resource' = [resource EXCEPT ![r].user = None]
    /\ End(p)
    /\ UNCHANGED <<member, invitation, mail, booked, open>>

-----------------------------------------------------------------------------
\* Invitations.

Invitable_LinkedToo(u, role, r) ==
    /\ IF role = "staff" THEN r \in DOMAIN resource /\ resource[r].active ELSE r = None
    /\ u \notin DOMAIN member
Invitable(u, role, r) ==
    /\ IF role = "staff"
       THEN r \in DOMAIN resource /\ resource[r].active /\ resource[r].user = None
       ELSE r = None
    /\ u \notin DOMAIN member

\* The open invitations the new one would collide with.
InTheWay_SameAddress(u, r) == PendingTo(u)
InTheWay(u, r) == PendingTo(u) \cup (IF r = None THEN {} ELSE PendingFor(r))

\* Expired invitations make room for a new one.
CreateOrganizationInvitation(p, i, u, role, r) ==
    /\ May(p, "own", {"owner", "manager"})
    /\ Manages(ActorRole(p), role)
    /\ open
    /\ i \notin DOMAIN invitation
    /\ Invitable(u, role, r)
    /\ \A j \in InTheWay(u, r) : invitation[j].expired
    /\ invitation' = [j \in DOMAIN invitation \cup {i} |->
          IF j = i THEN [email |-> u, role |-> role, resource |-> r,
                         status |-> "open", expired |-> FALSE]
          ELSE Close(InTheWay(u, r))[j]]
    /\ mail' = [j \in DOMAIN mail \cup {i} |-> IF j = i THEN "sending" ELSE mail[j]]
    /\ End(p)
    /\ UNCHANGED <<member, resource, booked, open>>

\* Somebody else holds the resource's invitation.  That is found last, so the
\* refusal commits what was done for the address.
RefuseInvitation(p, u, role, r) ==
    /\ May(p, "own", {"owner", "manager"})
    /\ Manages(ActorRole(p), role)
    /\ open
    /\ Invitable(u, role, r)
    /\ \A j \in PendingTo(u) : invitation[j].expired
    /\ \E j \in InTheWay(u, r) : ~invitation[j].expired
    /\ invitation' = Close(PendingTo(u))
    /\ End(p)
    /\ UNCHANGED <<member, resource, mail, booked, open>>

\* The route sends the message after the commit.
DeliverInvitation(i) ==
    /\ "delivery" \in Events
    /\ mail[i] = "sending"
    /\ \E outcome \in {"sent", "failed"} : mail' = [mail EXCEPT ![i] = outcome]
    /\ UNCHANGED <<member, resource, invitation, booked, open, op>>

\* One statement of its own: the message may have arrived although sending
\* failed, and the invitation may have been accepted or revoked meanwhile.
RevokeInvitationAfterDeliveryFailure_Always(i) ==
    /\ mail[i] = "failed"
    /\ mail' = [mail EXCEPT ![i] = "undelivered"]
    /\ invitation' = Close({i})
    /\ UNCHANGED <<member, resource, booked, open, op>>
RevokeInvitationAfterDeliveryFailure(i) ==
    /\ mail[i] = "failed"
    /\ mail' = [mail EXCEPT ![i] = "undelivered"]
    /\ invitation' = Close({i} \cap {j \in DOMAIN invitation : Pending(j)})
    /\ UNCHANGED <<member, resource, booked, open, op>>

RevokeOrganizationInvitation(p, i) ==
    /\ May(p, "own", {"owner", "manager"})
    /\ open
    /\ i \in DOMAIN invitation
    /\ Manages(ActorRole(p), invitation[i].role)
    /\ Pending(i)
    /\ invitation' = Close({i})
    /\ End(p)
    /\ UNCHANGED <<member, resource, mail, booked, open>>

-----------------------------------------------------------------------------
\* Acceptance: the first check that fails is the reason of the refusal.

FirstReason(checks) ==
    LET failed == {k \in DOMAIN checks : ~checks[k].holds}
    IN  IF failed = {} THEN "ok" ELSE checks[CHOOSE k \in failed : \A l \in failed : k <= l].reason

Check(holds, reason) == [holds |-> holds, reason |-> reason]

InvitationChecks_Unexpiring(u, i) ==
    <<Check(open, "organization_closed"),
      Check(invitation[i].status # "revoked", "invitation_revoked"),
      Check(invitation[i].status # "accepted", "invitation_already_accepted"),
      Check(invitation[i].email = u, "email_mismatch")>>
InvitationChecks(u, i) ==
    <<Check(open, "organization_closed"),
      Check(invitation[i].status # "revoked", "invitation_revoked"),
      Check(invitation[i].status # "accepted", "invitation_already_accepted"),
      Check(~invitation[i].expired, "invitation_expired"),
      Check(invitation[i].email = u, "email_mismatch")>>

TargetChecks(u, i) ==
    LET r == invitation[i].resource
        staff == invitation[i].role = "staff"
    IN  <<Check(staff => r \in DOMAIN resource, "resource_not_found"),
          Check(staff /\ r \in DOMAIN resource => resource[r].active, "resource_deactivated"),
          Check(staff /\ r \in DOMAIN resource => resource[r].user = None,
                "resource_already_linked"),
          Check(staff => LinkedTo(u) = {}, "user_resource_already_linked")>>

NoMember(u) == <<Check(u \notin DOMAIN member, "already_member")>>

AcceptReason(u, i) ==
    IF i \notin DOMAIN invitation THEN "invitation_not_found"
    ELSE FirstReason(InvitationChecks(u, i) \o TargetChecks(u, i) \o NoMember(u))

\* The preview looks at the membership before the resource.
PreviewReason_WithoutExpiry(u, i) ==
    IF i \notin DOMAIN invitation THEN "invitation_not_found"
    ELSE FirstReason(InvitationChecks_Unexpiring(u, i) \o NoMember(u) \o TargetChecks(u, i))
PreviewReason(u, i) ==
    IF i \notin DOMAIN invitation THEN "invitation_not_found"
    ELSE FirstReason(InvitationChecks(u, i) \o NoMember(u) \o TargetChecks(u, i))

\* The answers of the two routes.
AcceptStatus(reason) ==
    CASE reason = "ok" -> 200
      [] reason = "invitation_not_found" -> 404
      [] reason = "email_mismatch" -> 403
      [] OTHER -> 409
PreviewStatus(reason) ==
    CASE reason = "ok" -> 200
      [] reason = "invitation_not_found" -> 404
      [] reason = "email_mismatch" -> 403
      [] OTHER -> 409

\* Membership, link and acceptance commit together.
AcceptOrganizationInvitation(u, i) ==
    /\ AcceptReason(u, i) = "ok"
    /\ member' = [v \in DOMAIN member \cup {u} |->
                     IF v = u THEN invitation[i].role ELSE member[v]]
    /\ resource' = [r \in DOMAIN resource |->
                       IF r = invitation[i].resource THEN [resource[r] EXCEPT !.user = u]
                                                     ELSE resource[r]]
    /\ invitation' = [invitation EXCEPT ![i].status = "accepted"]
    /\ UNCHANGED <<mail, booked, open, op>>

\* An invitation that met a member is of no use any more.
CloseUselessInvitation(u, i) ==
    /\ AcceptReason(u, i) = "already_member"
    /\ invitation' = Close({i})
    /\ UNCHANGED <<member, resource, mail, booked, open, op>>

-----------------------------------------------------------------------------
\* What the management pages list.

\* getResourceLinkCandidates, for an active resource.
LinkCandidates(u, r) ==
    {t \in DOMAIN member :
        /\ LinkedTo(t) \subseteq {r}
        /\ t # resource[r].user
        /\ member[u] = "manager" => member[t] = "staff"}
LinkPending(r) == \E i \in PendingFor(r) : ~invitation[i].expired
LinkManageable(u, r) == member[u] = "owner" \/ member[resource[r].user] = "staff"

\* listOrganizationInvitations
ListedInvitations(u) ==
    {i \in DOMAIN invitation :
        Pending(i) /\ (member[u] = "manager" => invitation[i].role = "staff")}

\* listOrganizationMembers: the rows that come with a membership id.
ManageableMembers_AllForManagers(u) ==
    {t \in DOMAIN member : member[u] \in {"owner", "manager"}}
ManageableMembers(u) ==
    {t \in DOMAIN member :
        member[u] = "owner" \/ (member[u] = "manager" /\ member[t] = "staff")}

-----------------------------------------------------------------------------
\* The rest of the system.

\* The seven days of an invitation are over.
Expire(i) ==
    /\ "expiry" \in Events
    /\ ~invitation[i].expired
    /\ invitation' = [invitation EXCEPT ![i].expired = TRUE]
    /\ UNCHANGED <<member, resource, mail, booked, open, op>>

\* A booking of the resource.
Book(r) ==
    /\ "booking" \in Events
    /\ open /\ resource[r].active
    /\ booked' = booked \cup {r}
    /\ UNCHANGED <<member, resource, invitation, mail, open, op>>

\* Archive, restore, suspend, unsuspend.
ChangeOrganization ==
    /\ "closing" \in Events
    /\ open' = ~open
    /\ UNCHANGED <<member, resource, invitation, mail, booked, op>>

Init ==
    /\ member = [u \in {Owner} |-> "owner"]
    /\ resource = [r \in {} |-> r]
    /\ invitation = [i \in {} |-> i]
    /\ mail = [i \in {} |-> i]
    /\ booked = {}
    /\ open = TRUE
    /\ op = [p \in Requests |-> Idle]

Finish(p) ==
    \/ Refuse(p)
    \/ \E u \in Users : RemoveOrganizationMember(p, u)
    \/ \E u \in Users, role \in Role : UpdateOrganizationMemberRole(p, u, role)
    \/ LeaveOrganization(p)
    \/ \E r \in Resources :
          \/ CreateResource(p, r) \/ DeleteResource(p, r) \/ UnlinkResource(p, r)
          \/ DeactivateResource(p, r) \/ ReactivateResource(p, r)
          \/ \E u \in Users : LinkResourceToMember(p, r, u)
    \/ \E i \in Invitations :
          \/ RevokeOrganizationInvitation(p, i)
          \/ \E u \in Users, role \in Role, r \in Resources \cup {None} :
                CreateOrganizationInvitation(p, i, u, role, r)
    \/ \E u \in Users, role \in Role, r \in Resources \cup {None} :
          RefuseInvitation(p, u, role, r)

Next ==
    \/ \E p \in Requests :
          \/ \E u \in Users, scope \in {"own", "all"} : ReadMemberships(p, u, scope)
          \/ LockMembership(p)
          \/ Finish(p)
    \/ \E i \in DOMAIN invitation :
          \/ DeliverInvitation(i) \/ RevokeInvitationAfterDeliveryFailure(i) \/ Expire(i)
    \/ \E i \in Invitations, u \in Users :
          AcceptOrganizationInvitation(u, i) \/ CloseUselessInvitation(u, i)
    \/ \E r \in DOMAIN resource : Book(r)
    \/ ChangeOrganization

Spec == Init /\ [][Next]_vars

\* A transaction that got its locks goes on, and PostgreSQL grants free locks.
FairSpec ==
    /\ Spec
    /\ \A p \in Requests : SF_vars(LockMembership(p)) /\ WF_vars(Finish(p))

-----------------------------------------------------------------------------
\* The organization always has an owner, however demotions, removals and
\* departures race (memberships.ts: "serialized per organization to protect
\* cross-row invariants").
AlwaysOwned == OwnersOf(member) # {}

\* A resource is linked to a member only, and a member to one resource at most:
\* removal, departure, linking and acceptance leave no link to a stranger.
LinksFollowMembers ==
    /\ \A r \in DOMAIN resource : resource[r].user \in DOMAIN member \cup {None}
    /\ \A r, s \in DOMAIN resource :
          resource[r].user = resource[s].user /\ resource[r].user # None => r = s

\* There is one open invitation per address and per resource, found by the
\* checks under the organization lock, not by the unique indexes behind them.
OneOpenInvitation ==
    \A i, j \in DOMAIN invitation :
        /\ Pending(i) /\ Pending(j)
        /\ \/ invitation[i].email = invitation[j].email
           \/ invitation[i].resource = invitation[j].resource /\ invitation[i].resource # None
        => i = j

\* A resource that an open invitation promises to somebody is not linked.
PromisedResourceUnlinked ==
    \A i \in DOMAIN invitation :
        Pending(i) /\ invitation[i].resource # None => resource[invitation[i].resource].user = None

\* The preview answers with the status acceptance would answer with.
PreviewAnswersLikeAcceptance ==
    \A u \in Users, i \in Invitations :
        PreviewStatus(PreviewReason(u, i)) = AcceptStatus(AcceptReason(u, i))

\* What the lists offer is what the operations would do now: a candidate can
\* be linked, a link, an invitation or a member can be managed.
ListsMatchRights ==
    \A u \in DOMAIN member :
        /\ \A r \in DOMAIN resource :
              member[u] # "staff" /\ resource[r].active /\ resource[r].user = None /\ ~LinkPending(r)
              => LinkCandidates(u, r) =
                    {t \in DOMAIN member : Manages(member[u], member[t]) /\ Linkable(r, t)}
        /\ \A r \in DOMAIN resource :
              member[u] # "staff" /\ resource[r].user # None
              => LinkManageable(u, r) = Manages(member[u], member[resource[r].user])
        /\ member[u] # "staff"
           => ListedInvitations(u) =
                 {i \in DOMAIN invitation : Pending(i) /\ Manages(member[u], invitation[i].role)}
        /\ ManageableMembers(u) = {t \in DOMAIN member : Manages(member[u], member[t])}

\* An invitation is accepted or revoked once and stays so, whoever accepts,
\* revokes, replaces or fails to deliver it at the same time.
SettledInvitationsFinal ==
    [][\A i \in DOMAIN invitation :
          ~Pending(i) => invitation'[i].status = invitation[i].status]_vars

\* Nobody loses or changes a role but by their own departure or by a member who
\* outranks them at the moment of the commit, not only when the request began.
AuthorizedAtCommit ==
    [][\A u \in DOMAIN member :
          (u \in DOMAIN member' => member'[u] # member[u]) =>
              \E p \in Requests :
                 /\ op[p] # op'[p]
                 /\ op[p].actor \in DOMAIN member
                 /\ \/ op[p].actor = u /\ u \notin DOMAIN member'
                    \/ Manages(member[op[p].actor], member[u])]_vars

\* A request that waits for membership rows gets them: the order of the locks
\* excludes deadlock.
RequestsEnd == \A p \in Requests : op[p].scope # "none" ~> op[p].scope = "none"

\* The tables of a team agree, and what is shown agrees with what is allowed:
\* links with members, promises with links, previews and lists with the rights.
TeamConsistent ==
    /\ TypeOK /\ LinksFollowMembers
    /\ OneOpenInvitation /\ PromisedResourceUnlinked
    /\ PreviewAnswersLikeAcceptance /\ ListsMatchRights
=============================================================================
