----------------------------- MODULE Onboarding -----------------------------
(***************************************************************************)
(* Organization requests and how organizations come to be: an applicant    *)
(* asks, a platform administrator approves under a slug or rejects, or     *)
(* provisions an organization without a request.  Each operation is a      *)
(* READ COMMITTED transaction, modelled by its locks: the applicant's row  *)
(* or the request's row FOR UPDATE, and the slug, whose unique index makes *)
(* an insert wait for the transaction that holds the same slug.            *)
(***************************************************************************)
EXTENDS Integers, Sequences, FiniteSets

CONSTANTS
    Users,
    Admins,         \* the users with an unrevoked platform_admin row
    Requests,       \* ids of organization requests
    Slugs,
    Candidates,     \* name -> the slugs that are tried for it, in order
    Transactions,   \* operations that run at the same time
    None

VARIABLES
    request,        \* request -> [by, status, slug, reviewer]
    organization,   \* slug -> [owner, request]
    event,          \* <<event type, request or slug>> in the outbox
    txn,            \* transaction -> its operation and what it has read, or None
    failed          \* an operation ended in an unexpected database error

vars == <<request, organization, event, txn, failed>>

-----------------------------------------------------------------------------
Status == {"pending", "approved", "rejected"}
EventTypes == {"submitted", "approved", "rejected", "manuallyProvisioned"}
Request == [by : Users, status : Status, slug : Slugs \cup {None}, reviewer : Admins \cup {None}]
Organization == [owner : Users, request : Requests \cup {None}]

Creation == [op : {"create"}, stage : {"begun", "locked"}, user : Users]
Decision == [op : {"approve", "reject"}, stage : {"begun", "locked", "provisioned"},
             user : Admins, request : Requests, slug : Slugs \cup {None}]
Provision == [op : {"manual"}, stage : {"begun", "provisioned"}, user : Users,
              name : DOMAIN Candidates, tried : Nat, slug : Slugs \cup {None}]
Operation == Creation \cup Decision \cup Provision

\* What the constants are: None is nothing else, requests are no slugs, and the
\* slugs tried for a name are slugs.
Named ==
    /\ None \notin Requests \cup Slugs \cup Admins /\ None \notin Operation
    /\ Requests \cap Slugs = {}
    /\ \A name \in DOMAIN Candidates : Candidates[name] \in Seq(Slugs)
ASSUME NamedAssumption == Named

\* One type invariant, with the check constraint on the state of a request.
TypeOK ==
    /\ txn \in [Transactions -> Operation \cup {None}]
    /\ DOMAIN request \subseteq Requests /\ request \in [DOMAIN request -> Request]
    /\ \A r \in DOMAIN request :
          /\ request[r].status = "approved" <=> request[r].slug # None
          /\ request[r].status = "pending" <=> request[r].reviewer = None
    /\ DOMAIN organization \subseteq Slugs
    /\ organization \in [DOMAIN organization -> Organization]
    /\ event \subseteq EventTypes \X (Requests \cup Slugs)
    /\ failed \in BOOLEAN

Put(f, x, v) == [y \in (DOMAIN f) \cup {x} |-> IF y = x THEN v ELSE f[y]]
PendingOf(user) == {r \in DOMAIN request : request[r].by = user /\ request[r].status = "pending"}

Init ==
    /\ request = [r \in {} |-> None]
    /\ organization = [s \in {} |-> None]
    /\ event = {}
    /\ txn = [t \in Transactions |-> None]
    /\ failed = FALSE

-----------------------------------------------------------------------------
\* Row locks and the unique index.

Doing(t, op, stage) == txn[t] # None /\ txn[t].op = op /\ txn[t].stage = stage

LocksUser(t) == IF txn[t] # None /\ txn[t].op = "create" /\ txn[t].stage # "begun" THEN {txn[t].user} ELSE {}
LocksRequest(t) ==
    IF txn[t] # None /\ txn[t].op \in {"approve", "reject"} /\ txn[t].stage # "begun"
    THEN {txn[t].request} ELSE {}
HoldsSlug(t) == IF txn[t] # None /\ txn[t].stage = "provisioned" THEN {txn[t].slug} ELSE {}

UserFree_Always(t, user) == TRUE
UserFree(t, user) == \A o \in Transactions \ {t} : user \notin LocksUser(o)
RequestFree(t, r) == \A o \in Transactions \ {t} : r \notin LocksRequest(o)
SlugFree(t, slug) == \A o \in Transactions \ {t} : slug \notin HoldsSlug(o)

Idle(t) == txn[t] = None
Begin(t, operation) == Idle(t) /\ txn' = [txn EXCEPT ![t] = operation]
End(t) == txn' = [txn EXCEPT ![t] = None]
Stage(t, stage) == txn' = [txn EXCEPT ![t].stage = stage]

\* Refused, or rolled back by an error or a lost connection.
GiveUp(t) ==
    /\ ~Idle(t)
    /\ End(t)
    /\ UNCHANGED <<request, organization, event, failed>>

-----------------------------------------------------------------------------
\* createOrganizationRequest

BeginRequest(t, user) ==
    /\ Begin(t, [op |-> "create", stage |-> "begun", user |-> user])
    /\ UNCHANGED <<request, organization, event, failed>>

\* The applicant's row is locked and a pending request looked for.
LockApplicant(t) ==
    /\ Doing(t, "create", "begun")
    /\ UserFree(t, txn[t].user)
    /\ IF PendingOf(txn[t].user) = {} THEN Stage(t, "locked") ELSE End(t)
    /\ UNCHANGED <<request, organization, event, failed>>

\* A second pending request of the applicant violates the partial unique index.
CreateOrganizationRequest(t, r) ==
    /\ Doing(t, "create", "locked")
    /\ r \notin DOMAIN request
    /\ IF PendingOf(txn[t].user) = {}
       THEN /\ request' = Put(request, r, [by |-> txn[t].user, status |-> "pending",
                                           slug |-> None, reviewer |-> None])
            /\ event' = event \cup {<<"submitted", r>>}
            /\ UNCHANGED failed
       ELSE failed' = TRUE /\ UNCHANGED <<request, event>>
    /\ End(t)
    /\ UNCHANGED organization

-----------------------------------------------------------------------------
\* The operations of a platform administrator.

BeginDecision(t, op, admin, r, slug) ==
    /\ r \in DOMAIN request
    /\ Begin(t, [op |-> op, stage |-> "begun", user |-> admin, request |-> r, slug |-> slug])
    /\ UNCHANGED <<request, organization, event, failed>>

\* request_not_pending ends the operation.
LockRequest_AnyStatus(t) ==
    /\ Doing(t, "approve", "begun") \/ Doing(t, "reject", "begun")
    /\ RequestFree(t, txn[t].request)
    /\ Stage(t, "locked")
    /\ UNCHANGED <<request, organization, event, failed>>
LockRequest(t) ==
    /\ Doing(t, "approve", "begun") \/ Doing(t, "reject", "begun")
    /\ RequestFree(t, txn[t].request)
    /\ IF request[txn[t].request].status = "pending" THEN Stage(t, "locked") ELSE End(t)
    /\ UNCHANGED <<request, organization, event, failed>>

\* provisionOrganizationInTransaction with the slug of the approval.  The
\* membership of the owner waits for the owner's row.
ProvisionRequested_AnnouncedFirst(t) ==
    /\ Doing(t, "approve", "locked")
    /\ SlugFree(t, txn[t].slug)
    /\ UserFree(t, request[txn[t].request].by)
    /\ event' = event \cup {<<"approved", txn[t].request>>}
    /\ IF txn[t].slug \in DOMAIN organization THEN End(t) ELSE Stage(t, "provisioned")
    /\ UNCHANGED <<request, organization, failed>>
ProvisionRequested(t) ==
    /\ Doing(t, "approve", "locked")
    /\ SlugFree(t, txn[t].slug)
    /\ UserFree(t, request[txn[t].request].by)
    /\ IF txn[t].slug \in DOMAIN organization THEN End(t) ELSE Stage(t, "provisioned")
    /\ UNCHANGED <<request, organization, event, failed>>

Decide(r, status, slug, admin) ==
    request' = [request EXCEPT ![r].status = status, ![r].slug = slug, ![r].reviewer = admin]

ApproveOrganizationRequest(t) ==
    /\ Doing(t, "approve", "provisioned")
    /\ organization' = Put(organization, txn[t].slug,
                           [owner |-> request[txn[t].request].by, request |-> txn[t].request])
    /\ Decide(txn[t].request, "approved", txn[t].slug, txn[t].user)
    /\ event' = event \cup {<<"approved", txn[t].request>>}
    /\ End(t)
    /\ UNCHANGED failed

RejectOrganizationRequest_KeepsSlug(t) ==
    /\ Doing(t, "reject", "locked")
    /\ Decide(txn[t].request, "rejected", CHOOSE slug \in Slugs : TRUE, txn[t].user)
    /\ event' = event \cup {<<"rejected", txn[t].request>>}
    /\ End(t)
    /\ UNCHANGED <<organization, failed>>
RejectOrganizationRequest(t) ==
    /\ Doing(t, "reject", "locked")
    /\ Decide(txn[t].request, "rejected", None, txn[t].user)
    /\ event' = event \cup {<<"rejected", txn[t].request>>}
    /\ End(t)
    /\ UNCHANGED <<organization, failed>>

BeginManualProvision(t, owner, name) ==
    /\ Begin(t, [op |-> "manual", stage |-> "begun", user |-> owner, name |-> name, tried |-> 0,
                 slug |-> None])
    /\ UNCHANGED <<request, organization, event, failed>>

\* The candidates are tried one after the other until an insert is not refused.
TryCandidate_Same(t) ==
    /\ Doing(t, "manual", "begun")
    /\ LET slug == Candidates[txn[t].name][1] IN
       /\ SlugFree(t, slug)
       /\ IF slug \in DOMAIN organization
          THEN txn' = txn
          ELSE txn' = [txn EXCEPT ![t].stage = "provisioned", ![t].slug = slug]
    /\ UNCHANGED <<request, organization, event, failed>>
TryCandidate(t) ==
    /\ Doing(t, "manual", "begun")
    /\ txn[t].tried < Len(Candidates[txn[t].name])
    /\ LET slug == Candidates[txn[t].name][txn[t].tried + 1] IN
       /\ SlugFree(t, slug)
       /\ IF slug \in DOMAIN organization
          THEN txn' = [txn EXCEPT ![t].tried = @ + 1]
          ELSE /\ UserFree(t, txn[t].user)
               /\ txn' = [txn EXCEPT ![t].stage = "provisioned", ![t].slug = slug]
    /\ UNCHANGED <<request, organization, event, failed>>

\* slug_unavailable
NoCandidateLeft(t) ==
    /\ Doing(t, "manual", "begun")
    /\ txn[t].tried = Len(Candidates[txn[t].name])
    /\ End(t)
    /\ UNCHANGED <<request, organization, event, failed>>

ManuallyProvisionOrganization(t) ==
    /\ Doing(t, "manual", "provisioned")
    /\ organization' = Put(organization, txn[t].slug, [owner |-> txn[t].user, request |-> None])
    /\ event' = event \cup {<<"manuallyProvisioned", txn[t].slug>>}
    /\ End(t)
    /\ UNCHANGED <<request, failed>>

-----------------------------------------------------------------------------
Start(t) ==
    \/ \E user \in Users : BeginRequest(t, user)
    \/ \E admin \in Admins, r \in Requests, slug \in Slugs : BeginDecision(t, "approve", admin, r, slug)
    \/ \E admin \in Admins, r \in Requests : BeginDecision(t, "reject", admin, r, None)
    \/ \E owner \in Users, name \in DOMAIN Candidates : BeginManualProvision(t, owner, name)

\* The steps of a transaction that is under way.  It can be stopped only by a
\* lock; the ids of requests are a bound of the model.
Step(t) ==
    \/ LockApplicant(t)
    \/ \E r \in Requests : CreateOrganizationRequest(t, r)
    \/ LockRequest(t) \/ ProvisionRequested(t)
    \/ ApproveOrganizationRequest(t) \/ RejectOrganizationRequest(t)
    \/ TryCandidate(t) \/ NoCandidateLeft(t) \/ ManuallyProvisionOrganization(t)

OutOfRequests(t) == Doing(t, "create", "locked") /\ DOMAIN request = Requests

Next == \E t \in Transactions : Start(t) \/ Step(t) \/ GiveUp(t)

\* A transaction goes on as long as the database serves it.  Waiters for a row
\* are queued, so a lock that is freed over and over is granted at some time:
\* fairness is strong.
Spec == Init /\ [][Next]_vars /\ \A t \in Transactions : SF_vars(Step(t))

-----------------------------------------------------------------------------
\* A request that races with another one of the same applicant is refused with
\* pending_request_exists; it never fails on the unique index (createOrganizationRequest
\* locks the applicant first).
NeverFails == ~failed

\* An approved request has the organization its approval made, owned by its
\* applicant, and every organization came from one approved request or from
\* manual provisioning: two administrators who decide at once do not leave a
\* second organization or one whose request was rejected.
OrganizationsComeFromApprovals ==
    /\ \A r \in DOMAIN request : request[r].status = "approved" =>
          /\ request[r].slug \in DOMAIN organization
          /\ organization[request[r].slug] = [owner |-> request[r].by, request |-> r]
    /\ \A s \in DOMAIN organization :
          IF organization[s].request = None
          THEN <<"manuallyProvisioned", s>> \in event
          ELSE request[organization[s].request].slug = s

\* The applicant is told one decision about a request, the one that stands: the
\* events in the outbox are those of the request's status.
EventsTellTheDecision ==
    \A r \in Requests :
        {type \in EventTypes : <<type, r>> \in event}
            = IF r \notin DOMAIN request THEN {}
              ELSE {"submitted"} \cup ({request[r].status} \ {"pending"})

\* A transaction that is not stopped ends, whatever the others hold: locks on
\* applicants, requests and slugs are never waited for in a circle, and the
\* search for a slug comes to an end.
TransactionsEnd ==
    \A t \in Transactions : txn[t] # None ~> (txn[t] = None \/ \E o \in Transactions : OutOfRequests(o))

\* Racing operations are refused and never break, and organizations, decisions
\* and events agree.
OnboardingConsistent ==
    TypeOK /\ NeverFails /\ OrganizationsComeFromApprovals /\ EventsTellTheDecision
=============================================================================
