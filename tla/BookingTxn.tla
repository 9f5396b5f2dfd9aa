----------------------------- MODULE BookingTxn -----------------------------
(***************************************************************************)
(* The booking writes of one organization as racing serializable           *)
(* transactions: each HTTP request runs attempts, an attempt decides on    *)
(* the snapshot it took, waits for the row locks it needs, writes a row    *)
(* version that other attempts' exclusion checks can see, and commits or   *)
(* fails with the SQLSTATE the retry loops of the code look at.            *)
(*                                                                         *)
(* PostgreSQL is external: what it is taken to guarantee is exactly the    *)
(* guard of the step that uses it.  It may refuse any attempt that met a   *)
(* concurrent one with 40001, so nothing here relies on it detecting a     *)
(* write skew.                                                             *)
(*                                                                         *)
(* Requests that roles, configuration or the clock refuse end without a    *)
(* write however they race, and are left out.  A booking is named by the   *)
(* request that creates it.                                                *)
(***************************************************************************)
EXTENDS Integers, FiniteSets

CONSTANTS
    Requests,          \* HTTP requests, one operation each
    Resources,
    Slots,             \* [resource, from, until] a request may ask for
    Kinds,             \* kinds of requests that arrive
    MaxSerialization,  \* MAX_SERIALIZATION_ATTEMPTS
    MaxReference,      \* MAX_PUBLIC_REFERENCE_ATTEMPTS
    MaxToken,          \* MAX_GUEST_MANAGEMENT_TOKEN_ATTEMPTS
    MaxOrgChanges,     \* bound: closings and reopenings of the organization
    MaxLost            \* bound: lost database connections

Creating == {"public", "manual"}
RequestKind == Creating \cup {"move", "cancel", "no_show", "revert"}

ASSUME SlotsAssumption ==
    /\ Slots \subseteq [resource : Resources, from : Nat, until : Nat]
    /\ \A s \in Slots : s.from < s.until
ASSUME KindsAssumption == Kinds \subseteq RequestKind
ASSUME AttemptsAssumption ==
    /\ MaxSerialization \in Nat \ {0}
    /\ MaxReference \in Nat \ {0}
    /\ MaxToken \in Nat \ {0}
ASSUME BoundsAssumption == MaxOrgChanges \in Nat /\ MaxLost \in Nat

VARIABLES
    table,       \* committed bookings: request that created it -> row
    open,        \* the organization is neither archived nor suspended
    orgChanges,  \* closings and reopenings so far
    request,     \* submitted requests -> what they ask for
    pc,          \* where it stands
    tries,       \* loop counters of its retry loops
    tx,          \* the current attempt: its snapshot and what changed since
    failure,     \* the error of the attempt that failed
    answer,      \* what the client was told
    applied,     \* commits of the request that took effect
    lost         \* lost connections so far

vars == <<table, open, orgChanges, request, pc, tries, tx, failure, answer,
          applied, lost>>

-----------------------------------------------------------------------------
Status == {"confirmed", "cancelled", "no_show"}
Row == [status : Status, slot : Slots]
Location == {"idle", "starting", "locking", "writing", "checking",
             "referencing", "committing", "failed", "answered"}
Failure == {"none", "40001", "40P01", "23P01", "reference_taken", "token_taken",
            "connection_lost"}
Answer == {"none", "ok", "closed", "unavailable", "invalid_status",
           "booking_conflict", "error"}
Request == [kind : RequestKind, booking : Requests, slot : Slots]
Tries == [serialization : 1 .. MaxSerialization, reference : 1 .. MaxReference,
          token : 1 .. MaxToken]
NoTable == [b \in {} |-> b]
NoAttempt == [snapshot |-> NoTable, open |-> FALSE, stale |-> {}, orgStale |-> FALSE]
FirstTry == [serialization |-> 1, reference |-> 1, token |-> 1]

\* One type invariant: rows, requests and attempts of the shapes above.
TypeOK ==
    /\ DOMAIN table \subseteq Requests
    /\ table \in [DOMAIN table -> Row]
    /\ open \in BOOLEAN
    /\ orgChanges \in 0 .. MaxOrgChanges
    /\ request \in [DOMAIN request -> Request]
    /\ pc \in [Requests -> Location]
    /\ \A c \in Requests : pc[c] # "idle" <=> c \in DOMAIN request
    /\ DOMAIN request \subseteq Requests
    /\ tries \in [Requests -> Tries]
    /\ \A c \in Requests :
          /\ DOMAIN tx[c].snapshot \subseteq Requests
          /\ tx[c].snapshot \in [DOMAIN tx[c].snapshot -> Row]
          /\ tx[c].open \in BOOLEAN
          /\ tx[c].stale \subseteq Requests
          /\ tx[c].orgStale \in BOOLEAN
    /\ failure \in [Requests -> Failure]
    /\ answer \in [Requests -> Answer]
    /\ applied \in [Requests -> Nat]
    /\ lost \in 0 .. MaxLost

-----------------------------------------------------------------------------
\* Rows and slots.

Confirmed(row) == row.status = "confirmed"

Overlapping(s, t) ==
    /\ s.resource = t.resource
    /\ s.from < t.until
    /\ t.from < s.until

Occupied(tab, slot) ==
    \E b \in DOMAIN tab : Confirmed(tab[b]) /\ Overlapping(tab[b].slot, slot)

\* The operators of booking_confirmed_resource_occupancy_excl.
Excludes_SameStart(s, t) == s.resource = t.resource /\ s.from = t.from
Excludes(s, t) ==
    /\ s.resource = t.resource
    /\ s.from < t.until
    /\ t.from < s.until

Creates(c) == request[c].kind \in Creating

\* The version of its booking's row that request c writes; row is the version
\* it replaces.
Rewritten(c, row) ==
    CASE request[c].kind = "move"    -> [row EXCEPT !.slot = request[c].slot]
      [] request[c].kind = "cancel"  -> [row EXCEPT !.status = "cancelled"]
      [] request[c].kind = "no_show" -> [row EXCEPT !.status = "no_show"]
      [] request[c].kind = "revert"  -> [row EXCEPT !.status = "confirmed"]
NewRow(c) ==
    IF Creates(c) THEN [status |-> "confirmed", slot |-> request[c].slot]
                  ELSE Rewritten(c, table[request[c].booking])

-----------------------------------------------------------------------------
\* Attempts and the locks they hold.

InTransaction == {"locking", "writing", "checking", "referencing", "committing"}
Active(c) == pc[c] \in InTransaction

\* The row version is in the table's indexes, uncommitted.
Written(c) == pc[c] \in {"checking", "referencing", "committing"}

\* FOR UPDATE on the organization (requireWritableOrganization), to the end of
\* the transaction; FOR KEY SHARE on it by the foreign key of a public insert.
HoldsOrganization(c) == request[c].kind # "public" /\ (pc[c] = "writing" \/ Written(c))
SharesOrganization(c) == request[c].kind = "public" /\ pc[c] = "committing"

Others(c) == {d \in DOMAIN request : d # c}

OrganizationHolders(c) == {d \in Others(c) : HoldsOrganization(d)}
OrganizationUsers(c) ==
    OrganizationHolders(c) \cup {d \in Others(c) : SharesOrganization(d)}

\* The exclusion check of the row version of c: the committed confirmed rows it
\* meets, and the attempts it has to wait for because their end decides whether
\* a row version it meets stays.
Met(c) ==
    {b \in DOMAIN table \ {request[c].booking} :
        Confirmed(table[b]) /\ Excludes(table[b].slot, NewRow(c).slot)}
Rewriting(c) == {d \in Others(c) : Written(d) /\ request[d].booking \in Met(c)}
Arriving(c) ==
    {d \in Others(c) : /\ Written(d)
                       /\ Confirmed(NewRow(d))
                       /\ Excludes(NewRow(d).slot, NewRow(c).slot)}
ExclusionRivals_Committed(c) == {}
ExclusionRivals(c) ==
    IF Confirmed(NewRow(c)) THEN Rewriting(c) \cup Arriving(c) ELSE {}
ExclusionViolated(c) ==
    /\ Confirmed(NewRow(c))
    /\ Met(c) \ {request[d].booking : d \in Rewriting(c)} # {}

WaitsFor(c) ==
    CASE pc[c] = "locking"     -> OrganizationUsers(c)
      [] pc[c] = "checking"    -> ExclusionRivals(c)
      [] pc[c] = "referencing" -> OrganizationHolders(c)
      [] OTHER -> {}

\* c waits, over others, for itself.
Deadlocked(c) ==
    \A S \in SUBSET DOMAIN request :
        /\ WaitsFor(c) \subseteq S
        /\ \A d \in S : WaitsFor(d) \subseteq S
        => c \in S

\* The attempt met a concurrent one that may have written.
Contended(c) ==
    \/ tx[c].stale # {} \/ tx[c].orgStale
    \/ \E d \in Others(c) : Active(d)

-----------------------------------------------------------------------------
\* How an attempt ends.

\* The client is told a; a refusal commits a transaction that wrote nothing.
Reply(c, a) ==
    /\ pc' = [pc EXCEPT ![c] = "answered"]
    /\ answer' = [answer EXCEPT ![c] = a]
    /\ UNCHANGED failure

Goto(c, location) ==
    /\ pc' = [pc EXCEPT ![c] = location]
    /\ UNCHANGED <<answer, failure>>

\* The attempt is rolled back; the retry loop gets the error.
Raise(c, error) ==
    /\ pc' = [pc EXCEPT ![c] = "failed"]
    /\ failure' = [failure EXCEPT ![c] = error]
    /\ UNCHANGED answer

Rollback(c, error) ==
    /\ Raise(c, error)
    /\ tx' = [tx EXCEPT ![c] = NoAttempt]
    /\ UNCHANGED <<table, open, orgChanges, request, tries, applied>>

\* The row version of c becomes the committed one; the snapshots of the other
\* attempts are older than it.
Apply(c) ==
    LET b == request[c].booking
    IN  /\ table' = [d \in DOMAIN table \cup {b} |-> IF d = b THEN NewRow(c) ELSE table[d]]
        /\ applied' = [applied EXCEPT ![c] = @ + 1]
        /\ tx' = [d \in Requests |->
                     IF d = c THEN NoAttempt
                     ELSE IF Active(d) THEN [tx[d] EXCEPT !.stale = @ \cup {b}]
                     ELSE tx[d]]

-----------------------------------------------------------------------------
\* The operations.

Submit(c) ==
    /\ pc[c] = "idle"
    /\ \E kind \in Kinds, b \in Requests, s \in Slots :
          /\ IF kind \in Creating THEN b = c
             ELSE b \in DOMAIN table /\ (kind # "move" => s = table[b].slot)
          /\ request' = [d \in DOMAIN request \cup {c} |->
                            IF d = c THEN [kind |-> kind, booking |-> b, slot |-> s]
                            ELSE request[d]]
    /\ Goto(c, "starting")
    /\ UNCHANGED <<table, open, orgChanges, tries, tx, applied, lost>>

\* An attempt takes its snapshot.  A public request is decided on it alone:
\* loadPublicAccess reads the organization without a lock.
Begin(c) ==
    /\ pc[c] = "starting"
    /\ IF request[c].kind # "public" THEN Goto(c, "locking")
       ELSE IF ~open THEN Reply(c, "closed")
       ELSE IF Occupied(table, request[c].slot) THEN Reply(c, "unavailable")
       ELSE Goto(c, "writing")
    /\ tx' = [tx EXCEPT ![c] =
                 IF pc'[c] = "answered" THEN NoAttempt
                 ELSE [snapshot |-> table, open |-> open, stale |-> {}, orgStale |-> FALSE]]
    /\ UNCHANGED <<table, open, orgChanges, request, tries, applied, lost>>

\* The status a booking must have for the operation.
RequiredStatus(kind) == IF kind = "revert" THEN "no_show" ELSE "confirmed"

\* SELECT ... FOR UPDATE of a row that was updated after the snapshot fails.
RowChanged_Unlocked(c) == FALSE
RowChanged(c) == request[c].booking \in tx[c].stale

\* What the operation decides once it holds the organization.  A reschedule
\* looks at the configured slots only, not at the other bookings.
Decide(c) ==
    IF ~tx[c].open THEN Reply(c, "closed")
    ELSE IF Creates(c)
    THEN IF Occupied(tx[c].snapshot, request[c].slot)
         THEN Reply(c, "unavailable") ELSE Goto(c, "writing")
    ELSE IF RowChanged(c) THEN Raise(c, "40001")
    ELSE IF tx[c].snapshot[request[c].booking].status # RequiredStatus(request[c].kind)
    THEN Reply(c, "invalid_status")
    ELSE Goto(c, "writing")

LockOrganization(c) ==
    /\ pc[c] = "locking"
    /\ OrganizationUsers(c) = {}
    /\ IF tx[c].orgStale THEN Raise(c, "40001") ELSE Decide(c)
    /\ tx' = [tx EXCEPT ![c] = IF pc'[c] = "writing" THEN @ ELSE NoAttempt]
    /\ UNCHANGED <<table, open, orgChanges, request, tries, applied, lost>>

\* The row version enters the indexes.  A generated reference or token may be
\* one that another booking has.
Write(c) ==
    /\ pc[c] = "writing"
    /\ \/ /\ Goto(c, "checking")
          /\ UNCHANGED <<table, open, orgChanges, request, tries, tx, applied>>
       \/ /\ Creates(c)
          /\ DOMAIN table # {}
          /\ \E error \in {"reference_taken", "token_taken"} : Rollback(c, error)
    /\ UNCHANGED lost

\* The exclusion constraint, checked by the statement that wrote the row.
Exclude(c) ==
    /\ pc[c] = "checking"
    /\ \/ /\ ExclusionViolated(c)
          /\ Rollback(c, "23P01")
       \/ /\ ~ExclusionViolated(c)
          /\ ExclusionRivals(c) = {}
          /\ Goto(c, IF request[c].kind = "public" THEN "referencing" ELSE "committing")
          /\ UNCHANGED <<table, open, orgChanges, request, tries, tx, applied>>
    /\ UNCHANGED lost

\* booking_organization_fk locks the organization row against FOR UPDATE; the
\* lock fails if an archive or a suspension changed the row after the snapshot.
ReferenceOrganization_Unchecked(c) ==
    /\ pc[c] = "referencing"
    /\ Goto(c, "committing")
    /\ UNCHANGED <<table, open, orgChanges, request, tries, tx, applied, lost>>
ReferenceOrganization(c) ==
    /\ pc[c] = "referencing"
    /\ OrganizationHolders(c) = {}
    /\ IF tx[c].orgStale THEN Rollback(c, "40001")
       ELSE /\ Goto(c, "committing")
            /\ UNCHANGED <<table, open, orgChanges, request, tries, tx, applied>>
    /\ UNCHANGED lost

Commit(c) ==
    /\ pc[c] = "committing"
    /\ Apply(c)
    /\ Reply(c, "ok")
    /\ UNCHANGED <<open, orgChanges, request, tries, lost>>

-----------------------------------------------------------------------------
\* Errors raised by the database.

SerializationFailure(c) ==
    /\ Active(c)
    /\ Contended(c)
    /\ Rollback(c, "40001")
    /\ UNCHANGED lost

DeadlockVictim(c) ==
    /\ WaitsFor(c) # {}
    /\ Deadlocked(c)
    /\ Rollback(c, "40P01")
    /\ UNCHANGED lost

\* The connection breaks: the attempt is rolled back, or it had just committed.
LoseConnection(c) ==
    /\ lost < MaxLost
    /\ lost' = lost + 1
    /\ \/ Active(c) /\ Rollback(c, "connection_lost")
       \/ /\ pc[c] = "committing"
          /\ Apply(c)
          /\ Raise(c, "connection_lost")
          /\ UNCHANGED <<open, orgChanges, request, tries>>

-----------------------------------------------------------------------------
\* The retry loops.

\* runWithSerializationRetry and the inner loop of
\* runConfirmedBookingWriteWithRetries.
Retries_AnyError(c) == tries[c].serialization < MaxSerialization
Retries_OnceMore(c) ==
    /\ failure[c] \in {"40001", "40P01"}
    /\ tries[c].serialization <= MaxSerialization
Retries(c) ==
    /\ failure[c] \in {"40001", "40P01"}
    /\ tries[c].serialization < MaxSerialization

RetriesReference(c) ==
    /\ failure[c] = "reference_taken"
    /\ tries[c].reference < MaxReference

RetriesToken(c) == failure[c] = "token_taken" /\ tries[c].token < MaxToken

NextTry_NotCounted(t) == t
NextTry(t) == [t EXCEPT !.serialization = @ + 1]
NextReference(t) == [t EXCEPT !.serialization = 1, !.reference = @ + 1]
NextToken(t) == [serialization |-> 1, reference |-> 1, token |-> t.token + 1]

\* Errors the operation reports as booking_conflict; others end in a 500.
ConflictErrors_Serialization(kind) == {"40001", "40P01", "23P01"}
ConflictErrors(kind) ==
    CASE kind \in Creating \cup {"move"} -> {"40P01", "23P01"}
      [] kind = "revert" -> {"23P01"}
      [] OTHER -> {}

HandleFailure(c) ==
    /\ pc[c] = "failed"
    /\ IF Retries(c) \/ RetriesReference(c) \/ RetriesToken(c)
       THEN /\ tries' = [tries EXCEPT ![c] =
                            IF Retries(c) THEN NextTry(@)
                            ELSE IF RetriesReference(c) THEN NextReference(@)
                            ELSE NextToken(@)]
            /\ pc' = [pc EXCEPT ![c] = "starting"]
            /\ UNCHANGED answer
       ELSE /\ pc' = [pc EXCEPT ![c] = "answered"]
            /\ answer' = [answer EXCEPT ![c] =
                             IF failure[c] \in ConflictErrors(request[c].kind)
                             THEN "booking_conflict" ELSE "error"]
            /\ UNCHANGED tries
    /\ failure' = [failure EXCEPT ![c] = "none"]
    /\ UNCHANGED <<table, open, orgChanges, request, tx, applied, lost>>

-----------------------------------------------------------------------------
\* Archive, restore, suspend and unsuspend: FOR UPDATE, then the update, in one
\* short transaction.
ChangeOrganization ==
    /\ orgChanges < MaxOrgChanges
    /\ \A c \in DOMAIN request : ~HoldsOrganization(c) /\ ~SharesOrganization(c)
    /\ open' = ~open
    /\ orgChanges' = orgChanges + 1
    /\ tx' = [c \in Requests |->
                 IF Active(c) THEN [tx[c] EXCEPT !.orgStale = TRUE] ELSE tx[c]]
    /\ UNCHANGED <<table, request, pc, tries, failure, answer, applied, lost>>

\* Nothing is left to do.
Rest ==
    /\ \A c \in Requests : pc[c] = "answered"
    /\ UNCHANGED vars

Init ==
    /\ table = NoTable
    /\ open = TRUE
    /\ orgChanges = 0
    /\ request = [c \in {} |-> c]
    /\ pc = [c \in Requests |-> "idle"]
    /\ tries = [c \in Requests |-> FirstTry]
    /\ tx = [c \in Requests |-> NoAttempt]
    /\ failure = [c \in Requests |-> "none"]
    /\ answer = [c \in Requests |-> "none"]
    /\ applied = [c \in Requests |-> 0]
    /\ lost = 0

\* What the program and the database do by themselves.
Step(c) ==
    \/ Begin(c) \/ LockOrganization(c) \/ Write(c) \/ Exclude(c)
    \/ ReferenceOrganization(c) \/ Commit(c)
    \/ DeadlockVictim(c)
    \/ HandleFailure(c)

Next ==
    \/ \E c \in Requests : Submit(c) \/ Step(c) \/ SerializationFailure(c) \/ LoseConnection(c)
    \/ ChangeOrganization
    \/ Rest

Spec == Init /\ [][Next]_vars

\* A started request keeps running; PostgreSQL grants a free lock and ends a
\* deadlock after deadlock_timeout.
FairSpec == Spec /\ \A c \in Requests : WF_vars(Step(c))

-----------------------------------------------------------------------------
\* The slots that confirmed bookings hold, as the abstract calendar sees them.
Held == [b \in {d \in DOMAIN table : Confirmed(table[d])} |-> table[b].slot]

BookedCalendar == INSTANCE Calendar WITH BookingIds <- Requests, held <- Held

\* However the attempts interleave, every commit changes one booking's slot as
\* the calendar allows: the exclusion constraint, with the waits it implies, is
\* enough although most operations decide on an old snapshot or do not look at
\* the other bookings at all (revert, reschedule).
ImplementsCalendar == BookedCalendar!Spec

\* Confirmed bookings of a resource never overlap (README.md, "Database-level
\* conflict protection").
NoOverlap == BookedCalendar!NoDoubleBooking

\* What the client is told is what happened: a success took effect exactly
\* once and a refusal not at all, whatever was retried on the way.  Only an
\* error (500) leaves it open, and even then nothing took effect twice.
AppliedAsAnswered ==
    \A c \in Requests :
        /\ applied[c] <= 1
        /\ answer[c] = "ok" => applied[c] = 1
        /\ answer[c] \notin {"none", "ok", "error"} => applied[c] = 0

\* A slot is not lost between two requests that refuse each other: once
\* everyone is answered, a booking_conflict goes with a success, or with an
\* error or a closed organization that stopped the one who would have won.
ConflictHasWinner ==
    /\ \A c \in Requests : pc[c] = "answered"
    /\ \E c \in Requests : answer[c] = "booking_conflict"
    => \E c \in Requests : answer[c] \in {"ok", "error", "closed"}

\* No booking changes while the organization is archived or suspended, although
\* a public request only read its state from a snapshot ("Lock lifecycle state
\* so archive/suspension cannot race with this write", write-policy.ts).
ClosedOrganizationKeepsBookings == [][table' # table => open]_vars

\* A cancellation is not undone by an operation that read the booking before
\* it: a move or a no-show that was already under way fails and is decided anew.
CancellationIsFinal ==
    [][\A b \in DOMAIN table :
          table[b].status = "cancelled" => table'[b] = table[b]]_vars

\* Every request is answered: the loops give up, and no attempt waits forever
\* for locks or row versions of others.
RequestsAreAnswered ==
    \A c \in Requests : pc[c] = "starting" ~> pc[c] = "answered"

\* The database and the requests agree: retry counters stay in their limits, and
\* every answer matches what took effect.
AnswersConsistent == TypeOK /\ AppliedAsAnswered
=============================================================================
