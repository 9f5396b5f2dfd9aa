---------------------------- MODULE ReminderRows ----------------------------
(***************************************************************************)
(* The row locks of the reminder pipeline.  One organization, one booking  *)
(* and its reminders are written by requests of the API, by the scheduler  *)
(* of every worker and by the e-mail handler.  The requests lock           *)
(* organization, booking, reminder; the handler locks them in the opposite *)
(* order and keeps them while it calls the e-mail provider; the scheduler  *)
(* locks only the reminder and reads the rest from a snapshot.             *)
(*                                                                         *)
(* PostgreSQL is external: a row lock is exclusive and held to the end of  *)
(* its transaction, a serializable transaction that meets a row changed    *)
(* since its snapshot fails with 40001, a read-committed one goes on with  *)
(* the newest version, and of a circle of waiting transactions one is      *)
(* ended with 40P01.  Slots and other bookings are the matter of           *)
(* BookingTxn; an event's way to a handler is that of OutboxDelivery.      *)
(***************************************************************************)
EXTENDS Integers, Sequences, FiniteSets

CONSTANTS
    Requests,          \* requests of the API, one each
    Kinds,             \* what they may ask for
    Schedulers,        \* the reminder schedulers of the workers
    Handlers,          \* deliveries of reminder events handled side by side
    Starts,            \* starts the booking may have
    Lead,              \* bookingReminderPolicy.leadTimeMs
    MaxClock,          \* bound: the last instant looked at
    MaxSerialization,  \* MAX_SERIALIZATION_ATTEMPTS
    MaxAttempts        \* EVENT_MAX_ATTEMPTS

Nothing == "none"
\* Rows are numbers: the reminders by their place, and two more.
Booking == 0
Organization == -1
Closing == {"suspend", "unsuspend"}
RequestKind == {"cancel", "no_show", "revert", "move", "forget_email"} \cup Closing

VARIABLES
    clock,      \* wall time
    open,       \* the organization is not suspended
    booking,    \* status, start and whether there is an e-mail
    reminders,  \* rows of booking_reminder, in insertion order
    recorded,   \* reminder -> booking.reminder_due events written for it
    event,      \* reminder -> how far its event came, and the attempts on it
    request,    \* what a request asks for, since when, and its attempts
    at,         \* where each request, scheduler and handler stands
    holder,     \* locked rows -> who holds them
    view        \* what a request or a scheduler read before its locks

vars == <<clock, open, booking, reminders, recorded, event, request, at, holder,
          view>>

Actors == Requests \cup Schedulers \cup Handlers
Reminders == 1 .. Cardinality(Requests) + 1
Row == {Organization, Booking} \cup Reminders
Reminder == [start : Starts,
             status : {"pending", "dispatched", "sent", "skipped", "cancelled"}]

RequestAt == {"idle", "beginning", "organization", "booking", "reminder",
              "committing", "answered", "failed"}
SchedulerAt == {"polling", "selected", "writing"}
HandlerAt == {"waiting", "reminder", "booking", "organization", "deciding",
              "sending"}

\* What the constants are: finitely many requests and schedulers, nobody in two
\* roles, and limits that allow a first attempt.
Sized ==
    /\ IsFiniteSet(Requests) /\ IsFiniteSet(Schedulers)
    /\ Requests \cap Schedulers = {}
    /\ Requests \cap Handlers = {}
    /\ Schedulers \cap Handlers = {}
    /\ Kinds \subseteq RequestKind
    /\ MaxClock \in Nat /\ MaxSerialization \in Nat \ {0} /\ MaxAttempts \in Nat \ {0}
ASSUME SizedAssumption == Sized

\* One type invariant: rows, events and actors of the shapes above, and a lock
\* is held by an actor in a transaction.
TypeOK ==
    /\ clock \in 0 .. MaxClock
    /\ open \in BOOLEAN
    /\ booking \in [status : {"confirmed", "cancelled", "no_show"},
                    start : Starts, email : BOOLEAN]
    /\ reminders \in Seq(Reminder) /\ Len(reminders) <= Cardinality(Requests) + 1
    /\ recorded \in [Reminders -> 0 .. Cardinality(Schedulers)]
    /\ \A i \in DOMAIN event :
          /\ event[i].state \in {"queued", "received", "dead"}
          /\ event[i].attempts \in 0 .. MaxAttempts
          /\ event[i].state = "dead" <=> event[i].attempts = MaxAttempts
    /\ \A c \in Requests :
          /\ at[c] \in RequestAt
          /\ request[c].attempt \in 1 .. MaxSerialization
    /\ \A s \in Schedulers : at[s] \in SchedulerAt
    /\ \A h \in Handlers : at[h] \in HandlerAt
    /\ DOMAIN holder \subseteq Row
    /\ \A r \in DOMAIN holder :
          at[holder[r]] \notin {"idle", "answered", "failed", "polling", "waiting"}

-----------------------------------------------------------------------------
\* Rows.

RowFree(r) == r \notin DOMAIN holder
HeldBy(a) == {r \in DOMAIN holder : holder[r] = a}
Take(a, rows) == [r \in DOMAIN holder \cup rows |-> IF r \in rows THEN a ELSE holder[r]]
Drop(a) == [r \in DOMAIN holder \ HeldBy(a) |-> holder[r]]

Pending(rs) == {i \in DOMAIN rs : rs[i].status = "pending"}

\* The booking is as reminder i was planned for.
Fits(i) ==
    /\ booking.status = "confirmed"
    /\ booking.email
    /\ booking.start = reminders[i].start

-----------------------------------------------------------------------------
\* Requests of the API.  view[c].stale: rows committed since the snapshot.

\* What an actor has read outlives its transaction in no variable of the code;
\* the rows it changed are stale for the snapshots that are still open.
NothingRead(a) ==
    IF a \in Requests THEN [reminders |-> <<>>, stale |-> {}]
    ELSE [reminder |-> 0, open |-> TRUE, now |-> 0,
          booking |-> [status |-> Nothing, start |-> 0, email |-> FALSE]]
ViewsAfter(a, rows) ==
    [x \in Requests \cup Schedulers |->
        IF x = a THEN NothingRead(x)
        ELSE IF x \in Requests /\ at[x] \in {"organization", "booking", "reminder"}
        THEN [view[x] EXCEPT !.stale = @ \cup rows] ELSE view[x]]

\* runWithSerializationRetry: now is taken once, outside the attempts.
Submit(c, k, start) ==
    /\ at[c] = "idle"
    /\ k = "move" => start # booking.start
    /\ k # "move" => start = booking.start
    /\ request' = [request EXCEPT ![c] = [kind |-> k, start |-> start, now |-> clock,
                                          attempt |-> 1]]
    /\ at' = [at EXCEPT ![c] = "beginning"]
    /\ UNCHANGED <<clock, open, booking, reminders, recorded, event, holder, view>>

\* The first read of the attempt: membership, or the booking of a token.
Begin(c) ==
    /\ at[c] = "beginning"
    /\ view' = [view EXCEPT ![c] = [reminders |-> reminders, stale |-> {}]]
    /\ at' = [at EXCEPT ![c] = "organization"]
    /\ UNCHANGED <<clock, open, booking, reminders, recorded, event, request, holder>>

Answer(c) ==
    /\ at' = [at EXCEPT ![c] = "answered"]
    /\ holder' = Drop(c)
    /\ view' = ViewsAfter(c, {})
    /\ UNCHANGED <<clock, open, booking, reminders, recorded, event, request>>

\* 40001 or 40P01: the attempt is rolled back and repeated.
Retries_Uncounted(c) ==
    /\ request' = request
    /\ at' = [at EXCEPT ![c] = "beginning"]
Retries(c) ==
    IF request[c].attempt < MaxSerialization
    THEN /\ request' = [request EXCEPT ![c].attempt = @ + 1]
         /\ at' = [at EXCEPT ![c] = "beginning"]
    ELSE /\ at' = [at EXCEPT ![c] = "failed"]
         /\ UNCHANGED request
Abort(c) ==
    /\ Retries(c)
    /\ holder' = Drop(c)
    /\ view' = ViewsAfter(c, {})
    /\ UNCHANGED <<clock, open, booking, reminders, recorded, event>>

Lock(c, r, next) ==
    /\ holder' = Take(c, {r})
    /\ at' = [at EXCEPT ![c] = next]
    /\ UNCHANGED <<clock, open, booking, reminders, recorded, event, request, view>>

Suspends(c) == request[c].kind \in Closing

\* requireWritableOrganization; a suspension, read committed, looks at the row
\* as it is.
LockOrganization(c) ==
    /\ at[c] = "organization"
    /\ RowFree(Organization)
    /\ IF Suspends(c) THEN
           IF open = (request[c].kind = "suspend")
           THEN Lock(c, Organization, "committing") ELSE Answer(c)
       ELSE IF Organization \in view[c].stale THEN Abort(c)
       ELSE IF ~open THEN Answer(c)
       ELSE Lock(c, Organization, "booking")

\* The status an operation asks of the booking.
Applies(c) ==
    /\ booking.status = IF request[c].kind = "revert" THEN "no_show" ELSE "confirmed"
    /\ request[c].kind = "no_show" => booking.start <= request[c].now
    /\ request[c].kind = "forget_email" => request[c].now < booking.start

LockBooking(c) ==
    /\ at[c] = "booking"
    /\ RowFree(Booking)
    /\ IF Booking \in view[c].stale THEN Abort(c)
       ELSE IF ~Applies(c) THEN Answer(c)
       ELSE Lock(c, Booking, "reminder")

\* The pending reminder of the snapshot, for the update or SELECT ... FOR UPDATE
\* of cancelPendingBookingReminderInTransaction and syncBookingReminderInTransaction.
LockReminder(c) ==
    /\ at[c] = "reminder"
    /\ \A i \in Pending(view[c].reminders) : RowFree(i)
    /\ IF Pending(view[c].reminders) \cap view[c].stale # {} THEN Abort(c)
       ELSE /\ holder' = Take(c, Pending(view[c].reminders))
            /\ at' = [at EXCEPT ![c] = "committing"]
            /\ UNCHANGED <<clock, open, booking, reminders, recorded, event, request, view>>

Changed(c) ==
    CASE request[c].kind = "cancel"       -> [booking EXCEPT !.status = "cancelled"]
      [] request[c].kind = "no_show"      -> [booking EXCEPT !.status = "no_show"]
      [] request[c].kind = "revert"       -> [booking EXCEPT !.status = "confirmed"]
      [] request[c].kind = "move"         -> [booking EXCEPT !.start = request[c].start]
      [] request[c].kind = "forget_email" -> [booking EXCEPT !.email = FALSE]

Eligible(b, now) == b.status = "confirmed" /\ b.email /\ b.start > now + Lead

\* The reminders after the operation: a pending one is cancelled unless it still
\* fits, and one is added where the policy asks for it and none went out yet.
KeptPending_Any(b, now, rs) == Pending(rs)
KeptPending(b, now, rs) == {i \in Pending(rs) : Eligible(b, now) /\ rs[i].start = b.start}
Synchronized(c, b) ==
    LET now == request[c].now
        seen == view[c].reminders
        kept == KeptPending(b, now, reminders)
        cancelled == [i \in DOMAIN reminders |->
                        IF i \in Pending(reminders) \ kept
                        THEN [reminders[i] EXCEPT !.status = "cancelled"]
                        ELSE reminders[i]]
        wentOut == \E i \in DOMAIN seen :
                      seen[i].start = b.start /\ seen[i].status \in {"dispatched", "sent"}
    IN IF /\ Eligible(b, now) /\ kept = {}
          /\ request[c].kind = "move" \/ ~wentOut
       THEN Append(cancelled, [start |-> b.start, status |-> "pending"])
       ELSE cancelled

Commit(c) ==
    /\ at[c] = "committing"
    /\ IF Suspends(c)
       THEN /\ open' = (request[c].kind = "unsuspend")
            /\ view' = ViewsAfter(c, {Organization})
            /\ UNCHANGED <<booking, reminders>>
       ELSE LET after == Synchronized(c, Changed(c)) IN
            /\ booking' = Changed(c)
            /\ reminders' = after
            /\ view' = ViewsAfter(c, {Booking} \cup
                  {i \in DOMAIN reminders : after[i] # reminders[i]})
            /\ UNCHANGED open
    /\ at' = [at EXCEPT ![c] = "answered"]
    /\ holder' = Drop(c)
    /\ UNCHANGED <<clock, recorded, event, request>>

-----------------------------------------------------------------------------
\* dispatchDueBookingReminderBatch, one reminder at a time.

Due(rs, now) == {i \in Pending(rs) : rs[i].start <= now + Lead}

\* The select's snapshot: booking and organization are read, not locked.
Select(s, i) ==
    /\ at[s] = "polling"
    /\ i \in Due(reminders, clock)
    /\ view' = [view EXCEPT ![s] = [reminder |-> i, booking |-> booking, open |-> open,
                                    now |-> clock]]
    /\ at' = [at EXCEPT ![s] = "selected"]
    /\ UNCHANGED <<clock, open, booking, reminders, recorded, event, request, holder>>

\* FOR UPDATE OF reminder SKIP LOCKED: a row another transaction holds is left
\* out, and so is one that is no longer pending.
TakeDue_Unlocked(s) ==
    /\ UNCHANGED <<holder, view>>
    /\ at' = [at EXCEPT ![s] = "writing"]
TakeDue_SchedulersOnly(s) ==
    LET i == view[s].reminder IN
    IF /\ i \in Pending(reminders)
       /\ \A t \in Schedulers \ {s} : at[t] = "writing" => view[t].reminder # i
    THEN at' = [at EXCEPT ![s] = "writing"] /\ UNCHANGED <<holder, view>>
    ELSE /\ at' = [at EXCEPT ![s] = "polling"]
         /\ view' = ViewsAfter(s, {})
         /\ UNCHANGED holder
TakeDue(s) ==
    LET i == view[s].reminder IN
    IF RowFree(i) /\ i \in Pending(reminders)
    THEN /\ holder' = Take(s, {i})
         /\ at' = [at EXCEPT ![s] = "writing"]
         /\ UNCHANGED view
    ELSE /\ at' = [at EXCEPT ![s] = "polling"]
         /\ view' = ViewsAfter(s, {})
         /\ UNCHANGED holder
LockDue(s) ==
    /\ at[s] = "selected"
    /\ TakeDue(s)
    /\ UNCHANGED <<clock, open, booking, reminders, recorded, event, request>>

SkipReason(v, rs) ==
    \/ v.booking.status # "confirmed"
    \/ ~v.booking.email
    \/ v.booking.start # rs[v.reminder].start
    \/ v.booking.start <= v.now
    \/ ~v.open

\* The updates carry status = 'pending'; the event does not.
Dispatch(s) ==
    LET i == view[s].reminder
        skip == SkipReason(view[s], reminders)
    IN
    /\ at[s] = "writing"
    /\ i \notin DOMAIN holder \ HeldBy(s)
    /\ reminders' = IF reminders[i].status # "pending" THEN reminders
                    ELSE [reminders EXCEPT ![i].status =
                             IF skip THEN "skipped" ELSE "dispatched"]
    /\ recorded' = IF skip THEN recorded ELSE [recorded EXCEPT ![i] = @ + 1]
    /\ event' = IF skip \/ i \in DOMAIN event THEN event
                ELSE [j \in DOMAIN event \cup {i} |->
                        IF j = i THEN [state |-> "queued", attempts |-> 0] ELSE event[j]]
    /\ view' = ViewsAfter(s, {i})
    /\ at' = [at EXCEPT ![s] = "polling"]
    /\ holder' = Drop(s)
    /\ UNCHANGED <<clock, open, booking, request>>

-----------------------------------------------------------------------------
\* The e-mail handler, inside processWithIdempotency: the reminder it handles is
\* the one it holds.

Handled(h) == CHOOSE i \in HeldBy(h) : i > 0

\* The statement asks for the reminder first; the advisory lock keeps a second
\* delivery of the same event out.
Receive(h, i) ==
    /\ at[h] = "waiting"
    /\ i \in DOMAIN event
    /\ event[i].state = "queued"
    /\ RowFree(i)
    /\ holder' = Take(h, {i})
    /\ at' = [at EXCEPT ![h] = "booking"]
    /\ UNCHANGED <<clock, open, booking, reminders, recorded, event, request, view>>

LockJoined_ReminderOnly(h) ==
    /\ at[h] = "booking"
    /\ holder' = holder
    /\ at' = [at EXCEPT ![h] = "deciding"]
\* FOR UPDATE OF reminder, booking, organization, in this order.
LockJoined(h) ==
    \/ /\ at[h] = "booking"
       /\ RowFree(Booking)
       /\ holder' = Take(h, {Booking})
       /\ at' = [at EXCEPT ![h] = "organization"]
    \/ /\ at[h] = "organization"
       /\ RowFree(Organization)
       /\ holder' = Take(h, {Organization})
       /\ at' = [at EXCEPT ![h] = "deciding"]
LockNext(h) ==
    /\ LockJoined(h)
    /\ UNCHANGED <<clock, open, booking, reminders, recorded, event, request, view>>

Finish(h, status) ==
    LET i == Handled(h) IN
    /\ reminders' = IF reminders[i].status = "dispatched"
                    THEN [reminders EXCEPT ![i].status = status] ELSE reminders
    /\ event' = [event EXCEPT ![i].state = "received"]
    /\ view' = ViewsAfter(h, {i})
    /\ at' = [at EXCEPT ![h] = "waiting"]
    /\ holder' = Drop(h)
    /\ UNCHANGED <<clock, open, booking, recorded, request>>

\* processReminderEmail: every reason to skip, and otherwise the call.
Deliverable(i) ==
    /\ reminders[i].status = "dispatched"
    /\ Fits(i)
    /\ booking.start > clock
    /\ open
Decide(h) ==
    /\ at[h] = "deciding"
    /\ IF Deliverable(Handled(h))
       THEN /\ at' = [at EXCEPT ![h] = "sending"]
            /\ UNCHANGED <<clock, open, booking, reminders, recorded, event, request,
                           holder, view>>
       ELSE Finish(h, "skipped")

Sent(h) == at[h] = "sending" /\ Finish(h, "sent")

\* handleDelivery: the transaction is rolled back and the event comes again,
\* until its attempts are used up.
Retried_OnceMore(tried) == tried <= MaxAttempts
Retried(tried) == tried < MaxAttempts
HandlerFails(h) ==
    LET i == Handled(h)
        tried == event[i].attempts + 1
    IN
    /\ event' = [event EXCEPT ![i] =
          [state |-> IF Retried(tried) THEN "queued" ELSE "dead", attempts |-> tried]]
    /\ at' = [at EXCEPT ![h] = "waiting"]
    /\ holder' = Drop(h)
    /\ UNCHANGED <<clock, open, booking, reminders, recorded, request, view>>
ProviderFails(h) == at[h] = "sending" /\ HandlerFails(h)

-----------------------------------------------------------------------------
\* Waiting transactions.

\* The row an actor waits for, if it waits.
Wanted(a) ==
    CASE at[a] = "organization" -> {Organization} \ {r \in Row : RowFree(r)}
      [] at[a] = "booking"      -> {Booking} \ {r \in Row : RowFree(r)}
      [] at[a] = "reminder"     -> {i \in Pending(view[a].reminders) : ~RowFree(i)}
      [] OTHER                  -> {}
WaitsFor(a) == {holder[r] : r \in Wanted(a)}

\* a is in a circle of transactions that wait for each other.
Deadlocked(a) ==
    \E S \in SUBSET (Requests \cup Handlers) :
        /\ a \in S
        /\ \A x \in S : WaitsFor(x) \cap S # {}
        /\ \A y \in S : \E x \in S : y \in WaitsFor(x)

DeadlockVictim(a) ==
    /\ Deadlocked(a)
    /\ IF a \in Requests THEN Abort(a) ELSE HandlerFails(a)

Tick ==
    /\ clock < MaxClock
    /\ clock' = clock + 1
    /\ UNCHANGED <<open, booking, reminders, recorded, event, request, at, holder, view>>

-----------------------------------------------------------------------------
Init ==
    /\ clock = 0
    /\ open = TRUE
    /\ \E start \in Starts :
          /\ booking = [status |-> "confirmed", start |-> start, email |-> TRUE]
          /\ reminders = IF start > Lead THEN <<[start |-> start, status |-> "pending"]>>
                         ELSE <<>>
    /\ recorded = [i \in Reminders |-> 0]
    /\ event = [i \in {} |-> <<>>]
    /\ request = [c \in Requests |-> [kind |-> Nothing, start |-> 0, now |-> 0, attempt |-> 1]]
    /\ at = [a \in Actors |-> IF a \in Requests THEN "idle"
                              ELSE IF a \in Schedulers THEN "polling" ELSE "waiting"]
    /\ holder = [r \in {} |-> Nothing]
    /\ view = [a \in Requests \cup Schedulers |-> NothingRead(a)]

RequestStep(c) ==
    \/ Begin(c)
    \/ LockOrganization(c)
    \/ LockBooking(c)
    \/ LockReminder(c)
    \/ Commit(c)
SchedulerStep(s) == (\E i \in DOMAIN reminders : Select(s, i)) \/ LockDue(s) \/ Dispatch(s)
HandlerStep(h) ==
    \/ \E i \in DOMAIN event : Receive(h, i)
    \/ LockNext(h)
    \/ Decide(h)
    \/ Sent(h)
    \/ ProviderFails(h)

Next ==
    \/ Tick
    \/ \E c \in Requests : RequestStep(c)
    \/ \E c \in Requests, k \in Kinds, start \in Starts : Submit(c, k, start)
    \/ \E s \in Schedulers : SchedulerStep(s)
    \/ \E h \in Handlers : HandlerStep(h)
    \/ \E a \in Requests \cup Handlers : DeadlockVictim(a)

Spec == Init /\ [][Next]_vars

\* Processes run on, the loops of a worker poll, and the database grants free
\* rows and ends a circle of waits.  Which member of a circle it ends is open.
FairSpec ==
    /\ Spec
    /\ \A c \in Requests : WF_vars(RequestStep(c))
    /\ \A s \in Schedulers : WF_vars(SchedulerStep(s))
    /\ \A h \in Handlers : WF_vars(HandlerStep(h))
    /\ WF_vars(\E a \in Requests \cup Handlers : DeadlockVictim(a))

-----------------------------------------------------------------------------
\* While the provider is called, the reminder is due for the booking as it is
\* committed and the organization is open: nobody can cancel, move or suspend
\* between the handler's look and its mail.
SentWhileTrue ==
    \A h \in Handlers : at[h] = "sending" =>
        Fits(Handled(h)) /\ open /\ reminders[Handled(h)].status = "dispatched"

\* Although the scheduler reads the booking from a snapshot, the event it
\* commits is about a reminder that fits the booking at that moment.
FittingDispatch == \A i \in DOMAIN recorded : recorded'[i] # recorded[i] => Fits(i)
DispatchFits == [][FittingDispatch]_vars

\* Schedulers that select the same reminder record one event for it.
OneEventPerReminder == \A i \in DOMAIN recorded : recorded[i] <= 1

\* At most one reminder is pending, and it fits, however the three writers meet.
PendingFits ==
    /\ Cardinality(Pending(reminders)) <= 1
    /\ \A i \in Pending(reminders) : Fits(i)

\* The crossing lock orders end: every request is answered or fails, and every
\* recorded event is handled or given up.
RowsAreReleased ==
    /\ \A c \in Requests : at[c] = "beginning" ~> at[c] \in {"answered", "failed"}
    /\ \A i \in Reminders :
          recorded[i] > 0 ~> i \in DOMAIN event /\ event[i].state # "queued"

\* The reminder rows between their three writers: locks and rows keep their
\* shapes, what is pending fits the booking, one event tells of a reminder.
RowsConsistent == TypeOK /\ PendingFits /\ OneEventPerReminder
=============================================================================
