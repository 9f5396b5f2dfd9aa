------------------------------ MODULE Bookings ------------------------------
(***************************************************************************)
(* The booking table of one organization, the reminders kept with it and   *)
(* the events its operations record, as the operations of                  *)
(* apps/api/src/modules/bookings and the two worker jobs on reminders leave *)
(* them when each takes effect as one serializable transaction.            *)
(*                                                                         *)
(* The other modules refine this view: BookingTxn opens the transactions   *)
(* up, OutboxDelivery follows the events to the consumers.                 *)
(*                                                                         *)
(* Configuration (working windows, assignments, activation, roles, notice  *)
(* and horizon settings) is edited by other operations at any time and no  *)
(* property here depends on it, so an operation may ask for any start in   *)
(* Starts on any resource; the services' durations, buffers and the        *)
(* cutoffs are the values a booking may snapshot.                          *)
(*                                                                         *)
(* A definition named Name_Fault is Name with a plausible fault; README.md *)
(* says which property notices it.  No action uses it.                     *)
(***************************************************************************)
EXTENDS Integers, Sequences, FiniteSets

CONSTANTS
    BookingIds,      \* identities of booking rows
    Resources,       \* resources of the organization
    Starts,          \* start instants that can be asked for
    Shapes,          \* [duration, buffer] of the services
    Cutoffs,         \* guest cancellation cutoffs an organization may have
    Lead,            \* REMINDER_LEAD_TIME_MS
    BatchSize,       \* reminders per scheduler batch
    MaxTime,         \* bound: last instant of the clock
    MaxLag,          \* bound: age of an operation's now when it commits
    MaxReminders,    \* bound: reminder rows per booking
    MaxEvents        \* bound: recorded events per booking

ASSUME StartsAssumption == Starts \subseteq Nat
ASSUME ShapesAssumption == Shapes \subseteq [duration : Nat \ {0}, buffer : Nat]
ASSUME TimingAssumption ==
    /\ Cutoffs \subseteq Nat
    /\ Lead \in Nat
    /\ MaxTime \in Nat
    /\ MaxLag \in Nat
ASSUME LimitAssumption == BatchSize \in Nat /\ MaxReminders \in Nat /\ MaxEvents \in Nat

VARIABLES
    clock,        \* the present instant
    org,          \* lifecycle state of the organization row
    bookings,     \* booking rows: identity -> row
    reminders,    \* reminder rows of each booking, in insertion order
    outbox,       \* booking events of each booking, in insertion order
    reminderDue   \* booking.reminder_due events: <<booking, reminder>>

vars == <<clock, org, bookings, reminders, outbox, reminderDue>>

-----------------------------------------------------------------------------
BookingStatus == {"confirmed", "cancelled", "no_show"}
ReminderStatus == {"pending", "dispatched", "sent", "cancelled", "skipped"}
BookingEventType == {"created", "cancelled", "rescheduled"}

Booking == [status : BookingStatus, resource : Resources, start : Nat,
            occupiedUntil : Nat, duration : Nat \ {0}, buffer : Nat,
            email : BOOLEAN, token : BOOLEAN, cutoff : Nat]
Reminder == [start : Nat, due : Nat, status : ReminderStatus]
Appointment == [resource : Resources, start : Nat]
BookingEvent == [type : BookingEventType, from : Appointment, to : Appointment]
Organization == [archived : BOOLEAN, suspended : BOOLEAN]

\* One type invariant for the tables: rows of the shapes the migrations give
\* them (booking, booking_reminder, outbox_event).
TypeOK ==
    /\ clock \in Nat
    /\ org \in Organization
    /\ DOMAIN bookings \subseteq BookingIds
    /\ bookings \in [DOMAIN bookings -> Booking]
    /\ reminders \in [BookingIds -> Seq(Reminder)]
    /\ outbox \in [BookingIds -> Seq(BookingEvent)]
    /\ reminderDue \subseteq BookingIds \X Nat

-----------------------------------------------------------------------------
\* now is read before the transaction (and kept over its retries), so an
\* operation that takes effect at clock may work with an older instant.
OpTimes == {t \in 0 .. clock : clock - t <= MaxLag}

Writable == ~org.archived /\ ~org.suspended

AppointmentOf(row) == [resource |-> row.resource, start |-> row.start]

\* calculateBookingTemporalSnapshot.
OccupiedUntil(start, duration, buffer) == start + duration + buffer

\* Half-open occupancies overlap: the filter of the offered starts and the
\* exclusion constraint use the same test.
Overlap_StrictlyInside(s1, e1, s2, e2) == (s2 < s1 /\ s1 < e2) \/ (s1 < s2 /\ s2 < e1)
Overlap(s1, e1, s2, e2) == s1 < e2 /\ s2 < e1

\* booking_confirmed_resource_occupancy_excl would refuse row as booking b.
Conflicts(b, row) ==
    \E c \in DOMAIN bookings \ {b} :
        /\ bookings[c].status = "confirmed"
        /\ bookings[c].resource = row.resource
        /\ Overlap(bookings[c].start, bookings[c].occupiedUntil,
                   row.start, row.occupiedUntil)

-----------------------------------------------------------------------------
\* Reminders (application/reminders.ts).

ReminderEligible(row, now) ==
    row.status = "confirmed" /\ row.email /\ row.start > now + Lead

DueAt(start) == start - Lead

Pending(rems) == {i \in DOMAIN rems : rems[i].status = "pending"}

CancelPending(rems) ==
    [i \in DOMAIN rems |->
        IF rems[i].status = "pending" THEN [rems[i] EXCEPT !.status = "cancelled"]
                                      ELSE rems[i]]

\* A reminder for this start was handed over already; only an operation that
\* moved the appointment may schedule another one.
AlreadyReminded_SentOnly(rems, start) ==
    \E i \in DOMAIN rems : rems[i].start = start /\ rems[i].status = "sent"
AlreadyReminded(rems, start) ==
    \E i \in DOMAIN rems :
        rems[i].start = start /\ rems[i].status \in {"dispatched", "sent"}

NewReminder(start) == [start |-> start, due |-> DueAt(start), status |-> "pending"]

\* syncBookingReminderInTransaction.
SyncReminder_ReturnsIfIneligible(rems, row, now, appointmentChanged) ==
    IF /\ ReminderEligible(row, now)
       /\ ~\E i \in Pending(rems) : rems[i].start = row.start
       /\ appointmentChanged \/ ~AlreadyReminded(rems, row.start)
    THEN Append(CancelPending(rems), NewReminder(row.start))
    ELSE rems
SyncReminder(rems, row, now, appointmentChanged) ==
    LET eligible == ReminderEligible(row, now)
        matching == \E i \in Pending(rems) : rems[i].start = row.start
        kept == IF eligible /\ matching THEN rems ELSE CancelPending(rems)
        needed == /\ eligible
                  /\ ~matching
                  /\ appointmentChanged \/ ~AlreadyReminded(rems, row.start)
    IN  IF needed THEN Append(kept, NewReminder(row.start)) ELSE kept

-----------------------------------------------------------------------------
\* What the operations write: a row, its reminders, and at most one event.

Record_ReadsUpdatedRow(b, type, from, to) ==
    /\ Len(outbox[b]) < MaxEvents
    /\ outbox' = [outbox EXCEPT ![b] =
                    Append(@, [type |-> type, from |-> to, to |-> to])]
Record(b, type, from, to) ==
    /\ Len(outbox[b]) < MaxEvents
    /\ outbox' = [outbox EXCEPT ![b] =
                    Append(@, [type |-> type, from |-> from, to |-> to])]

SetReminders(b, rems) ==
    /\ Len(rems) <= MaxReminders
    /\ reminders' = [reminders EXCEPT ![b] = rems]

\* insertConfirmedBookingInTransaction, the reminder and the created event:
\* the part createPublicBooking and createManualBooking share.  The start must
\* be one of the starts the occupancy filter leaves.
InsertBooking(b, row, now) ==
    /\ Writable
    /\ b \notin DOMAIN bookings
    /\ row.start >= now
    /\ ~Conflicts(b, row)
    /\ bookings' = [c \in DOMAIN bookings \cup {b} |->
                        IF c = b THEN row ELSE bookings[c]]
    /\ SetReminders(b, SyncReminder(<<>>, row, now, FALSE))
    /\ Record(b, "created", AppointmentOf(row), AppointmentOf(row))
    /\ UNCHANGED <<clock, org, reminderDue>>

NewRow(resource, start, shape, email, token, cutoff) ==
    [status |-> "confirmed", resource |-> resource, start |-> start,
     occupiedUntil |-> OccupiedUntil(start, shape.duration, shape.buffer),
     duration |-> shape.duration, buffer |-> shape.buffer,
     email |-> email, token |-> token, cutoff |-> cutoff]

\* A guest books on the public page; every such booking gets a management token.
CreatePublicBooking(b, resource, start, shape, email, cutoff, now) ==
    InsertBooking(b, NewRow(resource, start, shape, email, TRUE, cutoff), now)

\* A member books for a guest; only a guest with an e-mail gets a token.
CreateManualBooking(b, resource, start, shape, email, cutoff, now) ==
    InsertBooking(b, NewRow(resource, start, shape, email, email, cutoff), now)

\* The booking a management operation loaded for update, with the organization
\* row locked and writable.
Loaded(b, status) == Writable /\ b \in DOMAIN bookings /\ bookings[b].status = status

\* status, reminders and event of a cancellation by either side.
Cancel(b) ==
    LET row == bookings[b]
    IN  /\ bookings' = [bookings EXCEPT ![b].status = "cancelled"]
        /\ SetReminders(b, CancelPending(reminders[b]))
        /\ Record(b, "cancelled", AppointmentOf(row), AppointmentOf(row))
        /\ UNCHANGED <<clock, org, reminderDue>>

\* A member cancels; no cutoff applies, and the start may have passed.
CancelManagementBooking(b) == Loaded(b, "confirmed") /\ Cancel(b)

\* A guest cancels with the token, up to the cutoff the booking was made under.
CancelGuestManagedBooking(b, now) ==
    /\ Loaded(b, "confirmed")
    /\ bookings[b].token
    /\ now <= bookings[b].start - bookings[b].cutoff
    /\ Cancel(b)

MarkNoShow(b, now) ==
    /\ Loaded(b, "confirmed")
    /\ now >= bookings[b].start
    /\ bookings' = [bookings EXCEPT ![b].status = "no_show"]
    /\ SetReminders(b, CancelPending(reminders[b]))
    /\ UNCHANGED <<clock, org, outbox, reminderDue>>

\* Undoing a no-show occupies the slot again: nothing in the operation looks at
\* the calendar, the exclusion constraint alone refuses it.
RevertNoShow_Unchecked(b, now) ==
    LET row == [bookings[b] EXCEPT !.status = "confirmed"]
    IN  /\ Loaded(b, "no_show")
        /\ bookings' = [bookings EXCEPT ![b] = row]
        /\ SetReminders(b, SyncReminder(reminders[b], row, now, FALSE))
        /\ UNCHANGED <<clock, org, outbox, reminderDue>>
RevertNoShow(b, now) ==
    LET row == [bookings[b] EXCEPT !.status = "confirmed"]
    IN  /\ Loaded(b, "no_show")
        /\ ~Conflicts(b, row)
        /\ bookings' = [bookings EXCEPT ![b] = row]
        /\ SetReminders(b, SyncReminder(reminders[b], row, now, FALSE))
        /\ UNCHANGED <<clock, org, outbox, reminderDue>>

\* The row a reschedule writes: new place and time, timing from the snapshot.
Moved_KeepsOccupancy(row, resource, start) ==
    [row EXCEPT !.resource = resource, !.start = start]
Moved(row, resource, start) ==
    [row EXCEPT !.resource = resource, !.start = start,
                !.occupiedUntil = OccupiedUntil(start, row.duration, row.buffer)]

\* The reminders a reschedule leaves: a moved appointment first gives up the
\* pending one, so that the new one is never taken for it.
RescheduledReminders_SyncedFirst(rems, row, moved, now) ==
    IF AppointmentOf(row) = AppointmentOf(moved)
    THEN SyncReminder(rems, moved, now, FALSE)
    ELSE CancelPending(SyncReminder(rems, moved, now, TRUE))
RescheduledReminders(rems, row, moved, now) ==
    IF AppointmentOf(row) = AppointmentOf(moved)
    THEN SyncReminder(rems, moved, now, FALSE)
    ELSE SyncReminder(CancelPending(rems), moved, now, TRUE)

RescheduleBooking(b, resource, start, now) ==
    LET row == bookings[b]
        moved == Moved(row, resource, start)
    IN  /\ Loaded(b, "confirmed")
        /\ start >= now
        /\ ~Conflicts(b, moved)
        /\ bookings' = [bookings EXCEPT ![b] = moved]
        /\ SetReminders(b, RescheduledReminders(reminders[b], row, moved, now))
        /\ Record(b, "rescheduled", AppointmentOf(row), AppointmentOf(moved))
        /\ UNCHANGED <<clock, org, reminderDue>>

\* A guest edits the contact data before the start; the e-mail may come or go.
UpdateGuestContact(b, email, now) ==
    LET row == [bookings[b] EXCEPT !.email = email]
    IN  /\ Loaded(b, "confirmed")
        /\ bookings[b].token
        /\ now < bookings[b].start
        /\ bookings' = [bookings EXCEPT ![b] = row]
        /\ SetReminders(b, SyncReminder(reminders[b], row, now, FALSE))
        /\ UNCHANGED <<clock, org, outbox, reminderDue>>

-----------------------------------------------------------------------------
\* The worker's two jobs on reminders.

\* A reminder may still be sent: the scheduler and the e-mail handler apply the
\* same test (skipReason, processReminderEmail).
Deliverable(b, rem, now) ==
    LET row == bookings[b]
    IN  /\ row.status = "confirmed"
        /\ row.email
        /\ row.start = rem.start
        /\ row.start > now
        /\ Writable

DueReminders_OfWritableOrganizations(now) ==
    {ref \in UNION {{b} \X DOMAIN reminders[b] : b \in DOMAIN bookings} :
        LET rem == reminders[ref[1]][ref[2]]
        IN  rem.status = "pending" /\ rem.due <= now /\ Writable}
DueReminders(now) ==
    {ref \in UNION {{b} \X DOMAIN reminders[b] : b \in DOMAIN bookings} :
        LET rem == reminders[ref[1]][ref[2]]
        IN  rem.status = "pending" /\ rem.due <= now}

AfterDispatch_ReasonAsStatus(b, rem, now) ==
    [rem EXCEPT !.status = IF Deliverable(b, rem, now) THEN "dispatched" ELSE "start_passed"]
AfterDispatch(b, rem, now) ==
    [rem EXCEPT !.status = IF Deliverable(b, rem, now) THEN "dispatched" ELSE "skipped"]

\* dispatchDueBookingReminderBatch.  Rows locked by a running operation are
\* skipped, so any part of the due reminders may form the batch.
DispatchDueReminders(now) ==
    \E batch \in SUBSET DueReminders(now) :
        /\ batch # {}
        /\ Cardinality(batch) <= BatchSize
        /\ reminders' = [b \in BookingIds |-> [i \in DOMAIN reminders[b] |->
                IF <<b, i>> \in batch THEN AfterDispatch(b, reminders[b][i], now)
                                      ELSE reminders[b][i]]]
        /\ reminderDue' = reminderDue \cup
                {ref \in batch : Deliverable(ref[1], reminders[ref[1]][ref[2]], now)}
        /\ UNCHANGED <<clock, org, bookings, outbox>>

\* processReminderEmail for a delivered booking.reminder_due event.
ProcessReminderEmail(b, i, now) ==
    /\ <<b, i>> \in reminderDue
    /\ reminders[b][i].status = "dispatched"
    /\ reminders' = [reminders EXCEPT ![b][i].status =
            IF Deliverable(b, reminders[b][i], now) THEN "sent" ELSE "skipped"]
    /\ UNCHANGED <<clock, org, bookings, outbox, reminderDue>>

-----------------------------------------------------------------------------
\* Suspension, unsuspension, archiving and restoring, seen from the bookings:
\* any change of the two flags the write policy and the worker read.
OrganizationChanges ==
    /\ org' \in Organization
    /\ org' # org
    /\ UNCHANGED <<clock, bookings, reminders, outbox, reminderDue>>

Tick ==
    /\ clock < MaxTime
    /\ clock' = clock + 1
    /\ UNCHANGED <<org, bookings, reminders, outbox, reminderDue>>

Init ==
    /\ clock = 0
    /\ org = [archived |-> FALSE, suspended |-> FALSE]
    /\ bookings = <<>>
    /\ reminders = [b \in BookingIds |-> <<>>]
    /\ outbox = [b \in BookingIds |-> <<>>]
    /\ reminderDue = {}

GuestOperation(now) ==
    \E b \in BookingIds :
        \/ \E resource \in Resources, start \in Starts, shape \in Shapes,
              email \in BOOLEAN, cutoff \in Cutoffs :
              CreatePublicBooking(b, resource, start, shape, email, cutoff, now)
        \/ CancelGuestManagedBooking(b, now)
        \/ \E email \in BOOLEAN : UpdateGuestContact(b, email, now)

MemberOperation(now) ==
    \E b \in BookingIds :
        \/ \E resource \in Resources, start \in Starts, shape \in Shapes,
              email \in BOOLEAN, cutoff \in Cutoffs :
              CreateManualBooking(b, resource, start, shape, email, cutoff, now)
        \/ \E resource \in Resources, start \in Starts :
              RescheduleBooking(b, resource, start, now)
        \/ CancelManagementBooking(b)
        \/ MarkNoShow(b, now)
        \/ RevertNoShow(b, now)

Dispatch == \E now \in OpTimes : DispatchDueReminders(now)

Next ==
    \/ \E now \in OpTimes :
          \/ GuestOperation(now)
          \/ MemberOperation(now)
          \/ \E b \in BookingIds : \E i \in DOMAIN reminders[b] :
                ProcessReminderEmail(b, i, now)
    \/ Dispatch
    \/ OrganizationChanges
    \/ Tick

\* Time passes, and the scheduler's loop polls as long as the worker runs
\* (it survives every error).
Fairness == WF_vars(Tick) /\ WF_vars(Dispatch)

Spec == Init /\ [][Next]_vars /\ Fairness

-----------------------------------------------------------------------------
Confirmed == {b \in DOMAIN bookings : bookings[b].status = "confirmed"}

\* The README's first promise: no two confirmed bookings of one resource
\* occupy the same instant, whichever of creating, moving and undoing a no-show
\* put them there.
NoOverlap ==
    \A b, c \in Confirmed :
        /\ b # c
        /\ bookings[b].resource = bookings[c].resource
        => bookings[b].occupiedUntil <= bookings[c].start
           \/ bookings[c].occupiedUntil <= bookings[b].start

\* The stored end of the occupancy is always the start plus the duration and
\* buffer snapshotted when the booking was made, after any number of moves;
\* the exclusion constraint compares nothing else.
OccupancyFollowsSnapshot ==
    \A b \in DOMAIN bookings :
        bookings[b].occupiedUntil =
            bookings[b].start + bookings[b].duration + bookings[b].buffer

\* A booking never has two pending reminders, and a pending one is about the
\* booking as it is now: confirmed, with an e-mail, at this start.  The partial
\* unique index on pending reminders therefore never refuses a transaction.
PendingReminderCurrent ==
    \A b \in BookingIds :
        /\ \A i, j \in Pending(reminders[b]) : i = j
        /\ \A i \in Pending(reminders[b]) :
              /\ b \in Confirmed
              /\ bookings[b].email
              /\ reminders[b][i].start = bookings[b].start
              /\ reminders[b][i].due = bookings[b].start - Lead

\* No operation loses a reminder: while the reminder of a confirmed booking
\* with an e-mail still lies ahead, it is pending.
NoReminderLost ==
    \A b \in Confirmed :
        bookings[b].email /\ bookings[b].start > clock + Lead
        => Pending(reminders[b]) # {}

\* Consumers see bookings only through the events.  Replaying the events of a
\* booking gives its appointment and tells whether it was cancelled; each move
\* starts where the event before it ended.
OutboxMirrorsBookings ==
    \A b \in BookingIds :
        LET log == outbox[b]
        IN  /\ b \in DOMAIN bookings <=> log # <<>>
            /\ \A i \in DOMAIN log :
                  /\ log[i].type = "created" <=> i = 1
                  /\ log[i].type = "cancelled" =>
                        i = Len(log) /\ bookings[b].status = "cancelled"
                  /\ i > 1 => log[i].from = log[i - 1].to
                  /\ i = Len(log) =>
                        /\ log[i].to = AppointmentOf(bookings[b])
                        /\ bookings[b].status = "cancelled" => log[i].type = "cancelled"

Live(rems, start) ==
    {i \in DOMAIN rems :
        rems[i].start = start /\ rems[i].status \in {"pending", "dispatched", "sent"}}

\* The guest is reminded once of an appointment: a step that does not move the
\* booking adds a reminder for its start only if no other is pending, handed
\* over or sent.  An operation with an old now meets reminders the scheduler
\* has dispatched already.
NoSecondReminder ==
    [][\A b \in DOMAIN bookings :
          LET start == bookings[b].start
          IN  AppointmentOf(bookings'[b]) = AppointmentOf(bookings[b])
              => \/ Live(reminders'[b], start) \subseteq Live(reminders[b], start)
                 \/ Live(reminders[b], start) = {}]_vars

\* Every pending reminder that comes due within the bound is handed over,
\* skipped or cancelled: the scheduler's batches do not leave one behind.
RemindersSettle ==
    \A b \in BookingIds : \A i \in 1 .. MaxReminders :
        (/\ i \in DOMAIN reminders[b]
         /\ reminders[b][i].status = "pending"
         /\ reminders[b][i].due <= MaxTime)
        ~> (i \in DOMAIN reminders[b] /\ reminders[b][i].status # "pending")

\* The calendar these bookings keep (Calendar.tla).
Held ==
    [b \in Confirmed |-> [resource |-> bookings[b].resource,
                          from |-> bookings[b].start,
                          until |-> bookings[b].occupiedUntil]]

BookedCalendar == INSTANCE Calendar WITH held <- Held

\* Bookings keep a calendar: every step leaves each resource's confirmed
\* occupancies as they are, or takes, moves or gives up one of them, and a slot
\* is only taken where it meets no other.
ImplementsCalendar == BookedCalendar!Spec
=============================================================================
