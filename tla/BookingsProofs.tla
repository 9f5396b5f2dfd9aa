--------------------------- MODULE BookingsProofs ---------------------------
(***************************************************************************)
(* Theorems about Bookings for every set of bookings, resources, starts,   *)
(* services and cutoffs, every lead time and every bound.                  *)
(*                                                                         *)
(* Every booking operation writes one row, that row's reminders and at     *)
(* most one event.  BookingOperation below states what all of them have in *)
(* common; OperationShape proves it once, operation by operation, and the  *)
(* invariants are proved from it.                                          *)
(***************************************************************************)
EXTENDS Bookings, SequenceTheorems, TLAPS

USE StartsAssumption, ShapesAssumption, TimingAssumption, LimitAssumption

-----------------------------------------------------------------------------
(* Reminder sequences.                                                     *)

\* Cancelling the pending reminders keeps the rows and leaves none pending.
LEMMA CancelPendingFacts ==
    ASSUME NEW rems \in Seq(Reminder)
    PROVE  /\ CancelPending(rems) \in Seq(Reminder)
           /\ Len(CancelPending(rems)) = Len(rems)
           /\ DOMAIN CancelPending(rems) = DOMAIN rems
           /\ Pending(CancelPending(rems)) = {}
           /\ \A i \in DOMAIN rems :
                /\ CancelPending(rems)[i].start = rems[i].start
                /\ CancelPending(rems)[i].due = rems[i].due
                /\ CancelPending(rems)[i].status =
                      IF rems[i].status = "pending" THEN "cancelled" ELSE rems[i].status
<1>1. rems \in [1 .. Len(rems) -> Reminder] /\ Len(rems) \in Nat
  BY LenProperties
<1>2. DOMAIN rems = 1 .. Len(rems)
  BY <1>1
<1>3. CancelPending(rems) \in [1 .. Len(rems) -> Reminder]
  BY <1>1, <1>2 DEF CancelPending, Reminder, ReminderStatus
<1>4. CancelPending(rems) \in Seq(Reminder)
  BY <1>1, <1>3, SeqDef
<1>5. \A i \in DOMAIN rems :
        /\ CancelPending(rems)[i].start = rems[i].start
        /\ CancelPending(rems)[i].due = rems[i].due
        /\ CancelPending(rems)[i].status =
              IF rems[i].status = "pending" THEN "cancelled" ELSE rems[i].status
  BY <1>1, <1>2 DEF CancelPending, Reminder
<1> QED
  BY <1>1, <1>2, <1>3, <1>4, <1>5, LenProperties DEF Pending

\* What the reminder synchronisation promises for any row: the rows keep their
\* type, at most one is pending, a pending one fits the row, and a row that is
\* eligible and was not reminded of this start yet has one.
OnePending(rems) == \A i, j \in Pending(rems) : i = j
DueFollowsStart(rems) == \A i \in DOMAIN rems : rems[i].due = rems[i].start - Lead

SyncOutcome(rems, row, now, new) ==
    /\ new \in Seq(Reminder)
    /\ OnePending(new)
    /\ DueFollowsStart(new)
    /\ \A i \in Pending(new) :
         row.status = "confirmed" /\ row.email /\ new[i].start = row.start
    /\ ReminderEligible(row, now) /\ ~AlreadyReminded(rems, row.start)
       => Pending(new) # {}
    /\ \A i \in DOMAIN new :
         new[i].status \in {"dispatched", "sent"} =>
             /\ i \in DOMAIN rems
             /\ rems[i].status = new[i].status
             /\ rems[i].start = new[i].start

\* syncBookingReminder keeps that promise for every row, now and history of
\* reminders in which at most one is pending.
LEMMA SyncFacts ==
    ASSUME NEW rems \in Seq(Reminder), NEW row \in Booking, NEW now \in Nat,
           NEW changed \in BOOLEAN,
           OnePending(rems), DueFollowsStart(rems),
           NEW new, new = SyncReminder(rems, row, now, changed)
    PROVE  SyncOutcome(rems, row, now, new)
<1> DEFINE eligible == ReminderEligible(row, now)
           matching == \E i \in Pending(rems) : rems[i].start = row.start
           kept == IF eligible /\ matching THEN rems ELSE CancelPending(rems)
           needed == /\ eligible
                     /\ ~matching
                     /\ changed \/ ~AlreadyReminded(rems, row.start)
           added == NewReminder(row.start)
<1>1. new = IF needed THEN Append(kept, added) ELSE kept
  BY DEF SyncReminder
<1>2. /\ kept \in Seq(Reminder)
      /\ Len(kept) = Len(rems)
      /\ Len(rems) \in Nat
      /\ DOMAIN rems = 1 .. Len(rems)
      /\ DOMAIN kept = 1 .. Len(rems)
  BY CancelPendingFacts, LenProperties
<1>3. CASE eligible /\ matching
  <2>1. new = rems
    BY <1>1, <1>3
  <2> QED
    BY <1>2, <1>3, <2>1 DEF SyncOutcome, OnePending, DueFollowsStart, ReminderEligible, Pending
<1>4. CASE ~needed /\ ~(eligible /\ matching)
  <2>1. new = CancelPending(rems)
    BY <1>1, <1>4
  <2>2. ~(eligible /\ ~AlreadyReminded(rems, row.start))
    BY <1>4
  <2>3. Pending(new) = {}
    BY <2>1, CancelPendingFacts
  <2> QED
    BY <2>1, <2>2, <2>3, <1>2, CancelPendingFacts DEF SyncOutcome, OnePending, DueFollowsStart
<1>5. CASE needed
  <2>1. kept = CancelPending(rems) /\ new = Append(kept, added)
    BY <1>1, <1>5
  <2>2. added \in Reminder /\ added.start = row.start /\ added.status = "pending"
        /\ added.due = row.start - Lead
    BY <1>5 DEF NewReminder, DueAt, Reminder, ReminderStatus, ReminderEligible, Booking
  <2>3. /\ new \in Seq(Reminder)
        /\ DOMAIN new = 1 .. (Len(rems) + 1)
        /\ new[Len(rems) + 1] = added
        /\ \A i \in 1 .. Len(rems) : new[i] = kept[i]
    <3> HIDE DEF kept, added
    <3> QED
      BY <1>2, <2>1, <2>2
  <2>4. Pending(new) = {Len(rems) + 1}
    <3>1. \A i \in 1 .. Len(rems) : kept[i].status # "pending"
      BY <2>1, <1>2, CancelPendingFacts DEF Pending
    <3> HIDE DEF kept, added
    <3>2. \A i \in DOMAIN new : new[i].status = "pending" <=> i = Len(rems) + 1
      BY <1>2, <2>2, <2>3, <3>1
    <3>3. Len(rems) + 1 \in DOMAIN new
      BY <1>2, <2>3
    <3> QED
      BY <3>2, <3>3 DEF Pending
  <2>5. DueFollowsStart(new)
    <3>1. \A i \in 1 .. Len(rems) : kept[i].due = kept[i].start - Lead
      BY <1>2, <2>1, CancelPendingFacts DEF DueFollowsStart
    <3> HIDE DEF kept, added
    <3> QED
      BY <1>2, <2>2, <2>3, <3>1 DEF DueFollowsStart
  <2>6. \A i \in DOMAIN new :
          new[i].status \in {"dispatched", "sent"} =>
              /\ i \in DOMAIN rems
              /\ rems[i].status = new[i].status
              /\ rems[i].start = new[i].start
    <3>1. \A i \in 1 .. Len(rems) :
            kept[i].status \in {"dispatched", "sent"} =>
                rems[i].status = kept[i].status /\ rems[i].start = kept[i].start
      BY <1>2, <2>1, CancelPendingFacts
    <3> HIDE DEF kept, added
    <3> QED
      BY <1>2, <2>2, <2>3, <3>1
  <2> QED
    BY <1>5, <2>2, <2>3, <2>4, <2>5, <2>6 DEF SyncOutcome, OnePending, ReminderEligible
<1> QED
  BY <1>3, <1>4, <1>5

-----------------------------------------------------------------------------
(* The common shape of the booking operations.                             *)

\* The reminders an operation leaves with the row it writes.
RemindersAfter(b, row, rems, now) ==
    \/ row.status # "confirmed" /\ rems = CancelPending(reminders[b])
    \/ b \notin DOMAIN bookings /\ rems = SyncReminder(<<>>, row, now, FALSE)
    \/ rems = SyncReminder(reminders[b], row, now, FALSE)
    \/ /\ AppointmentOf(row) # AppointmentOf(bookings[b])
       /\ rems = SyncReminder(CancelPending(reminders[b]), row, now, TRUE)

\* The event it records, if any.
EventAfter(b, row) ==
    \/ /\ outbox' = outbox
       /\ b \in DOMAIN bookings
       /\ AppointmentOf(row) = AppointmentOf(bookings[b])
       /\ bookings[b].status # "cancelled"
       /\ row.status # "cancelled"
    \/ \E e \in BookingEvent :
          /\ outbox' = [outbox EXCEPT ![b] = Append(@, e)]
          /\ e.to = AppointmentOf(row)
          /\ e.type = "cancelled" <=> row.status = "cancelled"
          /\ e.type = "created" <=> b \notin DOMAIN bookings
          /\ b \in DOMAIN bookings =>
                /\ e.from = AppointmentOf(bookings[b])
                /\ bookings[b].status # "cancelled"

SameSlot(row, old) ==
    /\ old.status = "confirmed"
    /\ row.resource = old.resource
    /\ row.start = old.start
    /\ row.occupiedUntil = old.occupiedUntil

BookingOperation(b, row, rems, now) ==
    /\ bookings' = [c \in DOMAIN bookings \cup {b} |-> IF c = b THEN row ELSE bookings[c]]
    /\ reminders' = [reminders EXCEPT ![b] = rems]
    /\ RemindersAfter(b, row, rems, now)
    /\ EventAfter(b, row)
    /\ UNCHANGED <<clock, org, reminderDue>>
    /\ row.occupiedUntil = row.start + row.duration + row.buffer
    /\ row.status = "confirmed" =>
          ~Conflicts(b, row) \/ (b \in DOMAIN bookings /\ SameSlot(row, bookings[b]))

AnyOperation ==
    \E b \in BookingIds, row \in Booking, now \in OpTimes :
        \E rems : BookingOperation(b, row, rems, now)

\* A row written over an existing one, in the form the operations use.
LEMMA UpdateRow ==
    ASSUME TypeOK, NEW b \in DOMAIN bookings, NEW row
    PROVE  [bookings EXCEPT ![b] = row]
             = [c \in DOMAIN bookings \cup {b} |-> IF c = b THEN row ELSE bookings[c]]
<1>1. DOMAIN bookings \cup {b} = DOMAIN bookings
  OBVIOUS
<1> QED
  BY <1>1 DEF TypeOK

\* Inserting a booking has the shape shared by all operations.
LEMMA InsertShape ==
    ASSUME TypeOK, NEW b \in BookingIds, NEW now \in OpTimes,
           NEW resource \in Resources, NEW start \in Starts, NEW shape \in Shapes,
           NEW email \in BOOLEAN, NEW token \in BOOLEAN, NEW cutoff \in Cutoffs,
           InsertBooking(b, NewRow(resource, start, shape, email, token, cutoff), now)
    PROVE  AnyOperation
<1> DEFINE row == NewRow(resource, start, shape, email, token, cutoff)
           rems == SyncReminder(<<>>, row, now, FALSE)
           e == [type |-> "created", from |-> AppointmentOf(row), to |-> AppointmentOf(row)]
<1>1. row \in Booking /\ row.status = "confirmed"
      /\ row.occupiedUntil = row.start + row.duration + row.buffer
  BY DEF NewRow, Booking, BookingStatus, OccupiedUntil
<1>2. e \in BookingEvent
  BY <1>1 DEF BookingEvent, BookingEventType, Appointment, AppointmentOf, Booking
<1>3. EventAfter(b, row)
  BY <1>1, <1>2 DEF EventAfter, InsertBooking, Record
<1>4. BookingOperation(b, row, rems, now)
  <2>1. InsertBooking(b, row, now)
    OBVIOUS
  <2> HIDE DEF row
  <2> QED
    BY <1>1, <1>3, <2>1 DEF BookingOperation, InsertBooking, SetReminders, RemindersAfter
<1> QED
  BY <1>1, <1>4 DEF AnyOperation

\* Operations on a loaded booking: its new row, reminders and event.
LEMMA LoadedFacts ==
    ASSUME TypeOK, OccupancyFollowsSnapshot, NEW b \in BookingIds, NEW status,
           Loaded(b, status)
    PROVE  /\ b \in DOMAIN bookings
           /\ bookings[b] \in Booking
           /\ bookings[b].status = status
           /\ AppointmentOf(bookings[b]) \in Appointment
           /\ bookings[b].occupiedUntil =
                bookings[b].start + bookings[b].duration + bookings[b].buffer
  BY DEF Loaded, TypeOK, OccupancyFollowsSnapshot, AppointmentOf, Appointment, Booking

\* So has cancelling one, which also takes its pending reminders back,
LEMMA CancelShape ==
    ASSUME TypeOK, OccupancyFollowsSnapshot, NEW b \in BookingIds,
           Loaded(b, "confirmed"), Cancel(b)
    PROVE  AnyOperation
<1> DEFINE row == [bookings[b] EXCEPT !.status = "cancelled"]
           e == [type |-> "cancelled", from |-> AppointmentOf(bookings[b]),
                 to |-> AppointmentOf(bookings[b])]
<1>1. PICK now : now \in OpTimes
  <2>1. clock \in OpTimes
    BY DEF OpTimes, TypeOK
  <2> QED
    BY <2>1
<1>2. /\ row \in Booking
      /\ row.status = "cancelled"
      /\ AppointmentOf(row) = AppointmentOf(bookings[b])
      /\ row.occupiedUntil = row.start + row.duration + row.buffer
  BY LoadedFacts DEF Booking, BookingStatus, AppointmentOf
<1>3. e \in BookingEvent
  BY LoadedFacts DEF BookingEvent, BookingEventType
<1>4. EventAfter(b, row)
  <2>1. outbox' = [outbox EXCEPT ![b] = Append(@, e)]
    BY DEF Cancel, Record
  <2>2. /\ e.type = "cancelled"
        /\ e.from = AppointmentOf(bookings[b])
        /\ e.to = AppointmentOf(bookings[b])
    OBVIOUS
  <2>3. b \in DOMAIN bookings /\ bookings[b].status = "confirmed"
    BY LoadedFacts
  <2> HIDE DEF row, e
  <2> QED
    BY <1>2, <1>3, <2>1, <2>2, <2>3 DEF EventAfter
<1>5. bookings' = [c \in DOMAIN bookings \cup {b} |-> IF c = b THEN row ELSE bookings[c]]
  BY UpdateRow, LoadedFacts DEF Cancel
<1>6. BookingOperation(b, row, CancelPending(reminders[b]), now)
  <2> HIDE DEF row
  <2> QED
    BY <1>2, <1>4, <1>5 DEF BookingOperation, Cancel, SetReminders, RemindersAfter
<1> QED
  BY <1>1, <1>2, <1>6 DEF AnyOperation

\* marking a guest as not shown,
LEMMA MarkNoShowShape ==
    ASSUME TypeOK, OccupancyFollowsSnapshot, NEW b \in BookingIds, NEW now \in OpTimes,
           MarkNoShow(b, now)
    PROVE  AnyOperation
<1> DEFINE row == [bookings[b] EXCEPT !.status = "no_show"]
<1>1. /\ row \in Booking
      /\ row.status = "no_show"
      /\ AppointmentOf(row) = AppointmentOf(bookings[b])
      /\ row.occupiedUntil = row.start + row.duration + row.buffer
      /\ b \in DOMAIN bookings
      /\ bookings[b].status = "confirmed"
  BY LoadedFacts DEF Booking, BookingStatus, AppointmentOf, MarkNoShow
<1>2. bookings' = [c \in DOMAIN bookings \cup {b} |-> IF c = b THEN row ELSE bookings[c]]
  BY <1>1, UpdateRow DEF MarkNoShow
<1>3. BookingOperation(b, row, CancelPending(reminders[b]), now)
  <2> HIDE DEF row
  <2> QED
    BY <1>1, <1>2 DEF BookingOperation, MarkNoShow, SetReminders, RemindersAfter, EventAfter
<1> QED
  BY <1>1, <1>3 DEF AnyOperation

\* taking that mark back, which makes a reminder due again,
LEMMA RevertNoShowShape ==
    ASSUME TypeOK, OccupancyFollowsSnapshot, NEW b \in BookingIds, NEW now \in OpTimes,
           RevertNoShow(b, now)
    PROVE  AnyOperation
<1> DEFINE row == [bookings[b] EXCEPT !.status = "confirmed"]
           rems == SyncReminder(reminders[b], row, now, FALSE)
<1>1. /\ row \in Booking
      /\ row.status = "confirmed"
      /\ AppointmentOf(row) = AppointmentOf(bookings[b])
      /\ row.occupiedUntil = row.start + row.duration + row.buffer
      /\ b \in DOMAIN bookings
      /\ bookings[b].status = "no_show"
  BY LoadedFacts DEF Booking, BookingStatus, AppointmentOf, RevertNoShow
<1>2. bookings' = [c \in DOMAIN bookings \cup {b} |-> IF c = b THEN row ELSE bookings[c]]
  BY <1>1, UpdateRow DEF RevertNoShow
<1>3. BookingOperation(b, row, rems, now)
  <2>1. ~Conflicts(b, row) /\ reminders' = [reminders EXCEPT ![b] = rems]
        /\ UNCHANGED <<clock, org, outbox, reminderDue>>
    BY DEF RevertNoShow, SetReminders
  <2> HIDE DEF row
  <2> QED
    BY <1>1, <1>2, <2>1 DEF BookingOperation, RemindersAfter, EventAfter
<1> QED
  BY <1>1, <1>3 DEF AnyOperation

\* moving a booking, which renews its reminder when the start changes,
LEMMA RescheduleShape ==
    ASSUME TypeOK, OccupancyFollowsSnapshot, NEW b \in BookingIds, NEW now \in OpTimes,
           NEW resource \in Resources, NEW start \in Starts,
           RescheduleBooking(b, resource, start, now)
    PROVE  AnyOperation
<1> DEFINE old == bookings[b]
           row == Moved(old, resource, start)
           rems == RescheduledReminders(reminders[b], old, row, now)
           e == [type |-> "rescheduled", from |-> AppointmentOf(old),
                 to |-> AppointmentOf(row)]
<1>1. /\ b \in DOMAIN bookings
      /\ old \in Booking
      /\ old.status = "confirmed"
      /\ AppointmentOf(old) \in Appointment
  BY LoadedFacts DEF RescheduleBooking
<1>2. /\ row \in Booking
      /\ row.status = "confirmed"
      /\ AppointmentOf(row) \in Appointment
      /\ row.occupiedUntil = row.start + row.duration + row.buffer
  <2> DEFINE until == OccupiedUntil(start, old.duration, old.buffer)
  <2>1. old.duration \in Nat /\ old.buffer \in Nat
    <3> HIDE DEF old
    <3> QED
      BY <1>1 DEF Booking
  <2>2. start \in Nat
    BY StartsAssumption
  <2>3. until = start + old.duration + old.buffer
    BY Zenon DEF OccupiedUntil
  <2> HIDE DEF until, old
  <2>4. until \in Nat
    BY <2>1, <2>2, <2>3
  <2>5. row = [old EXCEPT !.resource = resource, !.start = start, !.occupiedUntil = until]
    BY DEF Moved, until
  <2> QED
    BY <1>1, <2>2, <2>3, <2>4, <2>5 DEF Booking, AppointmentOf, Appointment
<1>3. /\ bookings' = [bookings EXCEPT ![b] = row]
      /\ ~Conflicts(b, row)
      /\ reminders' = [reminders EXCEPT ![b] = rems]
      /\ outbox' = [outbox EXCEPT ![b] = Append(@, e)]
      /\ UNCHANGED <<clock, org, reminderDue>>
  BY DEF RescheduleBooking, SetReminders, Record
<1>4. bookings' = [c \in DOMAIN bookings \cup {b} |-> IF c = b THEN row ELSE bookings[c]]
  BY <1>1, <1>3, UpdateRow
<1>5. RemindersAfter(b, row, rems, now)
  <2> HIDE DEF row, old
  <2>1. CASE AppointmentOf(old) = AppointmentOf(row)
    <3>1. rems = SyncReminder(reminders[b], row, now, FALSE)
      BY <2>1, Zenon DEF RescheduledReminders
    <3> QED
      BY <3>1, Zenon DEF RemindersAfter
  <2>2. CASE AppointmentOf(old) # AppointmentOf(row)
    <3>1. rems = SyncReminder(CancelPending(reminders[b]), row, now, TRUE)
      BY <2>2, Zenon DEF RescheduledReminders
    <3> QED
      BY <2>2, <3>1, Zenon DEF RemindersAfter, old
  <2> QED
    BY <2>1, <2>2
<1>6. EventAfter(b, row)
  <2>1. e \in BookingEvent
    BY <1>1, <1>2 DEF BookingEvent, BookingEventType
  <2>2. e.type = "rescheduled" /\ e.from = AppointmentOf(old) /\ e.to = AppointmentOf(row)
    OBVIOUS
  <2> HIDE DEF row, e
  <2> QED
    BY <1>1, <1>2, <1>3, <2>1, <2>2 DEF EventAfter
<1>7. BookingOperation(b, row, rems, now)
  <2> HIDE DEF row, rems, e
  <2> QED
    BY <1>2, <1>3, <1>4, <1>5, <1>6 DEF BookingOperation
<1> QED
  BY <1>2, <1>7 DEF AnyOperation

\* and changing the contact, which can add or withdraw the e-mail.
LEMMA UpdateContactShape ==
    ASSUME TypeOK, OccupancyFollowsSnapshot, NEW b \in BookingIds, NEW now \in OpTimes,
           NEW email \in BOOLEAN,
           UpdateGuestContact(b, email, now)
    PROVE  AnyOperation
<1> DEFINE row == [bookings[b] EXCEPT !.email = email]
           rems == SyncReminder(reminders[b], row, now, FALSE)
<1>1. /\ row \in Booking
      /\ row.status = "confirmed"
      /\ AppointmentOf(row) = AppointmentOf(bookings[b])
      /\ row.occupiedUntil = row.start + row.duration + row.buffer
      /\ b \in DOMAIN bookings
      /\ bookings[b].status = "confirmed"
      /\ SameSlot(row, bookings[b])
  BY LoadedFacts DEF Booking, AppointmentOf, UpdateGuestContact, SameSlot
<1>2. bookings' = [c \in DOMAIN bookings \cup {b} |-> IF c = b THEN row ELSE bookings[c]]
  BY <1>1, UpdateRow DEF UpdateGuestContact
<1>3. BookingOperation(b, row, rems, now)
  <2>1. reminders' = [reminders EXCEPT ![b] = rems]
        /\ UNCHANGED <<clock, org, outbox, reminderDue>>
    BY DEF UpdateGuestContact, SetReminders
  <2> HIDE DEF row
  <2> QED
    BY <1>1, <1>2, <2>1 DEF BookingOperation, RemindersAfter, EventAfter
<1> QED
  BY <1>1, <1>3 DEF AnyOperation

\* Every operation of a guest or a member has the common shape.
LEMMA OperationShape ==
    ASSUME TypeOK, OccupancyFollowsSnapshot, NEW now \in OpTimes,
           GuestOperation(now) \/ MemberOperation(now)
    PROVE  AnyOperation
<1>1. CASE GuestOperation(now)
  <2>1. PICK b \in BookingIds :
          \/ \E resource \in Resources, start \in Starts, shape \in Shapes,
                email \in BOOLEAN, cutoff \in Cutoffs :
                CreatePublicBooking(b, resource, start, shape, email, cutoff, now)
          \/ CancelGuestManagedBooking(b, now)
          \/ \E email \in BOOLEAN : UpdateGuestContact(b, email, now)
    BY <1>1 DEF GuestOperation
  <2>2. CASE \E resource \in Resources, start \in Starts, shape \in Shapes,
                email \in BOOLEAN, cutoff \in Cutoffs :
                CreatePublicBooking(b, resource, start, shape, email, cutoff, now)
    BY <2>2, InsertShape DEF CreatePublicBooking
  <2>3. CASE CancelGuestManagedBooking(b, now)
    BY <2>3, CancelShape DEF CancelGuestManagedBooking
  <2>4. CASE \E email \in BOOLEAN : UpdateGuestContact(b, email, now)
    BY <2>4, UpdateContactShape
  <2> QED
    BY <2>1, <2>2, <2>3, <2>4
<1>2. CASE MemberOperation(now)
  <2>1. PICK b \in BookingIds :
          \/ \E resource \in Resources, start \in Starts, shape \in Shapes,
                email \in BOOLEAN, cutoff \in Cutoffs :
                CreateManualBooking(b, resource, start, shape, email, cutoff, now)
          \/ \E resource \in Resources, start \in Starts :
                RescheduleBooking(b, resource, start, now)
          \/ CancelManagementBooking(b)
          \/ MarkNoShow(b, now)
          \/ RevertNoShow(b, now)
    BY <1>2 DEF MemberOperation
  <2>2. CASE \E resource \in Resources, start \in Starts, shape \in Shapes,
                email \in BOOLEAN, cutoff \in Cutoffs :
                CreateManualBooking(b, resource, start, shape, email, cutoff, now)
    BY <2>2, InsertShape DEF CreateManualBooking
  <2>3. CASE \E resource \in Resources, start \in Starts :
                RescheduleBooking(b, resource, start, now)
    BY <2>3, RescheduleShape
  <2>4. CASE CancelManagementBooking(b)
    BY <2>4, CancelShape DEF CancelManagementBooking
  <2>5. CASE MarkNoShow(b, now)
    BY <2>5, MarkNoShowShape
  <2>6. CASE RevertNoShow(b, now)
    BY <2>6, RevertNoShowShape
  <2> QED
    BY <2>1, <2>2, <2>3, <2>4, <2>5, <2>6
<1> QED
  BY <1>1, <1>2

-----------------------------------------------------------------------------
(* The inductive invariant.                                                *)

\* A reminder is due one lead before the start it is about, and one that was
\* handed over had come due: this is what makes the test for an earlier
\* reminder harmless while the due time still lies ahead.
RemindersOnTime ==
    \A b \in BookingIds :
        /\ DueFollowsStart(reminders[b])
        /\ \A i \in DOMAIN reminders[b] :
              reminders[b][i].status \in {"dispatched", "sent"}
              => reminders[b][i].start <= clock + Lead

IInv ==
    /\ TypeOK
    /\ NoOverlap
    /\ OccupancyFollowsSnapshot
    /\ RemindersOnTime
    /\ PendingReminderCurrent
    /\ NoReminderLost

\* What the lemma about the synchronisation gives for a row an operation writes:
\* everything the invariant says of the reminders of one booking.
ReminderFacts(row, rems) ==
    /\ rems \in Seq(Reminder)
    /\ OnePending(rems)
    /\ DueFollowsStart(rems)
    /\ \A i \in Pending(rems) :
          row.status = "confirmed" /\ row.email /\ rems[i].start = row.start
    /\ \A i \in DOMAIN rems :
          rems[i].status \in {"dispatched", "sent"} => rems[i].start <= clock + Lead
    /\ row.status = "confirmed" /\ row.email /\ row.start > clock + Lead
       => Pending(rems) # {}

\* After the synchronisation the reminders of the row are as the invariant wants.
LEMMA SyncedReminders ==
    ASSUME clock \in Nat, NEW row \in Booking, NEW now \in OpTimes,
           NEW old \in Seq(Reminder), OnePending(old), DueFollowsStart(old),
           \A i \in DOMAIN old :
              old[i].status \in {"dispatched", "sent"} => old[i].start <= clock + Lead,
           NEW changed \in BOOLEAN,
           NEW rems, rems = SyncReminder(old, row, now, changed)
    PROVE  ReminderFacts(row, rems)
<1>1. now \in Nat /\ now <= clock /\ row.start \in Nat
  BY DEF OpTimes, Booking
<1>2. row.start > clock + Lead => row.start > now + Lead
  BY <1>1
<1>3. row.start > clock + Lead => ~AlreadyReminded(old, row.start)
  BY <1>1 DEF AlreadyReminded
<1>4. SyncOutcome(old, row, now, rems)
  BY <1>1, SyncFacts
<1>5. \A i \in DOMAIN rems :
        rems[i].status \in {"dispatched", "sent"} => rems[i].start <= clock + Lead
  BY <1>4 DEF SyncOutcome
<1> QED
  BY <1>2, <1>3, <1>4, <1>5 DEF SyncOutcome, ReminderFacts, ReminderEligible

\* The reminders an operation leaves, for any row it writes.
LEMMA RemindersAfterFacts ==
    ASSUME IInv, NEW b \in BookingIds, NEW row \in Booking, NEW now \in OpTimes, NEW rems,
           RemindersAfter(b, row, rems, now)
    PROVE  ReminderFacts(row, rems)
<1> DEFINE old == reminders[b]
           mid == CancelPending(old)
<1>1. clock \in Nat
  BY DEF IInv, TypeOK
<1>2. /\ old \in Seq(Reminder)
      /\ OnePending(old)
      /\ DueFollowsStart(old)
      /\ \A i \in DOMAIN old :
            old[i].status \in {"dispatched", "sent"} => old[i].start <= clock + Lead
  BY DEF IInv, TypeOK, RemindersOnTime, PendingReminderCurrent, OnePending
<1>3. /\ mid \in Seq(Reminder)
      /\ OnePending(mid)
      /\ Pending(mid) = {}
      /\ DueFollowsStart(mid)
      /\ \A i \in DOMAIN mid :
            mid[i].status \in {"dispatched", "sent"} => mid[i].start <= clock + Lead
  BY <1>2, CancelPendingFacts DEF OnePending, DueFollowsStart
<1>4. /\ <<>> \in Seq(Reminder)
      /\ OnePending(<<>>)
      /\ DueFollowsStart(<<>>)
      /\ \A i \in DOMAIN <<>> :
            <<>>[i].status \in {"dispatched", "sent"} => <<>>[i].start <= clock + Lead
  <2>1. <<>> \in Seq(Reminder) /\ DOMAIN <<>> = {}
    BY EmptySeq
  <2> QED
    BY <2>1 DEF OnePending, DueFollowsStart, Pending
<1> HIDE DEF old, mid
<1>5. CASE row.status # "confirmed" /\ rems = mid
  BY <1>3, <1>5 DEF ReminderFacts
<1>6. CASE rems = SyncReminder(<<>>, row, now, FALSE)
  BY <1>1, <1>4, <1>6, SyncedReminders
<1>7. CASE rems = SyncReminder(old, row, now, FALSE)
  BY <1>1, <1>2, <1>7, SyncedReminders
<1>8. CASE rems = SyncReminder(mid, row, now, TRUE)
  BY <1>1, <1>3, <1>8, SyncedReminders
<1> QED
  BY <1>5, <1>6, <1>7, <1>8 DEF RemindersAfter, old, mid

-----------------------------------------------------------------------------
(* Preservation by the booking operations.                                 *)

\* An operation keeps the types of the tables.
LEMMA OperationTypes ==
    ASSUME IInv, NEW b \in BookingIds, NEW row \in Booking, NEW now \in OpTimes, NEW rems,
           BookingOperation(b, row, rems, now)
    PROVE  TypeOK'
<1>1. rems \in Seq(Reminder)
  BY RemindersAfterFacts DEF BookingOperation, ReminderFacts
<1>2. reminders' \in [BookingIds -> Seq(Reminder)]
  BY <1>1 DEF BookingOperation, IInv, TypeOK
<1>3. /\ DOMAIN bookings' \subseteq BookingIds
      /\ bookings' \in [DOMAIN bookings' -> Booking]
  BY DEF BookingOperation, IInv, TypeOK
<1>4. outbox' \in [BookingIds -> Seq(BookingEvent)]
  <2>1. CASE outbox' = outbox
    BY <2>1 DEF IInv, TypeOK
  <2>2. CASE \E e \in BookingEvent : outbox' = [outbox EXCEPT ![b] = Append(@, e)]
    BY <2>2 DEF IInv, TypeOK
  <2> QED
    BY <2>1, <2>2 DEF BookingOperation, EventAfter
<1> QED
  BY <1>2, <1>3, <1>4 DEF TypeOK, BookingOperation, IInv

\* The row of booking b and of every other booking after an operation.
LEMMA OperationRows ==
    ASSUME IInv, NEW b \in BookingIds, NEW row \in Booking, NEW now \in OpTimes, NEW rems,
           BookingOperation(b, row, rems, now)
    PROVE  /\ DOMAIN bookings' = DOMAIN bookings \cup {b}
           /\ bookings'[b] = row
           /\ \A c \in DOMAIN bookings' : c # b => c \in DOMAIN bookings /\ bookings'[c] = bookings[c]
           /\ \A c \in BookingIds : reminders'[c] = IF c = b THEN rems ELSE reminders[c]
  BY DEF BookingOperation, IInv, TypeOK

\* The exclusion constraint is checked for the row an operation writes, so that no
\* two confirmed bookings overlap after it.
LEMMA OperationNoOverlap ==
    ASSUME IInv, NEW b \in BookingIds, NEW row \in Booking, NEW now \in OpTimes, NEW rems,
           BookingOperation(b, row, rems, now)
    PROVE  NoOverlap'
<1> DEFINE Apart(x, y) ==
             x.resource = y.resource
             => x.occupiedUntil <= y.start \/ y.occupiedUntil <= x.start
<1>1. \A c \in Confirmed \ {b} : row.status = "confirmed" => Apart(row, bookings[c])
  <2> SUFFICES ASSUME NEW c \in Confirmed \ {b}, row.status = "confirmed"
               PROVE  Apart(row, bookings[c])
    OBVIOUS
  <2>1. bookings[c] \in Booking /\ bookings[c].status = "confirmed"
    BY DEF Confirmed, IInv, TypeOK
  <2>2. CASE ~Conflicts(b, row)
    BY <2>1, <2>2 DEF Conflicts, Overlap, Confirmed, Booking
  <2>3. CASE b \in DOMAIN bookings /\ SameSlot(row, bookings[b])
    <3>1. b \in Confirmed /\ c \in Confirmed /\ b # c
      BY <2>3 DEF SameSlot, Confirmed
    <3> QED
      BY <2>3, <3>1 DEF SameSlot, IInv, NoOverlap
  <2> QED
    BY <2>2, <2>3 DEF BookingOperation
<1>2. SUFFICES ASSUME NEW c \in Confirmed', NEW d \in Confirmed', c # d
               PROVE  Apart(bookings'[c], bookings'[d])
  BY DEF NoOverlap
<1>3. \A x \in Confirmed' \ {b} : x \in Confirmed /\ bookings'[x] = bookings[x]
  BY OperationRows DEF Confirmed
<1>4. b \in Confirmed' => bookings'[b] = row /\ row.status = "confirmed"
  BY OperationRows DEF Confirmed
<1>5. CASE c # b /\ d # b
  BY <1>2, <1>3, <1>5 DEF IInv, NoOverlap
<1>6. CASE c = b
  BY <1>1, <1>2, <1>3, <1>4, <1>6
<1>7. CASE d = b
  BY <1>1, <1>2, <1>3, <1>4, <1>7
<1> QED
  BY <1>5, <1>6, <1>7

\* An operation keeps the stored occupancy equal to the snapshotted one.
LEMMA OperationOccupancy ==
    ASSUME IInv, NEW b \in BookingIds, NEW row \in Booking, NEW now \in OpTimes, NEW rems,
           BookingOperation(b, row, rems, now)
    PROVE  OccupancyFollowsSnapshot'
  BY OperationRows DEF BookingOperation, OccupancyFollowsSnapshot, IInv

\* An operation keeps the reminders of every booking on time, current and not lost.
LEMMA OperationReminders ==
    ASSUME IInv, NEW b \in BookingIds, NEW row \in Booking, NEW now \in OpTimes, NEW rems,
           BookingOperation(b, row, rems, now)
    PROVE  RemindersOnTime' /\ PendingReminderCurrent' /\ NoReminderLost'
<1>1. ReminderFacts(row, rems)
  BY RemindersAfterFacts DEF BookingOperation
<1>2. clock' = clock
  BY DEF BookingOperation
<1> DEFINE Fits(r) ==
             /\ DueFollowsStart(r)
             /\ \A i \in DOMAIN r :
                  r[i].status \in {"dispatched", "sent"} => r[i].start <= clock + Lead
<1>0. /\ DOMAIN bookings' = DOMAIN bookings \cup {b}
      /\ bookings'[b] = row
      /\ \A c \in DOMAIN bookings' : c # b => c \in DOMAIN bookings /\ bookings'[c] = bookings[c]
      /\ \A c \in BookingIds : reminders'[c] = IF c = b THEN rems ELSE reminders[c]
  BY OperationRows
<1>3. RemindersOnTime'
  <2>1. Fits(rems)
    BY <1>1 DEF ReminderFacts
  <2>2. \A c \in BookingIds : Fits(reminders[c])
    BY DEF IInv, RemindersOnTime
  <2>3. \A c \in BookingIds : Fits(reminders'[c])
    <3> HIDE DEF Fits
    <3> QED
      BY <1>0, <2>1, <2>2
  <2> QED
    BY <1>2, <2>3 DEF RemindersOnTime, DueFollowsStart
<1>4. PendingReminderCurrent'
  <2> SUFFICES ASSUME NEW c \in BookingIds
               PROVE  /\ \A i, j \in Pending(reminders'[c]) : i = j
                      /\ \A i \in Pending(reminders'[c]) :
                            /\ c \in Confirmed'
                            /\ bookings'[c].email
                            /\ reminders'[c][i].start = bookings'[c].start
                            /\ reminders'[c][i].due = bookings'[c].start - Lead
    BY DEF PendingReminderCurrent
  <2>1. CASE c = b
    <3>1. reminders'[c] = rems /\ bookings'[c] = row /\ c \in DOMAIN bookings'
      BY <2>1, <1>0
    <3>2. \A i \in Pending(rems) : i \in DOMAIN rems
      BY DEF Pending
    <3> QED
      BY <1>1, <3>1, <3>2 DEF ReminderFacts, OnePending, DueFollowsStart, Confirmed
  <2>2. CASE c # b
    <3>1. reminders'[c] = reminders[c]
      BY <2>2, <1>0
    <3>2. c \in Confirmed => c \in Confirmed' /\ bookings'[c] = bookings[c]
      BY <2>2, <1>0 DEF Confirmed
    <3> QED
      BY <3>1, <3>2 DEF IInv, PendingReminderCurrent
  <2> QED
    BY <2>1, <2>2
<1>5. NoReminderLost'
  <2> SUFFICES ASSUME NEW c \in Confirmed', bookings'[c].email, bookings'[c].start > clock + Lead
               PROVE  Pending(reminders'[c]) # {}
    BY <1>2 DEF NoReminderLost
  <2>1. CASE c = b
    BY <1>1, <2>1, <1>0 DEF ReminderFacts, Confirmed
  <2>2. CASE c # b
    <3>1. c \in Confirmed /\ bookings'[c] = bookings[c] /\ c \in BookingIds
      BY <2>2, <1>0 DEF Confirmed, IInv, TypeOK
    <3>2. reminders'[c] = reminders[c]
      BY <2>2, <3>1, <1>0
    <3> QED
      BY <3>1, <3>2 DEF IInv, NoReminderLost
  <2> QED
    BY <2>1, <2>2
<1> QED
  BY <1>3, <1>4, <1>5

\* Every booking operation keeps the invariant.
LEMMA OperationsKeepIInv ==
    ASSUME IInv, AnyOperation
    PROVE  IInv'
<1>1. PICK b \in BookingIds, row \in Booking, now \in OpTimes :
        \E rems : BookingOperation(b, row, rems, now)
  BY DEF AnyOperation
<1>2. PICK rems : BookingOperation(b, row, rems, now)
  BY <1>1
<1> QED
  BY <1>2, OperationTypes, OperationNoOverlap, OperationOccupancy, OperationReminders
  DEF IInv

-----------------------------------------------------------------------------
(* Preservation by the worker.                                             *)

\* The scheduler and the e-mail handler only move reminders forward: a due
\* pending one is handed over or skipped, a handed over one is sent or skipped.
Advances(old, new) ==
    /\ new.start = old.start
    /\ new.due = old.due
    /\ \/ new.status = old.status
       \/ /\ old.status = "pending"
          /\ old.due <= clock
          /\ new.status \in {"dispatched", "skipped"}
       \/ /\ old.status = "dispatched"
          /\ new.status \in {"sent", "skipped"}

RemindersAdvance ==
    /\ reminders' \in [BookingIds -> Seq(Reminder)]
    /\ \A b \in BookingIds :
          /\ DOMAIN reminders'[b] = DOMAIN reminders[b]
          /\ \A i \in DOMAIN reminders[b] : Advances(reminders[b][i], reminders'[b][i])
    /\ reminderDue' \subseteq BookingIds \X Nat
    /\ UNCHANGED <<clock, org, bookings, outbox>>

\* The scheduler hands over or skips what is due and does nothing else.
LEMMA DispatchAdvances ==
    ASSUME TypeOK, Dispatch
    PROVE  RemindersAdvance
<1>1. PICK now \in OpTimes : DispatchDueReminders(now)
  BY DEF Dispatch
<1>2. PICK batch \in SUBSET DueReminders(now) :
        /\ reminders' = [b \in BookingIds |-> [i \in DOMAIN reminders[b] |->
                IF <<b, i>> \in batch THEN AfterDispatch(b, reminders[b][i], now)
                                      ELSE reminders[b][i]]]
        /\ reminderDue' = reminderDue \cup
                {ref \in batch : Deliverable(ref[1], reminders[ref[1]][ref[2]], now)}
        /\ UNCHANGED <<clock, org, bookings, outbox>>
  BY <1>1 DEF DispatchDueReminders
<1>3. now <= clock /\ now \in Nat /\ clock \in Nat
  BY DEF OpTimes, TypeOK
<1>4. \A b \in BookingIds : \A i \in DOMAIN reminders[b] :
        /\ reminders[b][i] \in Reminder
        /\ i \in Nat
        /\ <<b, i>> \in batch =>
              reminders[b][i].status = "pending" /\ reminders[b][i].due <= now
  <2> SUFFICES ASSUME NEW b \in BookingIds, NEW i \in DOMAIN reminders[b]
               PROVE  /\ reminders[b][i] \in Reminder
                      /\ i \in Nat
                      /\ <<b, i>> \in batch =>
                            reminders[b][i].status = "pending" /\ reminders[b][i].due <= now
    OBVIOUS
  <2>1. reminders[b] \in Seq(Reminder)
    BY DEF TypeOK
  <2>2. reminders[b][i] \in Reminder /\ i \in Nat
    BY <2>1, LenProperties, ElementOfSeq
  <2>3. <<b, i>> \in DueReminders(now) =>
          reminders[b][i].status = "pending" /\ reminders[b][i].due <= now
    BY DEF DueReminders
  <2> QED
    BY <2>2, <2>3
<1>5. \A b \in BookingIds :
        /\ reminders'[b] \in Seq(Reminder)
        /\ DOMAIN reminders'[b] = DOMAIN reminders[b]
        /\ \A i \in DOMAIN reminders[b] : Advances(reminders[b][i], reminders'[b][i])
  <2> SUFFICES ASSUME NEW b \in BookingIds
               PROVE  /\ reminders'[b] \in Seq(Reminder)
                      /\ DOMAIN reminders'[b] = DOMAIN reminders[b]
                      /\ \A i \in DOMAIN reminders[b] :
                            Advances(reminders[b][i], reminders'[b][i])
    OBVIOUS
  <2>1. reminders'[b] = [i \in DOMAIN reminders[b] |->
            IF <<b, i>> \in batch THEN AfterDispatch(b, reminders[b][i], now)
                                  ELSE reminders[b][i]]
    BY <1>2
  <2>2. reminders[b] \in Seq(Reminder)
    BY DEF TypeOK
  <2>3. Len(reminders[b]) \in Nat /\ DOMAIN reminders[b] = 1 .. Len(reminders[b])
    BY <2>2, LenProperties
  <2>4. \A rem \in Reminder :
          /\ AfterDispatch(b, rem, now) \in Reminder
          /\ AfterDispatch(b, rem, now).start = rem.start
          /\ AfterDispatch(b, rem, now).due = rem.due
          /\ AfterDispatch(b, rem, now).status \in {"dispatched", "skipped"}
    BY DEF AfterDispatch, Reminder, ReminderStatus
  <2>5. \A i \in DOMAIN reminders[b] :
          reminders'[b][i] \in Reminder /\ Advances(reminders[b][i], reminders'[b][i])
    <3> SUFFICES ASSUME NEW i \in DOMAIN reminders[b]
                 PROVE  /\ reminders'[b][i] \in Reminder
                        /\ Advances(reminders[b][i], reminders'[b][i])
      OBVIOUS
    <3>1. reminders[b][i] \in Reminder
      BY <1>4
    <3>2. CASE <<b, i>> \in batch
      <4>1. reminders'[b][i] = AfterDispatch(b, reminders[b][i], now)
        BY <2>1, <3>2
      <4>2. reminders[b][i].status = "pending" /\ reminders[b][i].due <= clock
        BY <1>3, <1>4, <3>1, <3>2 DEF Reminder
      <4> QED
        BY <2>4, <3>1, <4>1, <4>2 DEF Advances
    <3>3. CASE <<b, i>> \notin batch
      BY <2>1, <3>1, <3>3 DEF Advances
    <3> QED
      BY <3>2, <3>3
  <2>6. reminders'[b] \in [1 .. Len(reminders[b]) -> Reminder]
    BY <2>1, <2>3, <2>5
  <2> QED
    BY <2>3, <2>5, <2>6, SeqDef
<1>6. reminderDue' \subseteq BookingIds \X Nat
  <2>1. \A ref \in DueReminders(now) : ref \in BookingIds \X Nat
    <3> SUFFICES ASSUME NEW b \in DOMAIN bookings, NEW i \in DOMAIN reminders[b]
                 PROVE  <<b, i>> \in BookingIds \X Nat
      BY DEF DueReminders
    <3> QED
      BY <1>4 DEF TypeOK
  <2> QED
    BY <1>2, <2>1 DEF TypeOK
<1> QED
  BY <1>2, <1>5, <1>6 DEF RemindersAdvance

\* The e-mail handler sends or skips what was handed over and does nothing else.
LEMMA ProcessAdvances ==
    ASSUME TypeOK, NEW b \in BookingIds, NEW i \in DOMAIN reminders[b], NEW now,
           ProcessReminderEmail(b, i, now)
    PROVE  RemindersAdvance
<1> DEFINE new == IF Deliverable(b, reminders[b][i], now) THEN "sent" ELSE "skipped"
<1>1. reminders' = [reminders EXCEPT ![b][i].status = new]
      /\ reminders[b][i].status = "dispatched"
      /\ UNCHANGED <<clock, org, bookings, outbox, reminderDue>>
  BY DEF ProcessReminderEmail
<1>2. reminders \in [BookingIds -> Seq(Reminder)]
  BY DEF TypeOK
<1>3. /\ reminders[b] \in Seq(Reminder)
      /\ i \in 1 .. Len(reminders[b])
      /\ reminders[b][i] \in Reminder
  BY <1>2, LenProperties, ElementOfSeq
<1> DEFINE r == [reminders[b][i] EXCEPT !.status = new]
<1>4. /\ r \in Reminder
      /\ Advances(reminders[b][i], r)
  BY <1>1, <1>3 DEF Reminder, ReminderStatus, Advances
<1>5. reminders' = [reminders EXCEPT ![b] = [reminders[b] EXCEPT ![i] = r]]
  BY <1>1, <1>2, <1>3
<1>6. /\ [reminders[b] EXCEPT ![i] = r] \in Seq(Reminder)
      /\ DOMAIN [reminders[b] EXCEPT ![i] = r] = DOMAIN reminders[b]
      /\ \A j \in DOMAIN reminders[b] :
            [reminders[b] EXCEPT ![i] = r][j] = IF j = i THEN r ELSE reminders[b][j]
  <2> HIDE DEF r
  <2> QED
    BY <1>3, <1>4, ExceptSeq, LenProperties
<1>7. reminders' \in [BookingIds -> Seq(Reminder)]
  <2> HIDE DEF r
  <2> QED
    BY <1>2, <1>5, <1>6
<1>8. \A c \in BookingIds :
        /\ DOMAIN reminders'[c] = DOMAIN reminders[c]
        /\ \A j \in DOMAIN reminders[c] : Advances(reminders[c][j], reminders'[c][j])
  <2> SUFFICES ASSUME NEW c \in BookingIds
               PROVE  /\ DOMAIN reminders'[c] = DOMAIN reminders[c]
                      /\ \A j \in DOMAIN reminders[c] :
                            Advances(reminders[c][j], reminders'[c][j])
    OBVIOUS
  <2> HIDE DEF r
  <2>1. CASE c = b
    BY <1>2, <1>4, <1>5, <1>6, <2>1 DEF Advances
  <2>2. CASE c # b
    BY <1>2, <1>5, <2>2 DEF Advances
  <2> QED
    BY <2>1, <2>2
<1> QED
  BY <1>1, <1>7, <1>8 DEF RemindersAdvance, TypeOK

\* Moving reminders forward keeps the invariant: no booking and no due time changes.
LEMMA WorkerKeepsIInv ==
    ASSUME IInv, RemindersAdvance
    PROVE  IInv'
<1>1. TypeOK'
  BY DEF IInv, TypeOK, RemindersAdvance
<1>2. Confirmed' = Confirmed /\ bookings' = bookings /\ clock' = clock
  BY DEF Confirmed, RemindersAdvance
<1>3. NoOverlap' /\ OccupancyFollowsSnapshot'
  BY <1>2 DEF IInv, NoOverlap, OccupancyFollowsSnapshot
<1>4. \A b \in BookingIds : \A i \in DOMAIN reminders[b] :
        /\ reminders[b][i] \in Reminder
        /\ i \in DOMAIN reminders'[b]
        /\ Advances(reminders[b][i], reminders'[b][i])
  BY ElementOfSeq, LenProperties DEF IInv, TypeOK, RemindersAdvance
<1>5. \A b \in BookingIds : Pending(reminders'[b]) \subseteq Pending(reminders[b])
  BY <1>4 DEF RemindersAdvance, Pending, Advances
<1>6. RemindersOnTime'
  <2> SUFFICES ASSUME NEW b \in BookingIds, NEW i \in DOMAIN reminders'[b]
               PROVE  /\ reminders'[b][i].due = reminders'[b][i].start - Lead
                      /\ reminders'[b][i].status \in {"dispatched", "sent"}
                         => reminders'[b][i].start <= clock + Lead
    BY <1>2 DEF RemindersOnTime, DueFollowsStart
  <2>1. i \in DOMAIN reminders[b]
    BY DEF RemindersAdvance
  <2>2. reminders[b][i].due = reminders[b][i].start - Lead
        /\ (reminders[b][i].status \in {"dispatched", "sent"}
            => reminders[b][i].start <= clock + Lead)
    BY <2>1 DEF IInv, RemindersOnTime, DueFollowsStart
  <2> DEFINE old == reminders[b][i]
             new == reminders'[b][i]
  <2>3. /\ old.start \in Nat /\ clock \in Nat
        /\ Advances(old, new)
    BY <1>4, <2>1 DEF Reminder, IInv, TypeOK
  <2> HIDE DEF old, new
  <2>4. old.due = old.start - Lead
        /\ (old.status \in {"dispatched", "sent"} => old.start <= clock + Lead)
    BY <2>2 DEF old
  <2>5. /\ new.due = new.start - Lead
        /\ new.status \in {"dispatched", "sent"} => new.start <= clock + Lead
    BY <2>3, <2>4 DEF Advances
  <2> QED
    BY <2>5 DEF new
<1>7. PendingReminderCurrent'
  <2> SUFFICES ASSUME NEW b \in BookingIds
               PROVE  /\ \A i, j \in Pending(reminders'[b]) : i = j
                      /\ \A i \in Pending(reminders'[b]) :
                            /\ b \in Confirmed
                            /\ bookings[b].email
                            /\ reminders'[b][i].start = bookings[b].start
                            /\ reminders'[b][i].due = bookings[b].start - Lead
    BY <1>2 DEF PendingReminderCurrent
  <2>1. \A i \in Pending(reminders'[b]) :
          /\ i \in Pending(reminders[b])
          /\ reminders'[b][i].start = reminders[b][i].start
          /\ reminders'[b][i].due = reminders[b][i].due
    BY <1>4, <1>5 DEF Pending, Advances
  <2> QED
    BY <2>1 DEF IInv, PendingReminderCurrent
<1>8. NoReminderLost'
  <2> SUFFICES ASSUME NEW b \in Confirmed, bookings[b].email, bookings[b].start > clock + Lead
               PROVE  Pending(reminders'[b]) # {}
    BY <1>2 DEF NoReminderLost
  <2>1. b \in BookingIds /\ bookings[b].start \in Nat /\ clock \in Nat
    BY DEF IInv, TypeOK, Confirmed, Booking
  <2>2. PICK i \in Pending(reminders[b]) : TRUE
    BY DEF IInv, NoReminderLost
  <2>3. reminders[b][i].due = bookings[b].start - Lead
    BY <2>1, <2>2 DEF IInv, PendingReminderCurrent
  <2>4. ~(reminders[b][i].due <= clock)
    BY <2>1, <2>3
  <2>5. i \in DOMAIN reminders[b] /\ reminders[b][i].status = "pending"
    BY <2>2 DEF Pending
  <2>6. reminders'[b][i].status = "pending"
    BY <1>4, <2>1, <2>4, <2>5 DEF Advances
  <2> QED
    BY <1>4, <2>1, <2>5, <2>6 DEF Pending
<1> QED
  BY <1>1, <1>3, <1>6, <1>7, <1>8 DEF IInv

-----------------------------------------------------------------------------
(* The inductive invariant holds, and the theorems that follow from it.    *)

\* The empty tables satisfy the invariant.
LEMMA InitIInv == Init => IInv
<1> SUFFICES ASSUME Init PROVE IInv
  OBVIOUS
<1>1. DOMAIN bookings = {} /\ Confirmed = {} /\ bookings = [b \in {} |-> b]
  BY DEF Init, Confirmed
<1>2. \A b \in BookingIds : reminders[b] = <<>> /\ outbox[b] = <<>>
  BY DEF Init
<1>3. \A S : <<>> \in Seq(S)
  BY EmptySeq
<1>4. TypeOK
  <2>1. /\ reminders \in [BookingIds -> Seq(Reminder)]
        /\ outbox \in [BookingIds -> Seq(BookingEvent)]
    BY <1>3 DEF Init
  <2>2. bookings \in [DOMAIN bookings -> Booking]
    BY <1>1
  <2> QED
    BY <1>1, <2>1, <2>2 DEF Init, TypeOK, Organization
<1>5. \A b \in BookingIds : DOMAIN reminders[b] = {} /\ Pending(reminders[b]) = {}
  BY <1>2 DEF Pending
<1> QED
  BY <1>1, <1>4, <1>5
  DEF IInv, NoOverlap, OccupancyFollowsSnapshot, RemindersOnTime, DueFollowsStart,
      PendingReminderCurrent, NoReminderLost

\* Opening or closing the organization touches no table of the bookings.
LEMMA OrganizationKeepsIInv ==
    ASSUME IInv, OrganizationChanges
    PROVE  IInv'
<1>1. Confirmed' = Confirmed
  BY DEF Confirmed, OrganizationChanges
<1> QED
  BY <1>1
  DEF OrganizationChanges, IInv, TypeOK, NoOverlap, OccupancyFollowsSnapshot,
      RemindersOnTime, PendingReminderCurrent, NoReminderLost

\* The clock only moves on, so that what had come due stays due.
LEMMA TickKeepsIInv ==
    ASSUME IInv, Tick
    PROVE  IInv'
<1>1. Confirmed' = Confirmed
  BY DEF Confirmed, Tick
<1>2. clock' = clock + 1 /\ clock \in Nat
  BY DEF Tick, IInv, TypeOK
<1>3. RemindersOnTime'
  <2>1. \A b \in BookingIds : \A i \in DOMAIN reminders[b] : reminders[b][i].start \in Nat
    <3> SUFFICES ASSUME NEW b \in BookingIds, NEW i \in DOMAIN reminders[b]
                 PROVE  reminders[b][i].start \in Nat
      OBVIOUS
    <3>1. reminders[b] \in Seq(Reminder)
      BY DEF IInv, TypeOK
    <3>2. reminders[b][i] \in Reminder
      BY <3>1, ElementOfSeq, LenProperties
    <3> QED
      BY <3>2 DEF Reminder
  <2> QED
    BY <1>2, <2>1 DEF Tick, IInv, RemindersOnTime
<1>4. NoReminderLost'
  <2>1. \A b \in Confirmed : bookings[b].start \in Nat
    BY DEF IInv, TypeOK, Confirmed, Booking
  <2> QED
    BY <1>1, <1>2, <2>1 DEF Tick, IInv, NoReminderLost
<1>5. TypeOK' /\ NoOverlap' /\ OccupancyFollowsSnapshot' /\ PendingReminderCurrent'
  BY <1>1, <1>2 DEF Tick, IInv, TypeOK, NoOverlap, OccupancyFollowsSnapshot, PendingReminderCurrent
<1> QED
  BY <1>3, <1>4, <1>5 DEF IInv

\* Every step keeps the invariant.
LEMMA NextKeepsIInv ==
    ASSUME IInv, [Next]_vars
    PROVE  IInv'
<1>1. TypeOK /\ OccupancyFollowsSnapshot
  BY DEF IInv
<1>2. CASE \E now \in OpTimes : GuestOperation(now) \/ MemberOperation(now)
  BY <1>1, <1>2, OperationShape, OperationsKeepIInv
<1>3. CASE \E now \in OpTimes : \E b \in BookingIds : \E i \in DOMAIN reminders[b] :
                ProcessReminderEmail(b, i, now)
  BY <1>1, <1>3, ProcessAdvances, WorkerKeepsIInv
<1>4. CASE Dispatch
  BY <1>1, <1>4, DispatchAdvances, WorkerKeepsIInv
<1>5. CASE OrganizationChanges
  BY <1>5, OrganizationKeepsIInv
<1>6. CASE Tick
  BY <1>6, TickKeepsIInv
<1>7. CASE UNCHANGED vars
  <2>1. Confirmed' = Confirmed
    BY <1>7 DEF Confirmed, vars
  <2> QED
    BY <1>7, <2>1
    DEF vars, IInv, TypeOK, NoOverlap, OccupancyFollowsSnapshot, RemindersOnTime,
        PendingReminderCurrent, NoReminderLost
<1> QED
  BY <1>2, <1>3, <1>4, <1>5, <1>6, <1>7 DEF Next

\* The inductive invariant holds in every reachable state, for any constants that
\* satisfy the assumptions of Bookings.
THEOREM Invariance == Spec => []IInv
<1>1. Init => IInv
  BY InitIInv
<1>2. IInv /\ [Next]_vars => IInv'
  BY NextKeepsIInv
<1> QED
  BY <1>1, <1>2, PTL DEF Spec

\* The tables keep their types.
THEOREM TypeCorrect == Spec => []TypeOK
  BY Invariance, PTL DEF IInv

\* No two confirmed bookings of a resource ever overlap, whatever the operations,
\* their order and the age of their now.
THEOREM NoDoubleBooking == Spec => []NoOverlap
  BY Invariance, PTL DEF IInv

\* The stored occupancy is the snapshotted one after any number of moves.
THEOREM OccupancyIsSnapshotted == Spec => []OccupancyFollowsSnapshot
  BY Invariance, PTL DEF IInv

\* A pending reminder is about its booking as it is, and there is at most one.
THEOREM PendingRemindersAreCurrent == Spec => []PendingReminderCurrent
  BY Invariance, PTL DEF IInv

\* No operation loses the reminder of an appointment still more than a lead away.
THEOREM RemindersAreNotLost == Spec => []NoReminderLost
  BY Invariance, PTL DEF IInv

-----------------------------------------------------------------------------
(* Events.                                                                 *)

\* A log tells the history of a row: created first, each move where the last
\* one ended, a cancellation at the end.
Tells(log, row) ==
    \A i \in DOMAIN log :
        /\ log[i].type = "created" <=> i = 1
        /\ log[i].type = "cancelled" => i = Len(log) /\ row.status = "cancelled"
        /\ i > 1 => log[i].from = log[i - 1].to
        /\ i = Len(log) =>
              /\ log[i].to = AppointmentOf(row)
              /\ row.status = "cancelled" => log[i].type = "cancelled"

\* The outbox mirrors the bookings exactly when the log of each tells its row.
LEMMA OutboxTells ==
    OutboxMirrorsBookings <=>
        \A b \in BookingIds : /\ b \in DOMAIN bookings <=> outbox[b] # <<>>
                              /\ Tells(outbox[b], bookings[b])
  BY DEF OutboxMirrorsBookings, Tells

\* A first event begins a log, and a further one goes on where it ended.
LEMMA LogGrows ==
    ASSUME NEW log \in Seq(BookingEvent), NEW old, NEW row, NEW e \in BookingEvent,
           Tells(log, old),
           e.to = AppointmentOf(row),
           e.type = "cancelled" <=> row.status = "cancelled",
           e.type = "created" <=> log = <<>>,
           log # <<>> => e.from = AppointmentOf(old) /\ old.status # "cancelled"
    PROVE  Append(log, e) # <<>> /\ Tells(Append(log, e), row)
<1> DEFINE new == Append(log, e)
           n == Len(log)
<1>1. /\ n \in Nat /\ DOMAIN log = 1 .. n
      /\ Len(new) = n + 1 /\ DOMAIN new = 1 .. (n + 1)
      /\ new[n + 1] = e
      /\ \A i \in 1 .. n : new[i] = log[i]
  BY LenProperties, AppendProperties
<1>2. log = <<>> <=> n = 0
  BY EmptySeq
<1>3. new # <<>>
  BY <1>1, AppendProperties
<1> HIDE DEF new, n
<1>4. ASSUME NEW i \in 1 .. n
      PROVE  /\ new[i].type = "created" <=> i = 1
             /\ new[i].type # "cancelled"
             /\ i > 1 => new[i].from = new[i - 1].to
  <2>1. /\ new[i] = log[i] /\ i \in DOMAIN log /\ log # <<>>
        /\ i > 1 => i - 1 \in 1 .. n
    BY <1>1, <1>2
  <2> QED
    BY <1>1, <2>1 DEF Tells
<1>5. n > 0 => log[n].to = AppointmentOf(old)
  <2>1. n > 0 => n \in DOMAIN log /\ n = Len(log)
    BY <1>1 DEF n
  <2> QED
    BY <2>1 DEF Tells
<1>6. /\ new[n + 1].type = "created" <=> n + 1 = 1
      /\ new[n + 1].type = "cancelled" <=> row.status = "cancelled"
      /\ n + 1 > 1 => new[n + 1].from = new[n + 1 - 1].to
      /\ new[n + 1].to = AppointmentOf(row)
  BY <1>1, <1>2, <1>5
<1>7. ASSUME NEW i \in DOMAIN new
      PROVE  /\ new[i].type = "created" <=> i = 1
             /\ new[i].type = "cancelled" => i = Len(new) /\ row.status = "cancelled"
             /\ i > 1 => new[i].from = new[i - 1].to
             /\ i = Len(new) =>
                   /\ new[i].to = AppointmentOf(row)
                   /\ row.status = "cancelled" => new[i].type = "cancelled"
  <2>1. CASE i \in 1 .. n
    BY <1>1, <1>4, <2>1
  <2>2. CASE i = n + 1
    BY <1>1, <1>6, <2>2
  <2> QED
    BY <1>1, <2>1, <2>2
<1> QED
  BY <1>3, <1>7 DEF Tells, new

\* An operation records the event its change of the row calls for, and none without one.
LEMMA OperationMirrored ==
    ASSUME IInv, OutboxMirrorsBookings,
           NEW b \in BookingIds, NEW row \in Booking, NEW now \in OpTimes, NEW rems,
           BookingOperation(b, row, rems, now)
    PROVE  OutboxMirrorsBookings'
<1>1. /\ DOMAIN bookings' = DOMAIN bookings \cup {b}
      /\ bookings'[b] = row
      /\ \A c \in DOMAIN bookings' : c # b => c \in DOMAIN bookings /\ bookings'[c] = bookings[c]
  BY OperationRows
<1>2. \A c \in BookingIds : /\ c \in DOMAIN bookings <=> outbox[c] # <<>>
                            /\ Tells(outbox[c], bookings[c])
  BY OutboxTells
<1>3. outbox \in [BookingIds -> Seq(BookingEvent)]
  BY DEF IInv, TypeOK
<1>4. /\ outbox'[b] # <<>> /\ Tells(outbox'[b], row)
      /\ \A c \in BookingIds \ {b} : outbox'[c] = outbox[c]
  <2>1. CASE /\ outbox' = outbox
             /\ b \in DOMAIN bookings
             /\ AppointmentOf(row) = AppointmentOf(bookings[b])
             /\ bookings[b].status # "cancelled"
             /\ row.status # "cancelled"
    BY <1>2, <2>1 DEF Tells
  <2>2. ASSUME NEW e \in BookingEvent,
               outbox' = [outbox EXCEPT ![b] = Append(@, e)],
               e.to = AppointmentOf(row),
               e.type = "cancelled" <=> row.status = "cancelled",
               e.type = "created" <=> b \notin DOMAIN bookings,
               b \in DOMAIN bookings =>
                  /\ e.from = AppointmentOf(bookings[b])
                  /\ bookings[b].status # "cancelled"
        PROVE  /\ outbox'[b] # <<>> /\ Tells(outbox'[b], row)
               /\ \A c \in BookingIds \ {b} : outbox'[c] = outbox[c]
    <3>1. /\ outbox'[b] = Append(outbox[b], e)
          /\ \A c \in BookingIds \ {b} : outbox'[c] = outbox[c]
      BY <1>3, <2>2
    <3>2. outbox[b] \in Seq(BookingEvent) /\ Tells(outbox[b], bookings[b])
          /\ (e.type = "created" <=> outbox[b] = <<>>)
          /\ (outbox[b] # <<>> =>
                 e.from = AppointmentOf(bookings[b]) /\ bookings[b].status # "cancelled")
      BY <1>2, <1>3, <2>2
    <3>3. Append(outbox[b], e) # <<>> /\ Tells(Append(outbox[b], e), row)
      BY <2>2, <3>2, LogGrows
    <3> QED
      BY <3>1, <3>3
  <2> QED
    BY <2>1, <2>2 DEF BookingOperation, EventAfter
<1>5. \A c \in BookingIds : /\ c \in DOMAIN bookings' <=> outbox'[c] # <<>>
                            /\ Tells(outbox'[c], bookings'[c])
  <2> SUFFICES ASSUME NEW c \in BookingIds
               PROVE  /\ c \in DOMAIN bookings' <=> outbox'[c] # <<>>
                      /\ Tells(outbox'[c], bookings'[c])
    OBVIOUS
  <2>1. CASE c = b
    BY <1>1, <1>4, <2>1
  <2>2. CASE c \in DOMAIN bookings \ {b}
    BY <1>1, <1>2, <1>4, <2>2
  <2>3. CASE c \notin DOMAIN bookings /\ c # b
    <3>1. outbox'[c] = <<>> /\ c \notin DOMAIN bookings'
      BY <1>1, <1>2, <1>4, <2>3
    <3>2. DOMAIN <<>> = {}
      OBVIOUS
    <3> QED
      BY <3>1, <3>2 DEF Tells
  <2> QED
    BY <2>1, <2>2, <2>3
<1> QED
  BY <1>5 DEF OutboxMirrorsBookings, Tells

\* The events mirror the bookings: replayed, they give each booking's
\* appointment and tell whether it was cancelled.
THEOREM EventsMirrorBookings == Spec => []OutboxMirrorsBookings
<1>1. Init => OutboxMirrorsBookings
  <2> SUFFICES ASSUME Init PROVE OutboxMirrorsBookings
    OBVIOUS
  <2>1. DOMAIN bookings = {} /\ \A b \in BookingIds : outbox[b] = <<>>
    BY DEF Init
  <2>2. DOMAIN <<>> = {}
    OBVIOUS
  <2> QED
    BY <2>1, <2>2 DEF OutboxMirrorsBookings
<1>2. ASSUME IInv, OutboxMirrorsBookings, [Next]_vars
      PROVE  OutboxMirrorsBookings'
  <2>1. TypeOK /\ OccupancyFollowsSnapshot
    BY <1>2 DEF IInv
  <2>2. CASE \E now \in OpTimes : GuestOperation(now) \/ MemberOperation(now)
    <3>1. AnyOperation
      BY <2>1, <2>2, OperationShape
    <3> QED
      BY <1>2, <3>1, OperationMirrored DEF AnyOperation
  <2>3. ASSUME ~\E now \in OpTimes : GuestOperation(now) \/ MemberOperation(now)
        PROVE  UNCHANGED <<bookings, outbox>>
    BY <1>2, <2>3
    DEF Next, ProcessReminderEmail, Dispatch, DispatchDueReminders, OrganizationChanges, Tick, vars
  <2> QED
    BY <1>2, <2>2, <2>3 DEF OutboxMirrorsBookings
<1> QED
  BY <1>1, <1>2, Invariance, PTL DEF Spec

-----------------------------------------------------------------------------
(* No second reminder.                                                     *)

\* Cancelling pending reminders brings none to life, and a synchronisation
\* brings one to life only if there was no other for its start.
LEMMA SyncAddsOnlyMissing ==
    ASSUME NEW rems \in Seq(Reminder), NEW row, NEW now,
           NEW new, new = SyncReminder(rems, row, now, FALSE)
    PROVE  /\ Live(CancelPending(rems), row.start) \subseteq Live(rems, row.start)
           /\ \/ Live(new, row.start) \subseteq Live(rems, row.start)
              \/ Live(rems, row.start) = {}
<1> DEFINE eligible == ReminderEligible(row, now)
           matching == \E i \in Pending(rems) : rems[i].start = row.start
           needed == /\ eligible
                     /\ ~matching
                     /\ FALSE \/ ~AlreadyReminded(rems, row.start)
<1>1. Live(CancelPending(rems), row.start) \subseteq Live(rems, row.start)
  BY CancelPendingFacts DEF Live
<1>2. CASE needed
  BY <1>1, <1>2 DEF Live, AlreadyReminded, Pending
<1>3. CASE ~needed
  <2>1. new = rems \/ new = CancelPending(rems)
    BY <1>3 DEF SyncReminder
  <2> QED
    BY <1>1, <2>1
<1> QED
  BY <1>1, <1>2, <1>3

\* An operation that leaves an appointment where it is brings no second reminder to
\* life for its start.
LEMMA OperationRemindsOnce ==
    ASSUME IInv, NEW b \in BookingIds, NEW row \in Booking, NEW now \in OpTimes, NEW rems,
           BookingOperation(b, row, rems, now),
           NEW c \in DOMAIN bookings, AppointmentOf(bookings'[c]) = AppointmentOf(bookings[c])
    PROVE  \/ Live(reminders'[c], bookings[c].start) \subseteq Live(reminders[c], bookings[c].start)
           \/ Live(reminders[c], bookings[c].start) = {}
<1>1. /\ bookings'[b] = row
      /\ \A d \in BookingIds : reminders'[d] = IF d = b THEN rems ELSE reminders[d]
  BY OperationRows
<1>2. c \in BookingIds /\ reminders[b] \in Seq(Reminder)
  BY DEF IInv, TypeOK
<1>3. CASE c # b
  BY <1>1, <1>2, <1>3
<1>4. CASE c = b
  <2>1. row.start = bookings[c].start /\ AppointmentOf(row) = AppointmentOf(bookings[b])
    BY <1>1, <1>4 DEF AppointmentOf
  <2>2. rems = CancelPending(reminders[b]) \/ rems = SyncReminder(reminders[b], row, now, FALSE)
    BY <1>4, <2>1 DEF BookingOperation, RemindersAfter
  <2>3. reminders'[c] = rems /\ reminders[c] = reminders[b]
    BY <1>1, <1>2, <1>4
  <2> QED
    BY <1>2, <2>1, <2>2, <2>3, SyncAddsOnlyMissing
<1> QED
  BY <1>3, <1>4

\* The worker hands reminders over, sends and skips them; it adds none.
LEMMA WorkerRemindsOnce ==
    ASSUME RemindersAdvance, NEW b \in BookingIds, NEW start
    PROVE  Live(reminders'[b], start) \subseteq Live(reminders[b], start)
  BY DEF RemindersAdvance, Advances, Live

\* The guest is reminded once of an appointment, whatever the age of the now an
\* operation works with and however far the scheduler has come.
THEOREM GuestIsRemindedOnce == Spec => NoSecondReminder
<1> DEFINE Once(b) ==
             LET start == bookings[b].start
             IN  AppointmentOf(bookings'[b]) = AppointmentOf(bookings[b])
                 => \/ Live(reminders'[b], start) \subseteq Live(reminders[b], start)
                    \/ Live(reminders[b], start) = {}
<1>1. ASSUME IInv, [Next]_vars
      PROVE  [\A b \in DOMAIN bookings : Once(b)]_vars
  <2> SUFFICES ASSUME NEW b \in DOMAIN bookings
               PROVE  Once(b)
    OBVIOUS
  <2>1. TypeOK /\ OccupancyFollowsSnapshot /\ b \in BookingIds
    BY <1>1 DEF IInv, TypeOK
  <2>2. CASE \E now \in OpTimes : GuestOperation(now) \/ MemberOperation(now)
    <3>1. AnyOperation
      BY <2>1, <2>2, OperationShape
    <3> QED
      BY <1>1, <3>1, OperationRemindsOnce DEF AnyOperation
  <2>3. CASE RemindersAdvance
    BY <2>1, <2>3, WorkerRemindsOnce
  <2>4. CASE reminders' = reminders
    BY <2>4
  <2>5. \/ \E now \in OpTimes : GuestOperation(now) \/ MemberOperation(now)
        \/ RemindersAdvance
        \/ reminders' = reminders
    <3>1. CASE \E now \in OpTimes : \E c \in BookingIds : \E i \in DOMAIN reminders[c] :
                  ProcessReminderEmail(c, i, now)
      BY <2>1, <3>1, ProcessAdvances
    <3>2. CASE Dispatch
      BY <2>1, <3>2, DispatchAdvances
    <3>3. CASE OrganizationChanges \/ Tick \/ UNCHANGED vars
      BY <3>3 DEF OrganizationChanges, Tick, vars
    <3> QED
      BY <1>1, <3>1, <3>2, <3>3 DEF Next
  <2> QED
    BY <2>2, <2>3, <2>4, <2>5
<1> QED
  BY <1>1, Invariance, PTL DEF Spec, NoSecondReminder

-----------------------------------------------------------------------------
(* Bookings implement the calendar.                                        *)

\* What the calendar calls held is the time the confirmed bookings occupy.
LEMMA HeldSlots ==
    ASSUME IInv
    PROVE  /\ DOMAIN Held = Confirmed
           /\ \A b \in Confirmed :
                /\ Held[b].resource = bookings[b].resource
                /\ Held[b].from = bookings[b].start
                /\ Held[b].until = bookings[b].occupiedUntil
                /\ Held[b] \in BookedCalendar!Slot
<1>1. \A b \in Confirmed : bookings[b] \in Booking
  BY DEF IInv, TypeOK, Confirmed
<1> QED
  BY <1>1 DEF Held, BookedCalendar!Slot, Booking

\* Without bookings the calendar is empty.
LEMMA InitCalendar == Init => BookedCalendar!Init
<1> SUFFICES ASSUME Init PROVE BookedCalendar!Init
  OBVIOUS
<1>1. Confirmed = {}
  BY DEF Init, Confirmed
<1> QED
  BY <1>1 DEF Held, BookedCalendar!Init

\* An operation is a step of the calendar or leaves it as it is: it takes, moves or
\* gives up one slot at most, and a slot that is taken was free.
LEMMA OperationStepsCalendar ==
    ASSUME IInv, IInv', NEW b \in BookingIds, NEW row \in Booking, NEW now \in OpTimes, NEW rems,
           BookingOperation(b, row, rems, now)
    PROVE  BookedCalendar!Next \/ UNCHANGED Held
<1>1. /\ DOMAIN bookings' = DOMAIN bookings \cup {b}
      /\ bookings'[b] = row
      /\ \A c \in DOMAIN bookings' : c # b => c \in DOMAIN bookings /\ bookings'[c] = bookings[c]
  BY OperationRows
<1>2. \A c : c # b => (c \in Confirmed' <=> c \in Confirmed)
  BY <1>1 DEF Confirmed
<1>3. b \in Confirmed' <=> row.status = "confirmed"
  BY <1>1 DEF Confirmed
<1>4. \A c \in Confirmed \ {b} : Held'[c] = Held[c]
  <2>1. \A c \in Confirmed \ {b} : c \in Confirmed' /\ bookings'[c] = bookings[c]
    BY <1>1, <1>2 DEF Confirmed
  <2> QED
    BY <2>1 DEF Held
<1>5. DOMAIN Held = Confirmed /\ DOMAIN Held' = Confirmed'
  BY DEF Held
<1>6. CASE row.status = "confirmed"
  <2>1. Confirmed' = Confirmed \cup {b}
    BY <1>2, <1>3, <1>6
  <2>2. Held' = [c \in Confirmed \cup {b} |-> IF c = b THEN Held'[b] ELSE Held[c]]
    <3>1. Held' = [c \in Confirmed' |-> Held'[c]]
      BY DEF Held
    <3> QED
      BY <1>4, <2>1, <3>1
  <2>3. /\ Held'[b].resource = bookings'[b].resource
        /\ Held'[b].from = bookings'[b].start
        /\ Held'[b].until = bookings'[b].occupiedUntil
        /\ Held'[b] \in BookedCalendar!Slot
    <3>1. b \in Confirmed' /\ bookings'[b] \in Booking
      BY <1>1, <2>1
    <3> QED
      BY <3>1 DEF Held, BookedCalendar!Slot, Booking
  <2>4. \A c \in Confirmed \ {b} : BookedCalendar!Disjoint(Held'[b], Held[c])
    <3> SUFFICES ASSUME NEW c \in Confirmed \ {b}
                 PROVE  BookedCalendar!Disjoint(Held'[b], Held[c])
      OBVIOUS
    <3>1. c \in Confirmed' /\ b \in Confirmed' /\ bookings'[c] = bookings[c]
      BY <1>1, <1>2, <2>1 DEF Confirmed
    <3>2. bookings'[b].resource = bookings'[c].resource =>
             \/ bookings'[b].occupiedUntil <= bookings'[c].start
             \/ bookings'[c].occupiedUntil <= bookings'[b].start
      BY <3>1 DEF IInv, NoOverlap
    <3>3. /\ Held[c].resource = bookings[c].resource
          /\ Held[c].from = bookings[c].start
          /\ Held[c].until = bookings[c].occupiedUntil
      BY HeldSlots
    <3> QED
      BY <2>3, <3>1, <3>2, <3>3 DEF BookedCalendar!Disjoint
  <2>5. BookedCalendar!Hold(b)
    BY <1>5, <2>1, <2>2, <2>3, <2>4 DEF BookedCalendar!Hold
  <2> QED
    BY <2>5 DEF BookedCalendar!Next
<1>7. CASE row.status # "confirmed"
  <2>1. Confirmed' = Confirmed \ {b}
    BY <1>2, <1>3, <1>7
  <2>2. Held' = [c \in Confirmed \ {b} |-> Held[c]]
    <3>1. Held' = [c \in Confirmed' |-> Held'[c]]
      BY DEF Held
    <3> QED
      BY <1>4, <2>1, <3>1
  <2>3. CASE b \in Confirmed
    <3>1. BookedCalendar!Release(b)
      BY <1>5, <2>2, <2>3 DEF BookedCalendar!Release
    <3> QED
      BY <3>1 DEF BookedCalendar!Next
  <2>4. CASE b \notin Confirmed
    <3>1. Confirmed \ {b} = Confirmed
      BY <2>4
    <3>2. Held = [c \in Confirmed |-> Held[c]]
      BY DEF Held
    <3> QED
      BY <2>2, <3>1, <3>2
  <2> QED
    BY <2>3, <2>4
<1> QED
  BY <1>6, <1>7

\* Every step is a step of the calendar or a stutter of it.
LEMMA NextStepsCalendar ==
    ASSUME IInv, [Next]_vars
    PROVE  [BookedCalendar!Next]_Held
<1>1. TypeOK /\ OccupancyFollowsSnapshot /\ IInv'
  BY NextKeepsIInv DEF IInv
<1>2. CASE \E now \in OpTimes : GuestOperation(now) \/ MemberOperation(now)
  <2>1. AnyOperation
    BY <1>1, <1>2, OperationShape
  <2>2. PICK b \in BookingIds, row \in Booking, now \in OpTimes :
          \E rems : BookingOperation(b, row, rems, now)
    BY <2>1 DEF AnyOperation
  <2> QED
    BY <1>1, <2>2, OperationStepsCalendar
<1>3. CASE UNCHANGED bookings
  <2>1. Held' = Held
    BY <1>3 DEF Held, Confirmed
  <2> QED
    BY <2>1
<1>4. ASSUME ~\E now \in OpTimes : GuestOperation(now) \/ MemberOperation(now)
      PROVE  UNCHANGED bookings
  BY <1>4
  DEF Next, ProcessReminderEmail, Dispatch, DispatchDueReminders, OrganizationChanges, Tick, vars
<1> QED
  BY <1>2, <1>3, <1>4

\* The booking operations implement the calendar: a step takes, moves or gives
\* up the slot of one booking, never into another booking's time.
THEOREM BookingsKeepTheCalendar == Spec => ImplementsCalendar
<1>1. Init => BookedCalendar!Init
  BY InitCalendar
<1>2. IInv /\ [Next]_vars => [BookedCalendar!Next]_Held
  BY NextStepsCalendar
<1> QED
  BY <1>1, <1>2, Invariance, PTL DEF Spec, ImplementsCalendar, BookedCalendar!Spec
=============================================================================
