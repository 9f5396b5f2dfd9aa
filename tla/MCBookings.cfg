\* Two bookings on two resources; one booking and its reminders.
SPECIFICATION SliceSpec
CONSTANTS
  b1 = b1
  b2 = b2
  r1 = r1
  r2 = r2
  BookingIds <- TwoBookings
  Resources <- TwoResources
  Starts = {1, 2, 3}
  Shapes <- BothShapes
  Cutoffs = {0, 1}
  Lead = 1
  BatchSize = 1
  MaxTime = 3
  MaxLag = 1
  MaxReminders = 3
  MaxEvents = 3
SYMMETRY Symmetry
INVARIANTS TypeOK PendingReminderCurrent NoReminderLost OutboxMirrorsBookings
PROPERTIES ImplementsCalendar NoSecondReminder
