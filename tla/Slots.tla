------------------------------- MODULE Slots -------------------------------
(***************************************************************************)
(* How the hours, overrides and blocks of one resource become the starts   *)
(* that are offered on a date.  Minutes of a local day are 0 .. Day - 1,   *)
(* an interval is half open, and a list of intervals is a sequence because *)
(* the code sorts and walks it.  An instant counts the minutes since the   *)
(* first date began; Shift says what the clocks do: on a date with         *)
(* by = -1 the local minute `at' does not exist, with by = 1 it comes      *)
(* twice.                                                                  *)
(***************************************************************************)
EXTENDS Integers, Sequences, FiniteSets

CONSTANTS
    Day,            \* minutes of a local day, 1440 in the code
    LastDate,       \* dates are 0 .. LastDate
    Shift,          \* date -> [at, by]: the clock change of the date
    WeekdayOf,      \* date -> weekday
    Invalid         \* a list or a list of starts that is refused

Dates == 0..LastDate
Weekdays == {WeekdayOf[d] : d \in Dates}

-----------------------------------------------------------------------------
\* Intervals.

IsMinuteInterval(i) == i.from \in 0..Day-1 /\ i.until \in 1..Day /\ i.from < i.until

Before(a, b) == a.from < b.from \/ (a.from = b.from /\ a.until < b.until)

\* A list in order: a place belongs to the interval with as many ahead of it.
Ahead(list, i) == {j \in DOMAIN list : Before(list[j], list[i]) \/ (list[j] = list[i] /\ j < i)}
Sorted(list) ==
    [n \in DOMAIN list |-> list[CHOOSE i \in DOMAIN list : Cardinality(Ahead(list, i)) = n - 1]]

\* Rows as a query returns them, by start and end.
InOrder(rows) ==
    [n \in 1..Cardinality(rows) |->
        CHOOSE h \in rows : Cardinality({g \in rows : Before(g, h)}) = n - 1]

NormalizeMinuteIntervals_Open(list) ==
    LET sorted == Sorted(list) IN
    IF \A n \in 1..Len(sorted) - 1 : sorted[n].until <= sorted[n + 1].from THEN sorted ELSE Invalid
NormalizeMinuteIntervals(list) ==
    LET sorted == Sorted(list) IN
    IF /\ \A n \in DOMAIN sorted : IsMinuteInterval(sorted[n])
       /\ \A n \in 1..Len(sorted) - 1 : sorted[n].until <= sorted[n + 1].from
    THEN sorted
    ELSE Invalid

NormalizeDateOverride(mode, list) ==
    IF (mode = "custom") # (list = <<>>) THEN NormalizeMinuteIntervals(list) ELSE Invalid

-----------------------------------------------------------------------------
\* The four layers.  An override without a parent row inherits, a parent row
\* without intervals closes, one with intervals replaces the hours.

HoursOf(s, key) ==
    InOrder({[from |-> h.from, until |-> h.until] : h \in {g \in s.hours : g.key = key}})

ProjectScheduleOverride_NoRow(s, key) ==
    [mode |-> IF HoursOf(s, key) = <<>> THEN "inherit" ELSE "custom", intervals |-> HoursOf(s, key)]
ProjectScheduleOverride(s, key) ==
    [mode |-> IF key \notin s.parents THEN "inherit"
              ELSE IF HoursOf(s, key) = <<>> THEN "closed" ELSE "custom",
     intervals |-> HoursOf(s, key)]

OrganizationWeekly(weekday) == <<"organizationWeekly", weekday>>
ResourceWeekly(resource, weekday) == <<"resourceWeekly", resource, weekday>>
OrganizationDate(date) == <<"organizationDate", date>>
ResourceDate(resource, date) == <<"resourceDate", resource, date>>

Override(hours, layer) == IF layer.mode = "inherit" THEN hours ELSE layer.intervals

ResolveAvailabilityLayers_DateReopens(weekly, resourceWeekly, organizationDate, resourceDate) ==
    Override(Override(Override(weekly, resourceWeekly), organizationDate), resourceDate)
ResolveAvailabilityLayers(weekly, resourceWeekly, organizationDate, resourceDate) ==
    IF organizationDate.mode = "closed" THEN <<>>
    ELSE Override(Override(Override(weekly, resourceWeekly), organizationDate), resourceDate)

\* resolveResourceScheduleAfterAccessInTransaction: what the rows in s say.
Schedule(s, resource, date) ==
    ResolveAvailabilityLayers(
        HoursOf(s, OrganizationWeekly(WeekdayOf[date])),
        ProjectScheduleOverride(s, ResourceWeekly(resource, WeekdayOf[date])),
        ProjectScheduleOverride(s, OrganizationDate(date)),
        ProjectScheduleOverride(s, ResourceDate(resource, date)))

-----------------------------------------------------------------------------
\* Time blocks are cut out of the schedule, and starts are laid into the rest.

Later(m, n) == IF m > n THEN m ELSE n

\* A block cuts [cursor, window.until): what lies before it is kept.
Cut_Shrinks(window, acc, block) ==
    IF block.from >= window.until \/ block.until <= acc.cursor THEN acc
    ELSE [cursor |-> block.until,
          kept |-> IF block.from >= acc.cursor
                   THEN acc.kept \cup {[from |-> acc.cursor, until |-> block.from]}
                   ELSE acc.kept]
Cut(window, acc, block) ==
    IF block.from >= window.until \/ block.until <= acc.cursor THEN acc
    ELSE [cursor |-> Later(acc.cursor, block.until),
          kept |-> IF block.from > acc.cursor
                   THEN acc.kept \cup {[from |-> acc.cursor, until |-> block.from]}
                   ELSE acc.kept]

\* The walk along the blocks, and what is left of the window after it.
Walk(window, blocks) ==
    LET walk[n \in 0..Len(blocks)] ==
            IF n = 0 THEN [cursor |-> window.from, kept |-> {}]
            ELSE Cut(window, walk[n - 1], blocks[n])
    IN  walk
Rest(window, blocks) ==
    LET cut == Walk(window, blocks)[Len(blocks)] IN
    IF cut.cursor < window.until
    THEN cut.kept \cup {[from |-> cut.cursor, until |-> window.until]}
    ELSE cut.kept

SubtractIntervals(working, blocked) ==
    LET blocks == Sorted(blocked) IN
    InOrder(UNION {Rest(working[n], blocks) : n \in DOMAIN working})

BlocksOf(s, resource, date) ==
    InOrder({[from |-> b.from, until |-> b.until] :
             b \in {c \in s.blocks : c.resource = resource /\ c.date = date}})

WorkingWindows(s, resource, date) ==
    SubtractIntervals(Schedule(s, resource, date), BlocksOf(s, resource, date))

GenerateCandidateSlotStarts(windows, interval) ==
    UNION {{m \in windows[n].from..windows[n].until - 1 : (m - windows[n].from) % interval = 0} :
           n \in DOMAIN windows}

FilterCandidateSlotStartsByServiceFit_Duration(windows, starts, duration, buffer) ==
    {m \in starts : \E n \in DOMAIN windows :
        m >= windows[n].from /\ m + duration <= windows[n].until}
FilterCandidateSlotStartsByServiceFit(windows, starts, duration, buffer) ==
    {m \in starts : \E n \in DOMAIN windows :
        m >= windows[n].from /\ m + duration + buffer <= windows[n].until}

\* generateServiceSlotStarts for the rows in s; a rescheduled booking brings its
\* own duration and buffer.
ConfiguredStarts(s, resource, date, duration, buffer) ==
    LET windows == WorkingWindows(s, resource, date) IN
    FilterCandidateSlotStartsByServiceFit(
        windows, GenerateCandidateSlotStarts(windows, s.settings.interval), duration, buffer)

-----------------------------------------------------------------------------
\* Local time and instants.

Elapsed[d \in 0..LastDate + 1] ==
    IF d = 0 THEN 0 ELSE Elapsed[d - 1] + Day + Shift[d - 1].by

DateAt(now) == CHOOSE d \in Dates : Elapsed[d] <= now /\ now < Elapsed[d + 1]

\* A wall time that does not exist or comes twice has no instant.
LocalBookingStartToUtc(date, minute) ==
    LET change == Shift[date] IN
    IF change.by # 0 /\ minute = change.at THEN Invalid
    ELSE Elapsed[date] + minute + (IF minute > change.at THEN change.by ELSE 0)

\* [from, until): a booking is measured in elapsed minutes.
Occupied(date, minute, duration, buffer) ==
    LET at == LocalBookingStartToUtc(date, minute) IN
    [from |-> at, until |-> at + duration + buffer]

Overlap(a, b) == a.from < b.until /\ b.from < a.until

FreeStarts_Touching(s, resource, date, starts, duration, buffer) ==
    {m \in starts :
        /\ LocalBookingStartToUtc(date, m) # Invalid
        /\ \A b \in s.bookings : b.resource = resource =>
              ~(LET o == Occupied(date, m, duration, 0) IN Overlap(o, b))}
\* filterSlotStartsByBookingOccupancy over the wall times that have an instant.
FreeStarts(s, resource, date, starts, duration, buffer) ==
    {m \in starts :
        /\ LocalBookingStartToUtc(date, m) # Invalid
        /\ \A b \in s.bookings : b.resource = resource =>
              ~Overlap(Occupied(date, m, duration, buffer), b)}

FilterStartsByPublicBookingWindow_Hours(s, date, starts, now) ==
    IF date < DateAt(now) \/ date > DateAt(now) + s.settings.horizon THEN Invalid
    ELSE {m \in starts : Elapsed[date] + m >= now + s.settings.notice}
FilterStartsByPublicBookingWindow(s, date, starts, now) ==
    IF date < DateAt(now) \/ date > DateAt(now) + s.settings.horizon THEN Invalid
    ELSE {m \in starts : LocalBookingStartToUtc(date, m) >= now + s.settings.notice}

\* What a visitor is offered: resolveForDate.
PublicStarts(s, resource, date, duration, buffer, now) ==
    FilterStartsByPublicBookingWindow(s, date,
        FreeStarts(s, resource, date, ConfiguredStarts(s, resource, date, duration, buffer),
                   duration, buffer),
        now)

\* The first date from `date' on with a start to offer, or Invalid; the dates
\* are tried one after the other up to the end of the booking window.
FirstPublicDate_Weekly(s, resource, duration, buffer, now) ==
    LET last == DateAt(now) + s.settings.horizon
        search[d \in Dates] ==
            IF d > last THEN Invalid
            ELSE IF PublicStarts(s, resource, d, duration, buffer, now) # {} THEN d
            ELSE IF d + 2 \in Dates THEN search[d + 2] ELSE Invalid
    IN  search
FirstPublicDate(s, resource, duration, buffer, now) ==
    LET last == DateAt(now) + s.settings.horizon
        search[d \in Dates] ==
            IF d > last THEN Invalid
            ELSE IF PublicStarts(s, resource, d, duration, buffer, now) # {} THEN d
            ELSE IF d + 1 \in Dates THEN search[d + 1] ELSE Invalid
    IN  search

NextPublicDate(s, resource, date, duration, buffer, now) ==
    IF date < DateAt(now) THEN Invalid ELSE FirstPublicDate(s, resource, duration, buffer, now)[date]
=============================================================================
