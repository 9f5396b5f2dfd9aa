------------------------------ MODULE Schedule ------------------------------
(***************************************************************************)
(* The availability configuration of one organization and the bookings     *)
(* that are decided on it.                                                 *)
(*                                                                         *)
(* A save is a READ COMMITTED transaction that locks the organization, so  *)
(* saves are ordered and each is one step here (module Catalog has the     *)
(* lock itself).  A booking is SERIALIZABLE: it resolves the offered       *)
(* starts on a snapshot and inserts later.  A change of the settings       *)
(* updates the organization row and fails the insert with 40001, after     *)
(* which the booking starts over; a save of hours or blocks does not touch *)
(* a row the booking locks.                                                *)
(***************************************************************************)
EXTENDS Slots

CONSTANTS
    Resources, Actors,
    Role,           \* actor -> "owner", "admin" or "staff"
    Linked,         \* resource -> the actor it is linked to, or Invalid
    Lists,          \* the lists of intervals that are sent
    Settings,       \* the settings that are sent: [interval, notice, horizon]
    BlockIds,
    Duration, Buffer,   \* the service
    MaxSaves,       \* bound on the number of saves
    MaxNow          \* bound on time

VARIABLES
    stored,         \* the committed rows
    meant,          \* key -> the mode and intervals its last save returned
    saves,
    now,
    attempt         \* the booking under way, with its snapshot, or Invalid

scheduleVars == <<stored, meant, saves, now, attempt>>

-----------------------------------------------------------------------------
Keys ==
    {OrganizationWeekly(w) : w \in Weekdays} \cup {OrganizationDate(d) : d \in Dates}
        \cup {ResourceWeekly(r, w) : r \in Resources, w \in Weekdays}
        \cup {ResourceDate(r, d) : r \in Resources, d \in Dates}
Modes == {"inherit", "closed", "custom"}
Minute == 0..Day
Bounds == [from : Int, until : Int]
Rows == {"parents", "hours", "blocks", "settings", "bookings"}

\* What the constants stand for.
ScheduleFits ==
    /\ Day \in Nat /\ LastDate \in Nat
    /\ Shift \in [Dates -> [at : Int, by : Int]]
    /\ DOMAIN WeekdayOf = Dates
    /\ Lists \subseteq Seq(Bounds)
    /\ Settings \subseteq [interval : Nat \ {0}, notice : Nat, horizon : Nat]
    /\ Duration \in Nat \ {0} /\ Buffer \in Nat
    /\ MaxSaves \in Nat
    /\ MaxNow \in Nat /\ MaxNow < Elapsed[LastDate + 1]
    /\ Invalid \notin Dates
    /\ Invalid \notin [mode : Modes, intervals : Seq(Bounds)]
    /\ \A starts \in SUBSET Minute : Invalid # starts

\* The parent and interval rows agree with the foreign keys, and every row with
\* its check constraints.
ScheduleTypeOK ==
    /\ DOMAIN stored = Rows
    /\ stored.parents \subseteq Keys
    /\ \A h \in stored.hours :
          /\ IsMinuteInterval(h)
          /\ h.key \in stored.parents \cup {OrganizationWeekly(w) : w \in Weekdays}
    /\ \A b \in stored.blocks :
          b.id \in BlockIds /\ b.resource \in Resources /\ b.date \in Dates /\ IsMinuteInterval(b)
    /\ stored.settings \in Settings
    /\ \A b \in stored.bookings : b.resource \in Resources /\ b.from < b.until
    /\ \A k \in Keys : meant[k].mode \in Modes
    /\ saves \in 0..MaxSaves
    /\ now \in 0..MaxNow

ScheduleInit ==
    /\ stored \in [parents : {{}}, hours : {{}}, blocks : {{}}, settings : Settings, bookings : {{}}]
    /\ meant = [k \in Keys |-> [mode |-> "inherit", intervals |-> <<>>]]
    /\ saves = 0
    /\ now = 0
    /\ attempt = Invalid

-----------------------------------------------------------------------------
\* Who may save what.

Manages(actor) == Role[actor] # "staff"

CanManageResourceAvailability(actor, resource) ==
    \/ Role[actor] = "owner"
    \/ Role[actor] = "staff" /\ Linked[resource] = actor
    \/ /\ Role[actor] = "admin"
       /\ Linked[resource] # Invalid => Role[Linked[resource]] = "staff"

Save(new) ==
    /\ saves' = saves + 1
    /\ stored' = new
    /\ UNCHANGED now

Hours(key, list) == {[key |-> key, from |-> list[n].from, until |-> list[n].until] : n \in DOMAIN list}

\* The rows of the keys in plan are deleted, a parent with its intervals, and
\* inserted again from the normalized plan: key -> [mode, intervals].
Replaced_NoCascade(plan) ==
    [stored EXCEPT
        !.parents = (@ \ DOMAIN plan) \cup {k \in DOMAIN plan : plan[k].mode # "inherit"},
        !.hours = @ \cup UNION {Hours(k, plan[k].intervals) : k \in DOMAIN plan}]
Replaced(plan) ==
    [stored EXCEPT
        !.parents = (@ \ DOMAIN plan) \cup {k \in DOMAIN plan : plan[k].mode # "inherit"},
        !.hours = {h \in @ : h.key \notin DOMAIN plan}
                      \cup UNION {Hours(k, plan[k].intervals) : k \in DOMAIN plan}]

Means(plan) == meant' = [k \in Keys |-> IF k \in DOMAIN plan THEN plan[k] ELSE meant[k]]

\* An answer of invalid_weekly_hours or invalid_date_override changes nothing:
\* the operation is not enabled.
ReplaceOverrides(sent) ==
    LET plan == [k \in DOMAIN sent |->
                    [mode |-> sent[k].mode,
                     intervals |-> NormalizeDateOverride(sent[k].mode, sent[k].intervals)]]
    IN  /\ \A k \in DOMAIN plan : plan[k].intervals # Invalid
        /\ Save(Replaced(plan))
        /\ Means(plan)
        /\ UNCHANGED attempt

Sent == [mode : Modes, intervals : Lists]

ReplaceOrganizationWeeklyHours(actor, days) ==
    LET plan == [k \in {OrganizationWeekly(w) : w \in Weekdays} |->
                    [mode |-> "inherit", intervals |-> NormalizeMinuteIntervals(days[k[2]])]]
    IN  /\ Manages(actor)
        /\ \A k \in DOMAIN plan : plan[k].intervals # Invalid
        /\ Save(Replaced(plan))
        /\ Means(plan)
        /\ UNCHANGED attempt

ReplaceResourceWeeklyHours(actor, resource, days) ==
    /\ CanManageResourceAvailability(actor, resource)
    /\ ReplaceOverrides([k \in {ResourceWeekly(resource, w) : w \in Weekdays} |-> days[k[3]]])

ReplaceOrganizationDateOverride(actor, date, sent) ==
    /\ Manages(actor)
    /\ ReplaceOverrides([k \in {OrganizationDate(date)} |-> sent])

ReplaceResourceDateOverride(actor, resource, date, sent) ==
    /\ CanManageResourceAvailability(actor, resource)
    /\ ReplaceOverrides([k \in {ResourceDate(resource, date)} |-> sent])

\* The exclusion constraint refuses a block that overlaps another one of the
\* resource and date.
BlockFits_SameStart(block) ==
    \A b \in stored.blocks :
        (b.resource = block.resource /\ b.date = block.date) => b.from # block.from
BlockFits(block) ==
    \A b \in stored.blocks :
        (b.resource = block.resource /\ b.date = block.date) => ~Overlap(b, block)

CreateResourceTimeBlock(actor, block) ==
    /\ CanManageResourceAvailability(actor, block.resource)
    /\ IsMinuteInterval(block)
    /\ \A b \in stored.blocks : b.id # block.id
    /\ BlockFits(block)
    /\ Save([stored EXCEPT !.blocks = @ \cup {block}])
    /\ UNCHANGED <<meant, attempt>>

DeleteResourceTimeBlock(actor, block) ==
    /\ block \in stored.blocks
    /\ CanManageResourceAvailability(actor, block.resource)
    /\ Save([stored EXCEPT !.blocks = @ \ {block}])
    /\ UNCHANGED <<meant, attempt>>

UpdateOrganizationAvailabilitySettings(actor, settings) ==
    /\ Manages(actor)
    /\ Save([stored EXCEPT !.settings = settings])
    /\ attempt' = IF attempt = Invalid THEN Invalid ELSE [attempt EXCEPT !.stale = TRUE]
    /\ UNCHANGED meant

-----------------------------------------------------------------------------
\* What a member is shown; each answer is read in one snapshot.

Refused == Invalid

BlocksAt(resource, date) == {b \in stored.blocks : b.resource = resource /\ b.date = date}

GetOrganizationWeeklyHours(actor) ==
    IF ~Manages(actor) THEN Refused
    ELSE [w \in Weekdays |-> HoursOf(stored, OrganizationWeekly(w))]

GetOrganizationDateOverride(actor, date) ==
    IF ~Manages(actor) THEN Refused ELSE ProjectScheduleOverride(stored, OrganizationDate(date))

GetResourceWeeklyHours(actor, resource) ==
    IF ~CanManageResourceAvailability(actor, resource) THEN Refused
    ELSE [w \in Weekdays |-> ProjectScheduleOverride(stored, ResourceWeekly(resource, w))]

GetResourceDateOverride(actor, resource, date) ==
    IF ~CanManageResourceAvailability(actor, resource) THEN Refused
    ELSE ProjectScheduleOverride(stored, ResourceDate(resource, date))

ListManageableScheduleResources(actor) ==
    {r \in Resources : CanManageResourceAvailability(actor, r)}

ListResourceTimeBlocks(actor, resource, date) ==
    IF ~CanManageResourceAvailability(actor, resource) THEN Refused
    ELSE BlocksAt(resource, date)

-----------------------------------------------------------------------------
\* A visitor books: executePublicBookingTransaction.

Offered(s, resource, date, at) == PublicStarts(s, resource, date, Duration, Buffer, at)

BeginBooking(resource, date, minute) ==
    /\ attempt = Invalid
    /\ LET starts == Offered(stored, resource, date, now) IN
       starts # Invalid /\ minute \in starts
    /\ attempt' = [resource |-> resource, date |-> date, minute |-> minute, now |-> now,
                   stale |-> FALSE]
    /\ UNCHANGED <<stored, meant, saves, now>>

Slot(a) == LET o == Occupied(a.date, a.minute, Duration, Buffer) IN
           [resource |-> a.resource, from |-> o.from, until |-> o.until]

\* The insert: the exclusion constraint refuses an overlap.
CommitBooking ==
    /\ attempt # Invalid
    /\ ~attempt.stale
    /\ \A b \in stored.bookings : b.resource = attempt.resource => ~Overlap(b, Slot(attempt))
    /\ stored' = [stored EXCEPT !.bookings = @ \cup {Slot(attempt)}]
    /\ attempt' = Invalid
    /\ UNCHANGED <<meant, saves, now>>

\* 40001: the attempt is repeated on a new snapshot, or gives up.
RetryBooking ==
    /\ attempt # Invalid
    /\ attempt.stale
    /\ LET starts == Offered(stored, attempt.resource, attempt.date, attempt.now)
           again == starts # Invalid /\ attempt.minute \in starts
       IN  attempt' = IF again THEN [attempt EXCEPT !.stale = FALSE] ELSE Invalid
    /\ UNCHANGED <<stored, meant, saves, now>>

CancelBooking(b) ==
    /\ b \in stored.bookings
    /\ stored' = [stored EXCEPT !.bookings = @ \ {b}]
    /\ UNCHANGED <<meant, saves, now, attempt>>

Tick ==
    /\ now < MaxNow
    /\ now' = now + 1
    /\ UNCHANGED <<stored, meant, saves, attempt>>

-----------------------------------------------------------------------------
Blocks == [id : BlockIds, resource : Resources, date : Dates, from : Minute, until : Minute]

SaveHours ==
    /\ saves < MaxSaves
    /\ \E actor \in Actors :
          \/ \E days \in [Weekdays -> Lists] : ReplaceOrganizationWeeklyHours(actor, days)
          \/ \E resource \in Resources, days \in [Weekdays -> Sent] :
                ReplaceResourceWeeklyHours(actor, resource, days)
          \/ \E date \in Dates, sent \in Sent : ReplaceOrganizationDateOverride(actor, date, sent)
          \/ \E resource \in Resources, date \in Dates, sent \in Sent :
                ReplaceResourceDateOverride(actor, resource, date, sent)

SaveBlocksOrSettings ==
    /\ saves < MaxSaves
    /\ \E actor \in Actors :
          \/ \E block \in Blocks : CreateResourceTimeBlock(actor, block)
          \/ \E block \in stored.blocks : DeleteResourceTimeBlock(actor, block)
          \/ \E settings \in Settings : UpdateOrganizationAvailabilitySettings(actor, settings)

Book ==
    \/ \E resource \in Resources, date \in Dates, minute \in 0..Day-1 :
          BeginBooking(resource, date, minute)
    \/ CommitBooking
    \/ RetryBooking
    \/ \E b \in stored.bookings : CancelBooking(b)

ScheduleNext == SaveHours \/ SaveBlocksOrSettings \/ Book \/ Tick

ScheduleSpec == ScheduleInit /\ [][ScheduleNext]_scheduleVars

-----------------------------------------------------------------------------
\* The minutes of a list of intervals.
Minutes(list) == UNION {list[n].from .. list[n].until - 1 : n \in DOMAIN list}

\* The hours that count on a date: a closed date stays closed; otherwise the most
\* specific layer that does not inherit.
OpenMinutes(resource, date) ==
    LET layers == <<ResourceDate(resource, date), OrganizationDate(date),
                    ResourceWeekly(resource, WeekdayOf[date])>>
        says(n) == meant[layers[n]].mode # "inherit"
        first == {n \in DOMAIN layers : says(n) /\ \A k \in 1..n - 1 : ~says(k)}
    IN  IF meant[OrganizationDate(date)].mode = "closed" THEN {}
        ELSE IF first = {} THEN Minutes(meant[OrganizationWeekly(WeekdayOf[date])].intervals)
        ELSE UNION {Minutes(meant[layers[n]].intervals) : n \in first}

BlockedMinutes(blocks) == UNION {b.from .. b.until - 1 : b \in blocks}

\* Whoever may read a schedule is shown what the last save of it answered: rows
\* left behind by an earlier save of the same day (an interval of a day that is
\* closed or inherits now) never show (the cascading deletes of the replace
\* operations, getOrganizationDateOverride and its siblings).
ShownAsSaved ==
    \A actor \in Actors :
        LET weekly == GetOrganizationWeeklyHours(actor) IN
        /\ weekly # Refused =>
              \A w \in Weekdays : weekly[w] = meant[OrganizationWeekly(w)].intervals
        /\ \A d \in Dates :
              \/ GetOrganizationDateOverride(actor, d) = Refused
              \/ GetOrganizationDateOverride(actor, d) = meant[OrganizationDate(d)]
        /\ \A r \in Resources, d \in Dates :
              /\ GetResourceDateOverride(actor, r, d) # Refused
                    <=> r \in ListManageableScheduleResources(actor)
              /\ r \in ListManageableScheduleResources(actor) =>
                    /\ GetResourceDateOverride(actor, r, d) = meant[ResourceDate(r, d)]
                    /\ GetResourceWeeklyHours(actor, r)
                          = [w \in Weekdays |-> meant[ResourceWeekly(r, w)]]

\* Whatever was saved, hours of one day and blocks of one date do not overlap,
\* which the walks over sorted intervals rely on.
IntervalsApart ==
    /\ \A g, h \in stored.hours : (g # h /\ g.key = h.key) => ~Overlap(g, h)
    /\ \A b, c \in stored.blocks :
          (b # c /\ b.resource = c.resource /\ b.date = c.date) => ~Overlap(b, c)

\* The working windows are exactly the open minutes that no listed block takes,
\* cut into intervals that are sorted, apart and not empty.
WindowsAreOpenMinutes ==
    \A r \in Resources, d \in Dates :
        LET windows == WorkingWindows(stored, r, d) IN
        /\ \A actor \in Actors : r \in ListManageableScheduleResources(actor) =>
              Minutes(windows)
                  = OpenMinutes(r, d) \ BlockedMinutes(ListResourceTimeBlocks(actor, r, d))
        /\ \A n \in DOMAIN windows : windows[n].from < windows[n].until
        /\ \A n \in 1..Len(windows) - 1 : windows[n].until <= windows[n + 1].from

\* A start on offer has the time of the service and its buffer inside the open
\* hours on the clock, is free of confirmed bookings in real time, also on the
\* days the clocks change, and is neither past nor within the notice.
OfferedStartsAreFree ==
    \A r \in Resources, d \in Dates :
        LET starts == Offered(stored, r, d, now) IN
        starts # Invalid =>
            \A m \in starts :
                /\ m .. m + Duration + Buffer - 1
                       \subseteq OpenMinutes(r, d) \ BlockedMinutes(BlocksAt(r, d))
                /\ LocalBookingStartToUtc(d, m) >= now + stored.settings.notice
                /\ \A b \in stored.bookings : b.resource = r =>
                      \A t \in b.from .. b.until - 1 :
                          t \notin LocalBookingStartToUtc(d, m) ..
                                       LocalBookingStartToUtc(d, m) + Duration + Buffer - 1

\* The search for the next free date skips no date that has a start to offer and
\* ends inside the booking window.
NextDateIsFirst ==
    \A r \in Resources :
        LET free == {e \in Dates : Offered(stored, r, e, now) \notin {Invalid, {}}} IN
        \A d \in Dates :
            LET found == NextPublicDate(stored, r, d, Duration, Buffer, now) IN
            IF found = Invalid
            THEN d >= DateAt(now) => \A e \in free : e < d
            ELSE found \in free /\ found >= d /\ \A e \in d..found - 1 : e \notin free

\* What was saved is what is shown, is kept apart, and is what opens windows.
ScheduleConsistent ==
    /\ ScheduleTypeOK /\ ShownAsSaved /\ IntervalsApart /\ WindowsAreOpenMinutes

\* What is offered is free, and nothing free is skipped on the way to it.
OffersConsistent == OfferedStartsAreFree /\ NextDateIsFirst
=============================================================================
