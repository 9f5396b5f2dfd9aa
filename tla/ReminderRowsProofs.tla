------------------------- MODULE ReminderRowsProofs -------------------------
(***************************************************************************)
(* Theorems about ReminderRows for any number of requests, schedulers and  *)
(* handlers, any starts, lead time and limits.                             *)
(*                                                                         *)
(* Three kinds of writers meet at a reminder, and each is kept off the     *)
(* others by a different lock: requests by the booking's row, which also   *)
(* makes the snapshots of the others stale; schedulers by the reminder's   *)
(* row alone; handlers by all three.  The invariant says what each of them *)
(* owns at each point, and that a request has locked every reminder that   *)
(* is pending when it commits, those it never saw included.                *)
(***************************************************************************)
EXTENDS ReminderRows, SequenceTheorems, FiniteSetTheorems, TLAPS

USE SizedAssumption

-----------------------------------------------------------------------------
(* The inductive invariant.                                                *)

Owns(a, r) == r \in DOMAIN holder /\ holder[r] = a

BookingRecord == [status : {"confirmed", "cancelled", "no_show"},
                  start : Starts, email : BOOLEAN]
RequestRecord == [kind : RequestKind \cup {Nothing}, start : Starts \cup {0},
                  now : 0 .. MaxClock, attempt : 1 .. MaxSerialization]
RequestView == [reminders : Seq(Reminder), stale : SUBSET Row]
Event == [state : {"queued", "received", "dead"}, attempts : 0 .. MaxAttempts]
Answered == {c \in Requests : at[c] = "answered"}

Resting == {"idle", "answered", "failed", "polling", "waiting"}

RowsTyped ==
    /\ clock \in 0 .. MaxClock
    /\ open \in BOOLEAN
    /\ booking \in BookingRecord
    /\ reminders \in Seq(Reminder)
    /\ recorded \in [Reminders -> 0 .. Cardinality(Schedulers)]
    /\ DOMAIN event \subseteq DOMAIN reminders
    /\ \A i \in DOMAIN event :
          /\ event[i] \in Event
          /\ event[i].state = "dead" <=> event[i].attempts = MaxAttempts

ActorsTyped ==
    /\ at \in [Actors -> RequestAt \cup SchedulerAt \cup HandlerAt]
    /\ \A c \in Requests : at[c] \in RequestAt
    /\ \A s \in Schedulers : at[s] \in SchedulerAt
    /\ \A h \in Handlers : at[h] \in HandlerAt
    /\ request \in [Requests -> RequestRecord]
    /\ DOMAIN view = Requests \cup Schedulers
    /\ \A c \in Requests : view[c] \in RequestView /\ DOMAIN view[c].reminders \subseteq Reminders
    /\ DOMAIN holder \subseteq Row
    /\ \A r \in DOMAIN holder : holder[r] \in Actors /\ at[holder[r]] \notin Resting

Typed == RowsTyped /\ ActorsTyped

\* A request commits once and adds one reminder at most.
RowsBounded == Len(reminders) <= 1 + Cardinality(Answered)

\* What a request owns on its way.
RequestOwns(c) ==
    /\ at[c] \in {"booking", "reminder"} => ~Suspends(c)
    /\ at[c] \in {"booking", "reminder", "committing"} => Owns(c, Organization)
    /\ at[c] \in {"reminder", "committing"} /\ ~Suspends(c) =>
          Owns(c, Booking) /\ Booking \notin view[c].stale
    /\ at[c] = "committing" /\ ~Suspends(c) =>
          \A i \in Pending(view[c].reminders) : Owns(c, i)
    /\ at[c] # "idle" => request[c].kind \in RequestKind /\ request[c].start \in Starts
RequestsOwn == \A c \in Requests : RequestOwns(c)

\* No reminder became pending behind a snapshot without a change of the booking.
SnapshotHolds(c) ==
    /\ at[c] \in {"organization", "booking", "reminder", "committing"}
    /\ ~Suspends(c)
    /\ Booking \notin view[c].stale
    => Pending(reminders) \subseteq Pending(view[c].reminders)
SnapshotsHold == \A c \in Requests : SnapshotHolds(c)

\* A scheduler that writes owns a reminder that is still pending; while it only
\* has one selected it owns nothing.
SchedulerOwns(s) ==
    /\ at[s] = "writing" => Owns(s, view[s].reminder)
                            /\ view[s].reminder \in Pending(reminders)
    /\ at[s] = "selected" => \A r : ~Owns(s, r)
SchedulersOwn == \A s \in Schedulers : SchedulerOwns(s)

\* A handler owns one reminder, whose event is not handled yet, and in the end
\* the booking and the organization, too.
Handles(h, i) ==
    /\ i \in DOMAIN event /\ event[i].state = "queued"
    /\ Owns(h, i)
    /\ \A j \in Reminders : Owns(h, j) => j = i
HandlerOwns(h) ==
    /\ at[h] # "waiting" => \E i \in DOMAIN event : Handles(h, i)
    /\ at[h] \in {"organization", "deciding", "sending"} => Owns(h, Booking)
    /\ at[h] \in {"deciding", "sending"} => Owns(h, Organization)
    /\ at[h] # "reminder"
HandlersOwn == \A h \in Handlers : HandlerOwns(h)

\* A reminder gets its event when it stops being pending.
Unrecorded ==
    \A i \in Reminders :
        /\ recorded[i] <= 1
        /\ i \in Pending(reminders) \/ i \notin DOMAIN reminders => recorded[i] = 0

\* One pending reminder at most, and it fits.
OnePending ==
    /\ \A i, j \in Pending(reminders) : i = j
    /\ \A i \in Pending(reminders) : Fits(i)

\* What a handler's mail says is true until it is sent.
MailTrue(h) ==
    at[h] = "sending" =>
        \A i \in DOMAIN event : Handles(h, i) =>
            Fits(i) /\ open /\ reminders[i].status = "dispatched"
MailsTrue == \A h \in Handlers : MailTrue(h)

IInv ==
    /\ Typed /\ RowsBounded /\ RequestsOwn /\ SnapshotsHold /\ SchedulersOwn
    /\ HandlersOwn /\ Unrecorded /\ OnePending /\ MailsTrue

-----------------------------------------------------------------------------
(* Rows and who owns them.                                                 *)

\* Rows that were free come to their new owner, the others stay.
LEMMA TakeOwns ==
    ASSUME NEW a, NEW rows, \A r \in rows : RowFree(r), holder' = Take(a, rows)
    PROVE  /\ \A x, r : Owns(x, r)' <=> Owns(x, r) \/ (x = a /\ r \in rows)
           /\ DOMAIN holder' = DOMAIN holder \cup rows
BY DEF Take, Owns, RowFree

\* An actor that lets go owns nothing, the others what they owned.
LEMMA DropOwns ==
    ASSUME NEW a, holder' = Drop(a)
    PROVE  /\ \A x, r : Owns(x, r)' <=> Owns(x, r) /\ x # a
           /\ DOMAIN holder' = DOMAIN holder \ HeldBy(a)
BY DEF Drop, Owns, HeldBy

\* The rows of reminders are numbers above the two others.
LEMMA RowNumbers ==
    /\ Cardinality(Requests) \in Nat
    /\ Organization \notin Reminders /\ Booking \notin Reminders
    /\ Organization # Booking
    /\ \A r \in Row : r > 0 <=> r \in Reminders
<1>1. Cardinality(Requests) \in Nat
  BY FS_CardinalityType DEF Sized
<1> QED
  BY <1>1 DEF Organization, Booking, Reminders, Row

\* The reminders are within their bound.
LEMMA ReminderRange ==
    ASSUME RowsTyped, RowsBounded
    PROVE  /\ reminders \in Seq(Reminder) /\ Len(reminders) \in Nat
           /\ Len(reminders) <= Cardinality(Requests) + 1
           /\ DOMAIN reminders = 1 .. Len(reminders)
           /\ DOMAIN reminders \subseteq Reminders
           /\ \A i \in DOMAIN reminders : reminders[i] \in Reminder
<1>1. reminders \in Seq(Reminder)
  BY DEF RowsTyped
<1>2. Len(reminders) \in Nat /\ DOMAIN reminders = 1 .. Len(reminders)
      /\ \A i \in DOMAIN reminders : reminders[i] \in Reminder
  BY <1>1, LenProperties, ElementOfSeq
<1>3. Cardinality(Answered) \in Nat /\ Cardinality(Answered) <= Cardinality(Requests)
  <2>1. Answered \subseteq Requests /\ IsFiniteSet(Requests)
    BY DEF Answered, Sized
  <2> QED
    BY <2>1, FS_Subset, FS_CardinalityType
<1>4. Len(reminders) <= Cardinality(Requests) + 1
  BY <1>2, <1>3, RowNumbers DEF RowsBounded
<1> QED
  BY <1>1, <1>2, <1>4, RowNumbers DEF Reminders

\* A handler's reminder is the one it owns.
LEMMA HandledIs ==
    ASSUME IInv, NEW h \in Handlers, at[h] # "waiting"
    PROVE  Handles(h, Handled(h)) /\ Handled(h) \in DOMAIN reminders
<1>1. PICK i \in DOMAIN event : Handles(h, i)
  BY DEF IInv, HandlersOwn, HandlerOwns
<1>2. i \in DOMAIN reminders /\ i \in Reminders
  BY ReminderRange DEF IInv, Typed, RowsTyped
<1>3. i \in HeldBy(h) /\ i > 0
  BY <1>1, <1>2, RowNumbers DEF Handles, Owns, HeldBy, Row
<1>4. Handled(h) \in HeldBy(h) /\ Handled(h) > 0
  BY <1>3 DEF Handled
<1>5. Handled(h) \in Reminders /\ Owns(h, Handled(h))
  BY <1>4, RowNumbers DEF HeldBy, Owns, IInv, Typed, ActorsTyped
<1>6. Handled(h) = i
  BY <1>1, <1>5 DEF Handles
<1> QED
  BY <1>1, <1>2, <1>6

\* An actor at rest owns nothing.
LEMMA RestingOwnsNothing ==
    ASSUME IInv, NEW a, at[a] \in Resting
    PROVE  \A r : ~Owns(a, r)
BY DEF IInv, Typed, ActorsTyped, Owns

-----------------------------------------------------------------------------
(* A step of one actor, seen by the others.                                *)

\* Only a moves; the snapshots of the others get stale for rows.
Moves(a, rows) ==
    /\ a \in Actors
    /\ ActorsTyped'
    /\ \A x \in Actors : x # a => at'[x] = at[x] /\ \A r : Owns(x, r)' <=> Owns(x, r)
    /\ \A d \in Requests : d # a =>
          /\ request'[d] = request[d]
          /\ view'[d].reminders = view[d].reminders
          /\ view[d].stale \subseteq view'[d].stale
          /\ view'[d].stale \subseteq view[d].stale \cup rows
          /\ at[d] \in {"organization", "booking", "reminder"} => rows \subseteq view'[d].stale
    /\ \A s \in Schedulers : s # a => view'[s] = view[s]

\* What the step owes for a itself.
KeepsOwn(a) ==
    /\ a \in Requests => RequestOwns(a) /\ SnapshotHolds(a)
    /\ a \in Schedulers => SchedulerOwns(a)
    /\ a \in Handlers => HandlerOwns(a) /\ MailTrue(a)

\* The other requests own what they did; a booking that changes was locked.
LEMMA OthersOwn ==
    ASSUME IInv, NEW a, NEW rows, Moves(a, rows),
           Booking \in rows => \A d \in Requests : d # a => ~Owns(d, Booking)
    PROVE  \A d \in Requests : d # a => RequestOwns(d)'
<1> SUFFICES ASSUME NEW d \in Requests, d # a PROVE RequestOwns(d)'
  OBVIOUS
<1>1. /\ at'[d] = at[d] /\ (\A r : Owns(d, r)' <=> Owns(d, r)) /\ request'[d] = request[d]
      /\ view'[d].reminders = view[d].reminders
      /\ view'[d].stale \subseteq view[d].stale \cup rows
  BY DEF Moves, Actors
<1>2. RequestOwns(d)
  BY DEF IInv, RequestsOwn
<1> QED
  BY <1>1, <1>2 DEF RequestOwns, Suspends, Pending

\* A step that leaves the rows alone keeps the invariant, if it does right for
\* the actor that moves.
LEMMA QuietKeepsIInv ==
    ASSUME IInv, NEW a, Moves(a, {}),
           UNCHANGED <<open, booking, reminders, recorded, event>>,
           clock' \in 0 .. MaxClock,
           at[a] = "answered" => at'[a] = "answered",
           KeepsOwn(a)'
    PROVE  IInv'
<1>1. Typed'
  <2>1. Reminders' = Reminders
    BY DEF Reminders
  <2> QED
    BY <2>1 DEF IInv, Typed, RowsTyped, Moves
<1>2. RowsBounded'
  <2>1. Answered \subseteq Answered'
    BY DEF Answered, Moves, Actors
  <2>2. IsFiniteSet(Answered') /\ IsFiniteSet(Requests)
    <3>1. Answered' \subseteq Requests
      BY DEF Answered
    <3> QED
      BY <3>1, FS_Subset DEF Sized
  <2>3. /\ Cardinality(Answered) <= Cardinality(Answered')
        /\ Cardinality(Answered) \in Nat /\ Cardinality(Answered') \in Nat
    BY <2>1, <2>2, FS_Subset, FS_CardinalityType
  <2>4. Len(reminders) \in Nat /\ Len(reminders') = Len(reminders)
    BY ReminderRange DEF IInv, Typed
  <2> QED
    BY <2>3, <2>4 DEF IInv, RowsBounded
<1>3. RequestsOwn'
  BY OthersOwn DEF RequestsOwn, KeepsOwn
<1>4. SnapshotsHold'
  <2> SUFFICES ASSUME NEW d \in Requests, d # a PROVE SnapshotHolds(d)'
    BY DEF SnapshotsHold, KeepsOwn
  <2>1. /\ at'[d] = at[d] /\ request'[d] = request[d]
        /\ view'[d].reminders = view[d].reminders /\ view'[d].stale = view[d].stale
    BY DEF Moves, Actors
  <2> QED
    BY <2>1 DEF IInv, SnapshotsHold, SnapshotHolds, Suspends, Pending
<1>5. SchedulersOwn'
  <2> SUFFICES ASSUME NEW s \in Schedulers, s # a PROVE SchedulerOwns(s)'
    BY DEF SchedulersOwn, KeepsOwn
  <2>1. at'[s] = at[s] /\ view'[s] = view[s] /\ \A r : Owns(s, r)' <=> Owns(s, r)
    BY DEF Moves, Actors
  <2> QED
    BY <2>1 DEF IInv, SchedulersOwn, SchedulerOwns, Pending
<1>6. HandlersOwn' /\ MailsTrue'
  <2> SUFFICES ASSUME NEW h \in Handlers, h # a PROVE HandlerOwns(h)' /\ MailTrue(h)'
    BY DEF HandlersOwn, MailsTrue, KeepsOwn
  <2>1. at'[h] = at[h] /\ \A r : Owns(h, r)' <=> Owns(h, r)
    BY DEF Moves, Actors
  <2>2. \A i : Handles(h, i)' <=> Handles(h, i)
    BY <2>1 DEF Handles, Reminders
  <2>3. HandlerOwns(h) /\ MailTrue(h)
    BY DEF IInv, HandlersOwn, MailsTrue
  <2> QED
    BY <2>1, <2>2, <2>3 DEF HandlerOwns, MailTrue, Fits
<1>7. Unrecorded' /\ OnePending'
  BY DEF IInv, Unrecorded, OnePending, Pending, Fits, Reminders
<1> QED
  BY <1>1, <1>2, <1>3, <1>4, <1>5, <1>6, <1>7 DEF IInv

\* Where the rows go in a step of a, if they go.
RowsMove(a, rows) ==
    \/ holder' = holder /\ rows = {}
    \/ holder' = Drop(a) /\ rows = {}
    \/ holder' = Take(a, rows) /\ rows \subseteq Row /\ \A r \in rows : RowFree(r)

\* Owners stay actors, and the rows of the others stay theirs.
LEMMA RowsMoveFacts ==
    ASSUME IInv, NEW a \in Actors, NEW rows, RowsMove(a, rows)
    PROVE  /\ DOMAIN holder' \subseteq Row
           /\ \A r \in DOMAIN holder' : holder'[r] \in Actors
           /\ \A x, r : x # a => (Owns(x, r)' <=> Owns(x, r))
           /\ \A r : r \in rows => Owns(a, r)'
           /\ \A r : Owns(a, r)' => r \in rows \/ Owns(a, r)
           /\ holder' # Drop(a) => \A r : Owns(a, r) => Owns(a, r)'
           /\ holder' = Drop(a) => \A r : ~Owns(a, r)'
<1>1. DOMAIN holder \subseteq Row /\ \A r \in DOMAIN holder : holder[r] \in Actors
  BY DEF IInv, Typed, ActorsTyped
<1>2. CASE holder' = holder /\ rows = {} /\ holder' # Drop(a)
  BY <1>1, <1>2 DEF Owns
<1>3. CASE holder' = Drop(a) /\ rows = {}
  <2>1. /\ \A x, r : Owns(x, r)' <=> Owns(x, r) /\ x # a
        /\ DOMAIN holder' = DOMAIN holder \ HeldBy(a)
    BY <1>3, DropOwns
  <2>2. \A r \in DOMAIN holder' : holder'[r] = holder[r]
    BY <1>3 DEF Drop
  <2> QED
    BY <1>1, <1>3, <2>1, <2>2
<1>4. CASE holder' = Take(a, rows) /\ rows \subseteq Row /\ (\A r \in rows : RowFree(r))
           /\ holder' # Drop(a)
  <2>1. /\ \A x, r : Owns(x, r)' <=> Owns(x, r) \/ (x = a /\ r \in rows)
        /\ DOMAIN holder' = DOMAIN holder \cup rows
    BY <1>4, TakeOwns
  <2>2. \A r \in DOMAIN holder' : holder'[r] = IF r \in rows THEN a ELSE holder[r]
    BY <1>4, <2>1 DEF Take
  <2> QED
    BY <1>1, <1>4, <2>1, <2>2
<1>5. CASE holder' = Drop(a) /\ holder' = Take(a, rows) /\ rows # {}
  <2>1. \A x, r : Owns(x, r)' <=> Owns(x, r) \/ (x = a /\ r \in rows)
    BY <1>5, TakeOwns DEF RowsMove
  <2>2. \A x, r : Owns(x, r)' <=> Owns(x, r) /\ x # a
    BY <1>5, DropOwns
  <2> QED
    BY <1>5, <2>1, <2>2
<1>6. CASE holder' = Drop(a) /\ holder' = Take(a, rows) /\ rows = {}
  BY <1>3, <1>6
<1> QED
  BY <1>2, <1>3, <1>4, <1>5, <1>6 DEF RowsMove

\* What the snapshots of the others become.
LEMMA ViewsAfterFacts ==
    ASSUME IInv, NEW a, NEW rows \in SUBSET Row, view' = ViewsAfter(a, rows)
    PROVE  /\ DOMAIN view' = Requests \cup Schedulers
           /\ \A d \in Requests : d # a =>
                 /\ view'[d] \in RequestView
                 /\ view'[d].reminders = view[d].reminders
                 /\ view[d].stale \subseteq view'[d].stale
                 /\ view'[d].stale \subseteq view[d].stale \cup rows
                 /\ at[d] \in {"organization", "booking", "reminder"} => rows \subseteq view'[d].stale
           /\ a \in Requests => view'[a] = [reminders |-> <<>>, stale |-> {}]
<1>1. \A d \in Requests : view[d] \in RequestView
  BY DEF IInv, Typed, ActorsTyped
<1>2. \A d \in Requests :
        /\ [view[d] EXCEPT !.stale = @ \cup rows] \in RequestView
        /\ [view[d] EXCEPT !.stale = @ \cup rows].reminders = view[d].reminders
        /\ [view[d] EXCEPT !.stale = @ \cup rows].stale = view[d].stale \cup rows
  BY <1>1 DEF RequestView
<1>3. DOMAIN view' = Requests \cup Schedulers
  BY DEF ViewsAfter
<1>4. \A d \in Requests : d # a =>
        view'[d] = IF at[d] \in {"organization", "booking", "reminder"}
                   THEN [view[d] EXCEPT !.stale = @ \cup rows] ELSE view[d]
  BY DEF ViewsAfter
<1>5. \A d \in Requests : d # a =>
                 /\ view'[d] \in RequestView
                 /\ view'[d].reminders = view[d].reminders
                 /\ view[d].stale \subseteq view'[d].stale
                 /\ view'[d].stale \subseteq view[d].stale \cup rows
                 /\ at[d] \in {"organization", "booking", "reminder"} => rows \subseteq view'[d].stale
  <2> SUFFICES ASSUME NEW d \in Requests, d # a
               PROVE  /\ view'[d] \in RequestView
                      /\ view'[d].reminders = view[d].reminders
                      /\ view[d].stale \subseteq view'[d].stale
                      /\ view'[d].stale \subseteq view[d].stale \cup rows
                      /\ at[d] \in {"organization", "booking", "reminder"} => rows \subseteq view'[d].stale
    OBVIOUS
  <2>1. CASE at[d] \in {"organization", "booking", "reminder"}
    <3>1. view'[d] = [view[d] EXCEPT !.stale = @ \cup rows]
      BY <1>4, <2>1
    <3> QED
      BY <1>2, <3>1
  <2>2. CASE at[d] \notin {"organization", "booking", "reminder"}
    <3>1. view'[d] = view[d]
      BY <1>4, <2>2
    <3> QED
      BY <1>1, <2>2, <3>1
  <2> QED
    BY <2>1, <2>2
<1>6. a \in Requests => view'[a] = [reminders |-> <<>>, stale |-> {}]
  BY DEF ViewsAfter, NothingRead
<1> QED
  BY <1>3, <1>5, <1>6

\* The schedulers keep what they selected.
LEMMA ViewsAfterSchedulers ==
    ASSUME NEW a, NEW rows, view' = ViewsAfter(a, rows)
    PROVE  \A s \in Schedulers : s # a => view'[s] = view[s]
BY DEF ViewsAfter, Sized

\* Where everybody stands after a step of a.
Places(a) ==
    /\ at' \in [Actors -> RequestAt \cup SchedulerAt \cup HandlerAt]
    /\ \A x \in Actors : x # a => at'[x] = at[x]
    /\ \A d \in Requests : at'[d] \in RequestAt
    /\ \A s \in Schedulers : at'[s] \in SchedulerAt
    /\ \A h \in Handlers : at'[h] \in HandlerAt
    /\ DOMAIN holder' \subseteq Row
    /\ \A r \in DOMAIN holder' : holder'[r] \in Actors /\ at'[holder'[r]] \notin Resting
    /\ \A x, r : x # a => (Owns(x, r)' <=> Owns(x, r))

\* A step to a place of its role, that lets go of everything where it rests.
LEMMA StepPlaces ==
    ASSUME IInv, NEW a \in Actors, NEW next, NEW rows,
           at' = [at EXCEPT ![a] = next],
           a \in Requests => next \in RequestAt,
           a \in Schedulers => next \in SchedulerAt,
           a \in Handlers => next \in HandlerAt,
           RowsMove(a, rows),
           next \in Resting => \A r : ~Owns(a, r)'
    PROVE  Places(a)
<1>1. /\ at' \in [Actors -> RequestAt \cup SchedulerAt \cup HandlerAt]
      /\ at'[a] = next /\ \A x \in Actors : x # a => at'[x] = at[x]
  BY DEF IInv, Typed, ActorsTyped, Actors
<1>2. /\ \A d \in Requests : at'[d] \in RequestAt
      /\ \A s \in Schedulers : at'[s] \in SchedulerAt
      /\ \A h \in Handlers : at'[h] \in HandlerAt
  BY <1>1 DEF IInv, Typed, ActorsTyped, Actors, Sized
<1>3. /\ DOMAIN holder' \subseteq Row
      /\ \A r \in DOMAIN holder' : holder'[r] \in Actors
      /\ \A x, r : x # a => (Owns(x, r)' <=> Owns(x, r))
  BY RowsMoveFacts
<1>4. \A r \in DOMAIN holder' : at'[holder'[r]] \notin Resting
  <2> SUFFICES ASSUME NEW r \in DOMAIN holder' PROVE at'[holder'[r]] \notin Resting
    OBVIOUS
  <2>1. CASE holder'[r] = a
    <3>1. Owns(a, r)'
      BY <2>1 DEF Owns
    <3> QED
      BY <1>1, <2>1, <3>1
  <2>2. CASE holder'[r] # a
    <3>1. PICK x \in Actors : x = holder'[r]
      BY <1>3
    <3>2. Owns(x, r)'
      BY <3>1 DEF Owns
    <3>3. Owns(x, r)
      BY <1>3, <2>2, <3>1, <3>2
    <3>4. at[x] \notin Resting
      BY <3>3 DEF IInv, Typed, ActorsTyped, Owns
    <3> QED
      BY <1>1, <2>2, <3>1, <3>4
  <2> QED
    BY <2>1, <2>2
<1> QED
  BY <1>1, <1>2, <1>3, <1>4 DEF Places

\* What a step of a request reads or lets go.
ViewMoves(c, stale) ==
    \/ view' = view /\ stale = {}
    \/ view' = ViewsAfter(c, stale) /\ stale \subseteq Row
    \/ view' = [view EXCEPT ![c] = [reminders |-> reminders, stale |-> {}]] /\ stale = {}

\* A step of a request moves it alone.
LEMMA RequestMoves ==
    ASSUME IInv, NEW c \in Requests, Places(c), NEW stale,
           request' \in [Requests -> RequestRecord],
           \A d \in Requests : d # c => request'[d] = request[d],
           ViewMoves(c, stale)
    PROVE  Moves(c, stale)
<1>5. /\ DOMAIN view' = Requests \cup Schedulers
      /\ \A d \in Requests : view'[d] \in RequestView
                             /\ DOMAIN view'[d].reminders \subseteq Reminders
      /\ \A d \in Requests : d # c =>
            /\ view'[d].reminders = view[d].reminders
            /\ view[d].stale \subseteq view'[d].stale
            /\ view'[d].stale \subseteq view[d].stale \cup stale
            /\ at[d] \in {"organization", "booking", "reminder"} => stale \subseteq view'[d].stale
      /\ \A s \in Schedulers : s # c => view'[s] = view[s]
  <2>1. CASE view' = view /\ stale = {}
    BY <2>1 DEF IInv, Typed, ActorsTyped
  <2>2. CASE view' = ViewsAfter(c, stale) /\ stale \subseteq Row
    <3>0. stale \in SUBSET Row /\ view' = ViewsAfter(c, stale)
      BY <2>2
    <3>1. view'[c] = [reminders |-> <<>>, stale |-> {}]
      BY <3>0, ViewsAfterFacts
    <3>2. view'[c] \in RequestView /\ DOMAIN view'[c].reminders \subseteq Reminders
      <4>1. <<>> \in Seq(Reminder) /\ DOMAIN <<>> = {}
        BY EmptySeq
      <4> QED
        BY <3>1, <4>1 DEF RequestView
    <3>3. \A d \in Requests : d # c => DOMAIN view'[d].reminders \subseteq Reminders
      BY <3>0, ViewsAfterFacts DEF IInv, Typed, ActorsTyped
    <3>4. /\ DOMAIN view' = Requests \cup Schedulers
          /\ \A d \in Requests : d # c =>
                /\ view'[d] \in RequestView
                /\ view'[d].reminders = view[d].reminders
                /\ view[d].stale \subseteq view'[d].stale
                /\ view'[d].stale \subseteq view[d].stale \cup stale
                /\ at[d] \in {"organization", "booking", "reminder"} => stale \subseteq view'[d].stale
      BY <3>0, ViewsAfterFacts
    <3>5. \A s \in Schedulers : s # c => view'[s] = view[s]
      BY <3>0, ViewsAfterSchedulers
    <3>6. \A d \in Requests : view'[d] \in RequestView
                              /\ DOMAIN view'[d].reminders \subseteq Reminders
      BY <3>2, <3>3, <3>4
    <3> QED
      BY <3>4, <3>5, <3>6
  <2>3. CASE view' = [view EXCEPT ![c] = [reminders |-> reminders, stale |-> {}]] /\ stale = {}
    <3>1. reminders \in Seq(Reminder) /\ DOMAIN reminders \subseteq Reminders
      BY ReminderRange DEF IInv, Typed
    <3>2. [reminders |-> reminders, stale |-> {}] \in RequestView
      BY <3>1 DEF RequestView
    <3>3. /\ DOMAIN view' = Requests \cup Schedulers
          /\ view'[c] = [reminders |-> reminders, stale |-> {}]
          /\ \A x \in Requests \cup Schedulers : x # c => view'[x] = view[x]
      BY <2>3 DEF IInv, Typed, ActorsTyped
    <3> QED
      BY <2>3, <3>1, <3>2, <3>3 DEF IInv, Typed, ActorsTyped
  <2> QED
    BY <2>1, <2>2, <2>3 DEF ViewMoves
<1>6. ActorsTyped'
  <2>1. Actors' = Actors /\ Reminders' = Reminders
    BY DEF Actors, Reminders
  <2> QED
    BY <1>5, <2>1 DEF ActorsTyped, Places
<1> QED
  BY <1>5, <1>6 DEF Moves, Places, Actors

-----------------------------------------------------------------------------
(* Requests on their way to the commit.                                    *)

Goes(a, next) == at' = [at EXCEPT ![a] = next]
RowsUntouched == UNCHANGED <<clock, open, booking, reminders, recorded, event>>

\* A request keeps the invariant where it does right for itself and leaves the
\* rows alone.
LEMMA RequestKeepsIInv ==
    ASSUME IInv, NEW c \in Requests, NEW next \in RequestAt, NEW rows,
           at[c] # "answered", Goes(c, next), RowsMove(c, rows),
           next \in Resting => \A r : ~Owns(c, r)',
           request' \in [Requests -> RequestRecord],
           \A d \in Requests : d # c => request'[d] = request[d],
           ViewMoves(c, {}), RowsUntouched,
           RequestOwns(c)', SnapshotHolds(c)'
    PROVE  IInv'
<1>1. c \in Actors /\ c \notin Schedulers /\ c \notin Handlers
  BY DEF Actors, Sized
<1>2. at' = [at EXCEPT ![c] = next]
  BY DEF Goes
<1>3. Places(c)
  BY <1>1, <1>2, StepPlaces
<1>4. Moves(c, {})
  BY <1>3, RequestMoves
<1>5. UNCHANGED <<open, booking, reminders, recorded, event>> /\ clock' \in 0 .. MaxClock
  BY DEF RowsUntouched, IInv, Typed, RowsTyped
<1>6. KeepsOwn(c)'
  BY <1>1 DEF KeepsOwn
<1> QED
  BY <1>4, <1>5, <1>6, QuietKeepsIInv

\* The requests as they were.
LEMMA RequestsTyped ==
    ASSUME IInv, NEW c \in Requests
    PROVE  /\ request \in [Requests -> RequestRecord] /\ request[c] \in RequestRecord
           /\ at[c] \in RequestAt
           /\ view[c] \in RequestView /\ DOMAIN view[c].reminders \subseteq Reminders
           /\ RequestOwns(c) /\ SnapshotHolds(c)
BY DEF IInv, Typed, ActorsTyped, RequestsOwn, SnapshotsHold

\* An actor that goes on is where it goes to.
LEMMA GoesTo ==
    ASSUME IInv, NEW a \in Actors, NEW next, Goes(a, next)
    PROVE  at'[a] = next
BY DEF Goes, IInv, Typed, ActorsTyped

\* Nothing is locked where a request is submitted.
LEMMA SubmitKeepsIInv ==
    ASSUME IInv, NEW c \in Requests, NEW k \in Kinds, NEW start \in Starts,
           Submit(c, k, start)
    PROVE  IInv'
<1>1. /\ at[c] = "idle" /\ Goes(c, "beginning") /\ RowsMove(c, {})
      /\ ViewMoves(c, {}) /\ RowsUntouched
  BY DEF Submit, Goes, RowsMove, ViewMoves, RowsUntouched
<1>2. at'[c] = "beginning"
  BY <1>1, GoesTo DEF Actors
<1>3. [kind |-> k, start |-> start, now |-> clock, attempt |-> 1] \in RequestRecord
  <2>1. k \in RequestKind /\ clock \in 0 .. MaxClock /\ 1 \in 1 .. MaxSerialization
    BY DEF Sized, IInv, Typed, RowsTyped
  <2> QED
    BY <2>1 DEF RequestRecord
<1>4. /\ request' \in [Requests -> RequestRecord]
      /\ request'[c].kind = k /\ request'[c].start = start
      /\ \A d \in Requests : d # c => request'[d] = request[d]
  BY <1>3, RequestsTyped DEF Submit
<1>5. k \in RequestKind
  BY DEF Sized
<1>6. RequestOwns(c)' /\ SnapshotHolds(c)'
  BY <1>2, <1>4, <1>5 DEF RequestOwns, SnapshotHolds
<1>7. "beginning" \in RequestAt /\ "beginning" \notin Resting
  BY DEF RequestAt, Resting
<1> QED
  BY <1>1, <1>4, <1>6, <1>7, RequestKeepsIInv

\* The snapshot of an attempt is of the reminders as they are.
LEMMA BeginKeepsIInv ==
    ASSUME IInv, NEW c \in Requests, Begin(c)
    PROVE  IInv'
<1>1. /\ at[c] = "beginning" /\ Goes(c, "organization") /\ RowsMove(c, {})
      /\ ViewMoves(c, {}) /\ RowsUntouched
  BY DEF Begin, Goes, RowsMove, ViewMoves, RowsUntouched
<1>2. at'[c] = "organization" /\ request' = request
  BY <1>1, GoesTo DEF Actors, Begin
<1>3. request' \in [Requests -> RequestRecord] /\ request[c].kind \in RequestKind
      /\ request[c].start \in Starts
  BY <1>1, <1>2, RequestsTyped DEF RequestOwns
<1>4. view'[c].reminders = reminders /\ reminders' = reminders
  BY DEF Begin, IInv, Typed, ActorsTyped
<1>5. RequestOwns(c)' /\ SnapshotHolds(c)'
  BY <1>2, <1>3, <1>4 DEF RequestOwns, SnapshotHolds, Pending
<1>6. "organization" \in RequestAt /\ "organization" \notin Resting
  BY DEF RequestAt, Resting
<1> QED
  BY <1>1, <1>2, <1>3, <1>5, <1>6, RequestKeepsIInv

\* A request that is answered without a change lets go of its locks.
LEMMA AnswerKeepsIInv ==
    ASSUME IInv, NEW c \in Requests, at[c] \notin {"idle", "answered"}, Answer(c)
    PROVE  IInv'
<1>1. /\ Goes(c, "answered") /\ holder' = Drop(c) /\ RowsMove(c, {})
      /\ ViewMoves(c, {}) /\ RowsUntouched /\ request' = request
  BY DEF Answer, Goes, RowsMove, ViewMoves, RowsUntouched
<1>2. at'[c] = "answered"
  BY <1>1, GoesTo DEF Actors
<1>3. request' \in [Requests -> RequestRecord] /\ request[c].kind \in RequestKind
      /\ request[c].start \in Starts
  BY <1>1, RequestsTyped DEF RequestOwns
<1>4. \A r : ~Owns(c, r)'
  BY <1>1, DropOwns
<1>5. RequestOwns(c)' /\ SnapshotHolds(c)'
  BY <1>1, <1>2, <1>3 DEF RequestOwns, SnapshotHolds
<1>6. "answered" \in RequestAt
  BY DEF RequestAt
<1> QED
  BY <1>1, <1>3, <1>4, <1>5, <1>6, RequestKeepsIInv

\* So does one whose attempt is rolled back.
LEMMA AbortKeepsIInv ==
    ASSUME IInv, NEW c \in Requests, at[c] \notin {"idle", "answered"}, Abort(c)
    PROVE  IInv'
<1>1. /\ holder' = Drop(c) /\ RowsMove(c, {}) /\ ViewMoves(c, {}) /\ RowsUntouched
      /\ Retries(c)
  BY DEF Abort, RowsMove, ViewMoves, RowsUntouched
<1>2. request[c] \in RequestRecord /\ request[c].kind \in RequestKind
      /\ request[c].start \in Starts
  BY RequestsTyped DEF RequestOwns
<1>3. /\ request' \in [Requests -> RequestRecord]
      /\ request'[c].kind = request[c].kind /\ request'[c].start = request[c].start
      /\ \A d \in Requests : d # c => request'[d] = request[d]
  <2>1. CASE request' = request
    BY <2>1, RequestsTyped
  <2>2. CASE /\ request[c].attempt < MaxSerialization
             /\ request' = [request EXCEPT ![c].attempt = @ + 1]
    <3>1. request[c].attempt + 1 \in 1 .. MaxSerialization
      BY <1>2, <2>2 DEF RequestRecord, Sized
    <3>2. /\ [request[c] EXCEPT !.attempt = @ + 1] \in RequestRecord
          /\ [request[c] EXCEPT !.attempt = @ + 1].kind = request[c].kind
          /\ [request[c] EXCEPT !.attempt = @ + 1].start = request[c].start
      BY <1>2, <3>1 DEF RequestRecord
    <3>3. /\ request'[c] = [request[c] EXCEPT !.attempt = @ + 1]
          /\ DOMAIN request' = Requests /\ \A d \in Requests : d # c => request'[d] = request[d]
      BY <2>2, RequestsTyped
    <3>4. request' = [d \in Requests |-> request'[d]]
      BY <2>2, RequestsTyped
    <3>5. \A d \in Requests : request'[d] \in RequestRecord
      BY <3>2, <3>3, RequestsTyped
    <3> QED
      BY <3>2, <3>3, <3>4, <3>5
  <2> QED
    BY <1>1, <2>1, <2>2 DEF Retries
<1>4. PICK next \in {"beginning", "failed"} : Goes(c, next)
  BY <1>1 DEF Retries, Goes
<1>5. at'[c] = next
  BY <1>4, GoesTo DEF Actors
<1>6. \A r : ~Owns(c, r)'
  BY <1>1, DropOwns
<1>7. RequestOwns(c)' /\ SnapshotHolds(c)'
  BY <1>2, <1>3, <1>5 DEF RequestOwns, SnapshotHolds
<1>8. next \in RequestAt
  BY DEF RequestAt
<1> QED
  BY <1>1, <1>3, <1>4, <1>6, <1>7, <1>8, RequestKeepsIInv

\* A request that waited for a row and got it.
LEMMA LockFacts ==
    ASSUME IInv, NEW c \in Requests, NEW r \in Row, RowFree(r), NEW next, Lock(c, r, next)
    PROVE  /\ Goes(c, next) /\ at'[c] = next /\ RowsMove(c, {r})
           /\ request' = request /\ request' \in [Requests -> RequestRecord]
           /\ ViewMoves(c, {}) /\ view' = view /\ RowsUntouched
           /\ \A x : Owns(c, x)' <=> Owns(c, x) \/ x = r
<1>1. /\ Goes(c, next) /\ holder' = Take(c, {r}) /\ request' = request /\ view' = view
      /\ RowsUntouched
  BY DEF Lock, Goes, RowsUntouched
<1>2. RowsMove(c, {r}) /\ ViewMoves(c, {})
  BY <1>1 DEF RowsMove, ViewMoves
<1>3. \A x : Owns(c, x)' <=> Owns(c, x) \/ x = r
  <2>1. \A q \in {r} : RowFree(q)
    OBVIOUS
  <2>2. \A y, x : Owns(y, x)' <=> Owns(y, x) \/ (y = c /\ x \in {r})
    BY <1>1, <2>1, TakeOwns
  <2> QED
    BY <2>2
<1>4. at'[c] = next
  BY <1>1, GoesTo DEF Actors
<1>5. request' \in [Requests -> RequestRecord]
  BY <1>1, RequestsTyped
<1> QED
  BY <1>1, <1>2, <1>3, <1>4, <1>5

\* A request locks its organization's row first and waits there for whoever holds it.
LEMMA LockOrganizationKeepsIInv ==
    ASSUME IInv, NEW c \in Requests, LockOrganization(c)
    PROVE  IInv'
<1>1. at[c] = "organization" /\ RowFree(Organization) /\ Organization \in Row
  BY DEF LockOrganization, Row
<1>2. RequestOwns(c) /\ SnapshotHolds(c) /\ request[c].kind \in RequestKind
      /\ request[c].start \in Starts
  BY <1>1, RequestsTyped DEF RequestOwns
<1>3. CASE Answer(c)
  BY <1>1, <1>3, AnswerKeepsIInv
<1>4. CASE Abort(c)
  BY <1>1, <1>4, AbortKeepsIInv
<1>5. CASE Suspends(c) /\ Lock(c, Organization, "committing")
  <2>1. /\ Goes(c, "committing") /\ at'[c] = "committing" /\ RowsMove(c, {Organization})
        /\ request' = request /\ request' \in [Requests -> RequestRecord]
        /\ ViewMoves(c, {}) /\ RowsUntouched
        /\ \A x : Owns(c, x)' <=> Owns(c, x) \/ x = Organization
    BY <1>1, <1>5, LockFacts
  <2>2. RequestOwns(c)' /\ SnapshotHolds(c)'
    BY <1>2, <1>5, <2>1 DEF RequestOwns, SnapshotHolds, Suspends
  <2>3. "committing" \in RequestAt /\ "committing" \notin Resting
    BY DEF RequestAt, Resting
  <2> QED
    BY <1>1, <2>1, <2>2, <2>3, RequestKeepsIInv
<1>6. CASE ~Suspends(c) /\ Lock(c, Organization, "booking")
  <2>1. /\ Goes(c, "booking") /\ at'[c] = "booking" /\ RowsMove(c, {Organization})
        /\ request' = request /\ request' \in [Requests -> RequestRecord]
        /\ ViewMoves(c, {}) /\ view' = view /\ RowsUntouched
        /\ \A x : Owns(c, x)' <=> Owns(c, x) \/ x = Organization
    BY <1>1, <1>6, LockFacts
  <2>2. RequestOwns(c)' /\ SnapshotHolds(c)'
    BY <1>1, <1>2, <1>6, <2>1 DEF RequestOwns, SnapshotHolds, Suspends, Pending, RowsUntouched
  <2>3. "booking" \in RequestAt /\ "booking" \notin Resting
    BY DEF RequestAt, Resting
  <2> QED
    BY <1>1, <2>1, <2>2, <2>3, RequestKeepsIInv
<1> QED
  BY <1>3, <1>4, <1>5, <1>6 DEF LockOrganization

\* It then locks the booking, if nobody has written it since the request read it.
LEMMA LockBookingKeepsIInv ==
    ASSUME IInv, NEW c \in Requests, LockBooking(c)
    PROVE  IInv'
<1>1. at[c] = "booking" /\ RowFree(Booking) /\ Booking \in Row
  BY DEF LockBooking, Row
<1>2. RequestOwns(c) /\ SnapshotHolds(c) /\ request[c].kind \in RequestKind
      /\ request[c].start \in Starts
  BY <1>1, RequestsTyped DEF RequestOwns
<1>3. CASE Answer(c)
  BY <1>1, <1>3, AnswerKeepsIInv
<1>4. CASE Abort(c)
  BY <1>1, <1>4, AbortKeepsIInv
<1>5. CASE Booking \notin view[c].stale /\ Lock(c, Booking, "reminder")
  <2>1. /\ Goes(c, "reminder") /\ at'[c] = "reminder" /\ RowsMove(c, {Booking})
        /\ request' = request /\ request' \in [Requests -> RequestRecord]
        /\ ViewMoves(c, {}) /\ view' = view /\ RowsUntouched
        /\ \A x : Owns(c, x)' <=> Owns(c, x) \/ x = Booking
    BY <1>1, <1>5, LockFacts
  <2>2. RequestOwns(c)' /\ SnapshotHolds(c)'
    BY <1>1, <1>2, <1>5, <2>1 DEF RequestOwns, SnapshotHolds, Suspends, Pending, RowsUntouched
  <2>3. "reminder" \in RequestAt /\ "reminder" \notin Resting
    BY DEF RequestAt, Resting
  <2> QED
    BY <1>1, <2>1, <2>2, <2>3, RequestKeepsIInv
<1> QED
  BY <1>3, <1>4, <1>5 DEF LockBooking

\* The reminders of the snapshot are locked together.
LEMMA LockReminderKeepsIInv ==
    ASSUME IInv, NEW c \in Requests, LockReminder(c)
    PROVE  IInv'
<1> DEFINE rows == Pending(view[c].reminders)
<1>1. at[c] = "reminder" /\ \A r \in rows : RowFree(r)
  BY DEF LockReminder
<1>2. RequestOwns(c) /\ SnapshotHolds(c) /\ request[c].kind \in RequestKind
      /\ request[c].start \in Starts
  BY <1>1, RequestsTyped DEF RequestOwns
<1>3. CASE Abort(c)
  BY <1>1, <1>3, AbortKeepsIInv
<1>4. CASE ~Abort(c)
  <2>1. /\ Goes(c, "committing") /\ holder' = Take(c, rows) /\ request' = request
        /\ view' = view /\ RowsUntouched
    BY <1>4 DEF LockReminder, Goes, RowsUntouched
  <2>2. rows \subseteq Row
    BY RequestsTyped DEF Pending, Row
  <2>3. RowsMove(c, rows) /\ ViewMoves(c, {})
    BY <1>1, <2>1, <2>2 DEF RowsMove, ViewMoves
  <2>4. /\ \A x : Owns(c, x) => Owns(c, x)'
        /\ \A x \in rows : Owns(c, x)'
    BY <1>1, <2>1, TakeOwns
  <2>5. at'[c] = "committing"
    BY <2>1, GoesTo DEF Actors
  <2>6. Pending(view'[c].reminders) = rows /\ Pending(reminders') = Pending(reminders)
    BY <2>1 DEF RowsUntouched
  <2>7. RequestOwns(c)' /\ SnapshotHolds(c)'
    BY <1>1, <1>2, <2>1, <2>4, <2>5, <2>6 DEF RequestOwns, SnapshotHolds, Suspends
  <2>8. "committing" \in RequestAt /\ "committing" \notin Resting
    BY DEF RequestAt, Resting
  <2>9. request' \in [Requests -> RequestRecord]
    BY <2>1, RequestsTyped
  <2> QED
    BY <1>1, <2>1, <2>3, <2>7, <2>8, <2>9, RequestKeepsIInv
<1> QED
  BY <1>3, <1>4

-----------------------------------------------------------------------------
(* Schedulers and handlers on their way to a write.                        *)

\* What a step of a scheduler or a handler reads or lets go.
OutsiderViews(a, stale) ==
    \/ view' = view /\ stale = {}
    \/ view' = ViewsAfter(a, stale) /\ stale \subseteq Row
    \/ (\E v : view' = [view EXCEPT ![a] = v]) /\ a \in Schedulers /\ stale = {}

\* It moves the scheduler or handler alone.
LEMMA OutsiderMoves ==
    ASSUME IInv, NEW a \in Schedulers \cup Handlers, Places(a), NEW stale,
           request' = request, OutsiderViews(a, stale)
    PROVE  Moves(a, stale)
<1>1. a \notin Requests /\ a \in Actors
  BY DEF Sized, Actors
<1>2. \A d \in Requests : view[d] \in RequestView
                          /\ DOMAIN view[d].reminders \subseteq Reminders
  BY RequestsTyped
<1>3. /\ DOMAIN view' = Requests \cup Schedulers
      /\ \A d \in Requests :
            /\ view'[d] \in RequestView
            /\ view'[d].reminders = view[d].reminders
            /\ view[d].stale \subseteq view'[d].stale
            /\ view'[d].stale \subseteq view[d].stale \cup stale
            /\ at[d] \in {"organization", "booking", "reminder"} => stale \subseteq view'[d].stale
      /\ \A s \in Schedulers : s # a => view'[s] = view[s]
  <2>1. CASE view' = view /\ stale = {}
    BY <1>2, <2>1 DEF IInv, Typed, ActorsTyped
  <2>2. CASE view' = ViewsAfter(a, stale) /\ stale \subseteq Row
    <3>1. stale \in SUBSET Row /\ view' = ViewsAfter(a, stale)
      BY <2>2
    <3>2. /\ DOMAIN view' = Requests \cup Schedulers
          /\ \A d \in Requests : d # a =>
                /\ view'[d] \in RequestView
                /\ view'[d].reminders = view[d].reminders
                /\ view[d].stale \subseteq view'[d].stale
                /\ view'[d].stale \subseteq view[d].stale \cup stale
                /\ at[d] \in {"organization", "booking", "reminder"} => stale \subseteq view'[d].stale
      BY <3>1, ViewsAfterFacts
    <3>3. \A s \in Schedulers : s # a => view'[s] = view[s]
      BY <3>1, ViewsAfterSchedulers
    <3> QED
      BY <1>1, <3>2, <3>3
  <2>3. CASE (\E v : view' = [view EXCEPT ![a] = v]) /\ a \in Schedulers /\ stale = {}
    <3>1. DOMAIN view = Requests \cup Schedulers
      BY DEF IInv, Typed, ActorsTyped
    <3>2. /\ DOMAIN view' = Requests \cup Schedulers
          /\ \A x \in Requests \cup Schedulers : x # a => view'[x] = view[x]
      BY <2>3, <3>1
    <3> QED
      BY <1>1, <1>2, <2>3, <3>2
  <2> QED
    BY <2>1, <2>2, <2>3 DEF OutsiderViews
<1>4. ActorsTyped'
  <2>1. Actors' = Actors /\ Reminders' = Reminders
    BY DEF Actors, Reminders
  <2>2. request' \in [Requests -> RequestRecord]
    BY DEF IInv, Typed, ActorsTyped
  <2>3. \A d \in Requests : view'[d] \in RequestView
                            /\ DOMAIN view'[d].reminders \subseteq Reminders
    BY <1>2, <1>3
  <2> QED
    BY <1>3, <2>1, <2>2, <2>3 DEF ActorsTyped, Places
<1> QED
  BY <1>1, <1>3, <1>4 DEF Moves, Places, Actors

\* A scheduler keeps the invariant where it does right for itself and leaves the
\* rows alone.
LEMMA SchedulerKeepsIInv ==
    ASSUME IInv, NEW s \in Schedulers, NEW next \in SchedulerAt, NEW rows,
           Goes(s, next), RowsMove(s, rows), next \in Resting => \A r : ~Owns(s, r)',
           request' = request, OutsiderViews(s, {}), RowsUntouched, SchedulerOwns(s)'
    PROVE  IInv'
<1>1. s \in Actors /\ s \notin Requests /\ s \notin Handlers
  BY DEF Actors, Sized
<1>2. at' = [at EXCEPT ![s] = next]
  BY DEF Goes
<1>3. Places(s)
  BY <1>1, <1>2, StepPlaces
<1>4. Moves(s, {})
  BY <1>3, OutsiderMoves
<1>5. UNCHANGED <<open, booking, reminders, recorded, event>> /\ clock' \in 0 .. MaxClock
  BY DEF RowsUntouched, IInv, Typed, RowsTyped
<1>6. KeepsOwn(s)'
  BY <1>1 DEF KeepsOwn
<1>7. at[s] # "answered"
  BY DEF IInv, Typed, ActorsTyped, SchedulerAt
<1> QED
  BY <1>4, <1>5, <1>6, <1>7, QuietKeepsIInv

\* So does a handler.
LEMMA HandlerKeepsIInv ==
    ASSUME IInv, NEW h \in Handlers, NEW next \in HandlerAt, NEW rows,
           Goes(h, next), RowsMove(h, rows), next \in Resting => \A r : ~Owns(h, r)',
           request' = request, OutsiderViews(h, {}), RowsUntouched,
           HandlerOwns(h)', MailTrue(h)'
    PROVE  IInv'
<1>1. h \in Actors /\ h \notin Requests /\ h \notin Schedulers
  BY DEF Actors, Sized
<1>2. at' = [at EXCEPT ![h] = next]
  BY DEF Goes
<1>3. Places(h)
  BY <1>1, <1>2, StepPlaces
<1>4. Moves(h, {})
  BY <1>3, OutsiderMoves
<1>5. UNCHANGED <<open, booking, reminders, recorded, event>> /\ clock' \in 0 .. MaxClock
  BY DEF RowsUntouched, IInv, Typed, RowsTyped
<1>6. KeepsOwn(h)'
  BY <1>1 DEF KeepsOwn
<1>7. at[h] # "answered"
  BY DEF IInv, Typed, ActorsTyped, HandlerAt
<1> QED
  BY <1>4, <1>5, <1>6, <1>7, QuietKeepsIInv

\* A selection takes no lock.
LEMMA SelectKeepsIInv ==
    ASSUME IInv, NEW s \in Schedulers, NEW i, Select(s, i)
    PROVE  IInv'
<1>1. /\ Goes(s, "selected") /\ RowsMove(s, {}) /\ request' = request
      /\ OutsiderViews(s, {}) /\ RowsUntouched
  BY DEF Select, Goes, RowsMove, OutsiderViews, RowsUntouched
<1>2. at'[s] = "selected"
  BY <1>1, GoesTo DEF Actors
<1>3. SchedulerOwns(s)'
  <2>1. at[s] = "polling" /\ holder' = holder
    BY DEF Select
  <2>2. \A r : ~Owns(s, r)
    BY <2>1, RestingOwnsNothing DEF Resting
  <2>3. \A r : ~Owns(s, r)'
    BY <2>1, <2>2 DEF Owns
  <2> QED
    BY <1>2, <2>3 DEF SchedulerOwns
<1>4. "selected" \in SchedulerAt /\ "selected" \notin Resting
  BY DEF SchedulerAt, Resting
<1> QED
  BY <1>1, <1>3, <1>4, SchedulerKeepsIInv

\* The reminder's row is taken while it is free and pending, or left.
LEMMA LockDueKeepsIInv ==
    ASSUME IInv, NEW s \in Schedulers, LockDue(s)
    PROVE  IInv'
<1>0. PICK i : i = view[s].reminder
  OBVIOUS
<1>1. RowsUntouched /\ request' = request
  BY DEF LockDue, RowsUntouched
<1>2. CASE RowFree(i) /\ i \in Pending(reminders)
  <2>1. /\ Goes(s, "writing") /\ holder' = Take(s, {i}) /\ view' = view
    BY <1>0, <1>2 DEF LockDue, TakeDue, Goes
  <2>2. i \in Row
    BY <1>2, ReminderRange DEF IInv, Typed, Pending, Row
  <2>3. RowsMove(s, {i}) /\ OutsiderViews(s, {})
    BY <1>2, <2>1, <2>2 DEF RowsMove, OutsiderViews
  <2>7. at'[s] = "writing"
    BY <2>1, GoesTo DEF Actors
  <2>4. Owns(s, i)'
    <3>1. \A q \in {i} : RowFree(q)
      BY <1>2
    <3>2. \A y, x : Owns(y, x)' <=> Owns(y, x) \/ (y = s /\ x \in {i})
      BY <2>1, <3>1, TakeOwns
    <3> QED
      BY <2>1, <3>2
  <2>5. SchedulerOwns(s)'
    BY <1>0, <1>1, <1>2, <2>1, <2>7, <2>4 DEF SchedulerOwns, RowsUntouched, Pending
  <2>6. "writing" \in SchedulerAt /\ "writing" \notin Resting
    BY DEF SchedulerAt, Resting
  <2> QED
    BY <1>1, <2>1, <2>3, <2>5, <2>6, SchedulerKeepsIInv
<1>3. CASE ~(RowFree(i) /\ i \in Pending(reminders))
  <2>1. /\ at[s] = "selected" /\ Goes(s, "polling") /\ holder' = holder
        /\ view' = ViewsAfter(s, {})
    BY <1>0, <1>3 DEF LockDue, TakeDue, Goes
  <2>2. RowsMove(s, {}) /\ OutsiderViews(s, {})
    BY <2>1 DEF RowsMove, OutsiderViews
  <2>3. at'[s] = "polling"
    BY <2>1, GoesTo DEF Actors
  <2>4. SchedulerOwns(s)'
    BY <2>3 DEF SchedulerOwns
  <2>5. \A r : ~Owns(s, r)
    BY <2>1 DEF IInv, SchedulersOwn, SchedulerOwns
  <2>6. \A r : ~Owns(s, r)'
    BY <2>1, <2>5 DEF Owns
  <2>7. "polling" \in SchedulerAt
    BY DEF SchedulerAt
  <2> QED
    BY <1>1, <2>1, <2>2, <2>4, <2>6, <2>7, SchedulerKeepsIInv
<1> QED
  BY <1>2, <1>3

\* A handler starts with the reminder of its event alone.
LEMMA ReceiveKeepsIInv ==
    ASSUME IInv, NEW h \in Handlers, NEW i \in DOMAIN event, Receive(h, i)
    PROVE  IInv'
<1>1. /\ at[h] = "waiting" /\ event[i].state = "queued" /\ RowFree(i)
      /\ Goes(h, "booking") /\ holder' = Take(h, {i}) /\ request' = request /\ view' = view
      /\ RowsUntouched
  BY DEF Receive, Goes, RowsUntouched
<1>2. i \in Reminders /\ i \in Row
  BY ReminderRange DEF IInv, Typed, RowsTyped, Row
<1>3. RowsMove(h, {i}) /\ OutsiderViews(h, {})
  BY <1>1, <1>2 DEF RowsMove, OutsiderViews
<1>4. at'[h] = "booking"
  BY <1>1, GoesTo DEF Actors
<1>5. \A r : ~Owns(h, r)
  BY <1>1, RestingOwnsNothing DEF Resting
<1>6. \A r : Owns(h, r)' <=> r = i
  <2>1. \A q \in {i} : RowFree(q)
    BY <1>1
  <2>2. \A y, x : Owns(y, x)' <=> Owns(y, x) \/ (y = h /\ x \in {i})
    BY <1>1, <2>1, TakeOwns
  <2> QED
    BY <1>5, <2>2
<1>7. Handles(h, i)'
  BY <1>1, <1>6 DEF Handles, RowsUntouched
<1>8. HandlerOwns(h)' /\ MailTrue(h)'
  BY <1>1, <1>4, <1>7 DEF HandlerOwns, MailTrue, RowsUntouched
<1>9. "booking" \in HandlerAt /\ "booking" \notin Resting
  BY DEF HandlerAt, Resting
<1> QED
  BY <1>1, <1>3, <1>8, <1>9, HandlerKeepsIInv

\* It keeps its one reminder while it takes the booking and the organization.
LEMMA LockNextKeepsIInv ==
    ASSUME IInv, NEW h \in Handlers, LockNext(h)
    PROVE  IInv'
<1>1. /\ request' = request /\ view' = view /\ RowsUntouched
  BY DEF LockNext, RowsUntouched
<1>2. PICK row \in {Booking, Organization}, next \in {"organization", "deciding"} :
        /\ at[h] \in {"booking", "organization"}
        /\ next = "deciding" <=> at[h] = "organization"
        /\ next = "deciding" <=> row = Organization
        /\ RowFree(row) /\ holder' = Take(h, {row}) /\ Goes(h, next)
  <2>1. CASE at[h] = "booking" /\ RowFree(Booking) /\ holder' = Take(h, {Booking})
             /\ Goes(h, "organization")
    BY <2>1, RowNumbers
  <2>2. CASE at[h] = "organization" /\ RowFree(Organization)
             /\ holder' = Take(h, {Organization}) /\ Goes(h, "deciding")
    BY <2>2, RowNumbers
  <2> QED
    BY <2>1, <2>2 DEF LockNext, LockJoined, Goes
<1>3. RowsMove(h, {row}) /\ OutsiderViews(h, {}) /\ row \notin Reminders
  BY <1>1, <1>2, RowNumbers DEF RowsMove, OutsiderViews, Row
<1>4. at'[h] = next
  BY <1>2, GoesTo DEF Actors
<1>5. \A r : Owns(h, r)' <=> Owns(h, r) \/ r = row
  <2>1. \A q \in {row} : RowFree(q)
    BY <1>2
  <2>2. \A y, x : Owns(y, x)' <=> Owns(y, x) \/ (y = h /\ x \in {row})
    BY <1>2, <2>1, TakeOwns
  <2> QED
    BY <2>2
<1>6. PICK i \in DOMAIN event : Handles(h, i)
  BY <1>2 DEF IInv, HandlersOwn, HandlerOwns
<1>7. Handles(h, i)' /\ i \in DOMAIN event'
  BY <1>1, <1>3, <1>5, <1>6 DEF Handles, RowsUntouched, Reminders
<1>8. at[h] = "organization" => Owns(h, Booking)
  BY DEF IInv, HandlersOwn, HandlerOwns
<1>9. HandlerOwns(h)' /\ MailTrue(h)'
  BY <1>2, <1>4, <1>5, <1>7, <1>8 DEF HandlerOwns, MailTrue
<1>10. next \in HandlerAt /\ next \notin Resting
  BY DEF HandlerAt, Resting
<1> QED
  BY <1>1, <1>2, <1>3, <1>9, <1>10, HandlerKeepsIInv

\* It calls the provider once it owns all three rows and has looked at them.
LEMMA SendingKeepsIInv ==
    ASSUME IInv, NEW h \in Handlers, Decide(h), Deliverable(Handled(h))
    PROVE  IInv'
<1>1. /\ at[h] = "deciding" /\ Goes(h, "sending") /\ holder' = holder /\ request' = request
      /\ view' = view /\ RowsUntouched
  BY DEF Decide, Goes, RowsUntouched
<1>2. RowsMove(h, {}) /\ OutsiderViews(h, {})
  BY <1>1 DEF RowsMove, OutsiderViews
<1>3. at'[h] = "sending"
  BY <1>1, GoesTo DEF Actors
<1>4. Handles(h, Handled(h)) /\ Handled(h) \in Reminders
  BY <1>1, HandledIs, ReminderRange DEF IInv, Typed
<1>5. PICK i \in Reminders : i = Handled(h)
  BY <1>4
<1>6. Fits(i) /\ open /\ reminders[i].status = "dispatched"
  BY <1>5 DEF Deliverable
<1>7. \A j, r : Handles(h, j)' <=> Handles(h, j)
  BY <1>1 DEF Handles, Owns, RowsUntouched, Reminders
<1>8. \A j \in DOMAIN event : Handles(h, j) => j = i
  BY <1>4, <1>5, ReminderRange DEF Handles, IInv, Typed, RowsTyped
<1>9. MailTrue(h)'
  BY <1>1, <1>6, <1>7, <1>8 DEF MailTrue, RowsUntouched, Fits
<1>10. HandlerOwns(h)'
  <2>1. HandlerOwns(h)
    BY DEF IInv, HandlersOwn
  <2>2. \A r : Owns(h, r)' <=> Owns(h, r)
    BY <1>1 DEF Owns
  <2> QED
    BY <1>1, <1>3, <1>7, <2>1, <2>2 DEF HandlerOwns, RowsUntouched
<1>11. "sending" \in HandlerAt /\ "sending" \notin Resting
  BY DEF HandlerAt, Resting
<1> QED
  BY <1>1, <1>2, <1>9, <1>10, <1>11, HandlerKeepsIInv

\* Time passes, or nothing happens: no property looks at the clock.
LEMMA TickKeepsIInv ==
    ASSUME IInv, clock' \in 0 .. MaxClock,
           UNCHANGED <<open, booking, reminders, recorded, event, request, at, holder, view>>
    PROVE  IInv'
<1>1. Actors' = Actors /\ Reminders' = Reminders
  BY DEF Actors, Reminders
<1>2. Typed' /\ RowsBounded'
  BY <1>1 DEF IInv, Typed, RowsTyped, ActorsTyped, RowsBounded, Answered
<1>3. RequestsOwn' /\ SnapshotsHold' /\ SchedulersOwn'
  BY DEF IInv, RequestsOwn, RequestOwns, SnapshotsHold, SnapshotHolds, SchedulersOwn,
         SchedulerOwns, Suspends, Owns, Pending
<1>4. HandlersOwn' /\ MailsTrue'
  BY <1>1 DEF IInv, HandlersOwn, HandlerOwns, MailsTrue, MailTrue, Handles, Owns, Fits
<1>5. Unrecorded' /\ OnePending'
  BY <1>1 DEF IInv, Unrecorded, OnePending, Pending, Fits
<1> QED
  BY <1>2, <1>3, <1>4, <1>5 DEF IInv

-----------------------------------------------------------------------------
(* Steps that write the rows.                                              *)

\* What a writes is locked by a, or new.
Changes(a) ==
    /\ open' # open => Owns(a, Organization)
    /\ booking' # booking => Owns(a, Booking)
    /\ \A i \in Reminders : ~Owns(a, i) =>
          /\ i \in DOMAIN reminders => i \in DOMAIN reminders' /\ reminders'[i] = reminders[i]
          /\ i \in DOMAIN event <=> i \in DOMAIN event'
          /\ i \in DOMAIN event => event'[i] = event[i]

\* No row has two owners.
LEMMA OneOwner ==
    ASSUME NEW a, NEW x, NEW r, Owns(a, r), Owns(x, r)
    PROVE  a = x
BY DEF Owns

\* The writers a keeps off own what they did, and it is as they saw it.
LEMMA OthersKeep ==
    ASSUME IInv, RowsTyped', RowsBounded', NEW a, NEW rows, Moves(a, rows), Changes(a)
    PROVE  /\ \A s \in Schedulers : s # a => SchedulerOwns(s)'
           /\ \A h \in Handlers : h # a => HandlerOwns(h)' /\ MailTrue(h)'
<1>1. /\ DOMAIN reminders \subseteq Reminders /\ DOMAIN event \subseteq DOMAIN reminders
      /\ DOMAIN event' \subseteq Reminders
  <2>1. Reminders' = Reminders
    BY DEF Reminders
  <2>2. DOMAIN reminders \subseteq Reminders /\ DOMAIN reminders' \subseteq Reminders
    <3>1. /\ IsFiniteSet(Answered') /\ Answered' \subseteq Requests
          /\ Cardinality(Answered') \in Nat /\ Cardinality(Answered') <= Cardinality(Requests)
      <4>1. Answered' \subseteq Requests
        BY DEF Answered
      <4> QED
        BY <4>1, FS_Subset, FS_CardinalityType DEF Sized
    <3>2. /\ Len(reminders') \in Nat /\ DOMAIN reminders' = 1 .. Len(reminders')
      BY LenProperties DEF RowsTyped
    <3>3. Len(reminders') <= 1 + Cardinality(Answered')
      BY DEF RowsBounded
    <3> QED
      BY <3>1, <3>2, <3>3, RowNumbers, ReminderRange DEF Reminders, IInv, Typed
  <2> QED
    BY <2>2 DEF IInv, Typed, RowsTyped
<1>2. ASSUME NEW s \in Schedulers, s # a
      PROVE  SchedulerOwns(s)'
  <2>1. at'[s] = at[s] /\ view'[s] = view[s] /\ \A r : Owns(s, r)' <=> Owns(s, r)
    BY <1>2 DEF Moves, Actors
  <2>2. SchedulerOwns(s)
    BY DEF IInv, SchedulersOwn
  <2>3. CASE at[s] = "writing"
    <3>1. PICK i : i = view[s].reminder
      OBVIOUS
    <3>2. Owns(s, i) /\ i \in Pending(reminders) /\ i \in Reminders
      BY <1>1, <2>2, <2>3, <3>1 DEF SchedulerOwns, Pending
    <3>3. ~Owns(a, i)
      BY <1>2, <3>2, OneOwner
    <3>4. i \in Pending(reminders')
      BY <3>2, <3>3 DEF Changes, Pending
    <3> QED
      BY <2>1, <2>3, <3>1, <3>2, <3>4 DEF SchedulerOwns, Pending
  <2> QED
    BY <2>1, <2>2, <2>3 DEF SchedulerOwns
<1>3. ASSUME NEW h \in Handlers, h # a
      PROVE  HandlerOwns(h)' /\ MailTrue(h)'
  <2>1. at'[h] = at[h] /\ \A r : Owns(h, r)' <=> Owns(h, r)
    BY <1>3 DEF Moves, Actors
  <2>2. HandlerOwns(h) /\ MailTrue(h)
    BY DEF IInv, HandlersOwn, MailsTrue
  <2>3. ASSUME NEW i \in Reminders, Owns(h, i)
        PROVE  /\ i \in DOMAIN event <=> i \in DOMAIN event'
               /\ i \in DOMAIN event => event'[i] = event[i]
               /\ i \in DOMAIN reminders => reminders'[i] = reminders[i]
    <3>1. ~Owns(a, i)
      BY <1>3, <2>3, OneOwner
    <3> QED
      BY <3>1 DEF Changes
  <2>4. Reminders' = Reminders
    BY DEF Reminders
  <2>5. \A i \in Reminders : /\ Handles(h, i)' <=> Handles(h, i)
                             /\ Handles(h, i) => i \in DOMAIN event /\ i \in DOMAIN event'
    BY <2>1, <2>3, <2>4 DEF Handles
  <2>6. HandlerOwns(h)'
    BY <1>1, <2>1, <2>2, <2>5 DEF HandlerOwns
  <2>7. MailTrue(h)'
    <3> SUFFICES ASSUME at[h] = "sending", NEW i \in DOMAIN event', Handles(h, i)
                 PROVE  Fits(i)' /\ open' /\ reminders'[i].status = "dispatched"
      BY <1>1, <2>1, <2>5 DEF MailTrue
    <3>1. i \in DOMAIN event /\ i \in DOMAIN reminders /\ i \in Reminders /\ Owns(h, i)
      BY <1>1, <2>5 DEF Handles
    <3>2. Fits(i) /\ open /\ reminders[i].status = "dispatched"
      BY <2>2, <3>1 DEF MailTrue
    <3>3. Owns(h, Organization) /\ Owns(h, Booking)
      BY <2>2 DEF HandlerOwns
    <3>4. ~Owns(a, Organization) /\ ~Owns(a, Booking)
      BY <1>3, <3>3, OneOwner
    <3>5. open' = open /\ booking' = booking
      BY <3>4 DEF Changes
    <3>6. reminders'[i] = reminders[i]
      BY <2>3, <3>1
    <3> QED
      BY <3>2, <3>5, <3>6 DEF Fits
  <2> QED
    BY <2>6, <2>7
<1> QED
  BY <1>2, <1>3

\* A write keeps the invariant if the rows keep their shapes and the writer
\* does right for itself; a reminder gets pending only as the booking changes.
LEMMA WriteKeepsIInv ==
    ASSUME IInv, NEW a, NEW rows, Moves(a, rows), Changes(a),
           Booking \in rows => Owns(a, Booking),
           Booking \notin rows => Pending(reminders') \subseteq Pending(reminders),
           RowsTyped', RowsBounded', Unrecorded', OnePending', KeepsOwn(a)'
    PROVE  IInv'
<1>1. Typed'
  BY DEF Typed, Moves
<1>2. Booking \in rows => \A d \in Requests : d # a => ~Owns(d, Booking)
  BY OneOwner
<1>3. RequestsOwn'
  BY <1>2, OthersOwn DEF RequestsOwn, KeepsOwn
<1>4. SnapshotsHold'
  <2> SUFFICES ASSUME NEW d \in Requests, d # a PROVE SnapshotHolds(d)'
    BY DEF SnapshotsHold, KeepsOwn
  <2>1. /\ at'[d] = at[d] /\ request'[d] = request[d]
        /\ view'[d].reminders = view[d].reminders /\ view[d].stale \subseteq view'[d].stale
        /\ at[d] \in {"organization", "booking", "reminder"} => rows \subseteq view'[d].stale
    BY DEF Moves, Actors
  <2>2. SnapshotHolds(d) /\ RequestOwns(d)
    BY RequestsTyped
  <2>3. CASE Booking \notin rows
    BY <2>1, <2>2, <2>3 DEF SnapshotHolds, Suspends, Pending
  <2>4. CASE Booking \in rows
    <3>1. ~Owns(d, Booking)
      BY <1>2, <2>4
    <3>2. ~(at[d] = "committing" /\ ~Suspends(d))
      BY <2>2, <3>1 DEF RequestOwns
    <3> QED
      BY <2>1, <2>4, <3>2 DEF SnapshotHolds, Suspends
  <2> QED
    BY <2>3, <2>4
<1>5. SchedulersOwn' /\ HandlersOwn' /\ MailsTrue'
  BY OthersKeep DEF SchedulersOwn, HandlersOwn, MailsTrue, KeepsOwn
<1> QED
  BY <1>1, <1>3, <1>4, <1>5 DEF IInv

-----------------------------------------------------------------------------
(* The commit of a request.                                                *)

\* The reminders after an operation that leaves the booking as b: what is not
\* pending stays, a pending one stays if it fits b, and a new one is added
\* only where none stays.
LEMMA SynchronizedFacts ==
    ASSUME RowsTyped, NEW c \in Requests, NEW b \in BookingRecord,
           NEW after, after = Synchronized(c, b)
    PROVE  /\ after \in Seq(Reminder) /\ Len(after) \in {Len(reminders), Len(reminders) + 1}
           /\ \A i \in DOMAIN reminders :
                 /\ i \in DOMAIN after
                 /\ i \notin Pending(reminders) => after[i] = reminders[i]
                 /\ i \in Pending(after) =>
                       /\ i \in Pending(reminders)
                       /\ after[i].start = b.start /\ b.status = "confirmed" /\ b.email
           /\ \A i \in DOMAIN after : i \notin DOMAIN reminders =>
                 /\ after[i] = [start |-> b.start, status |-> "pending"]
                 /\ i = Len(reminders) + 1
                 /\ b.status = "confirmed" /\ b.email
                 /\ \A j \in DOMAIN reminders : j \notin Pending(after)
<1> DEFINE now == request[c].now
           kept == KeptPending(b, now, reminders)
           cancelled == [i \in DOMAIN reminders |->
                           IF i \in Pending(reminders) \ kept
                           THEN [reminders[i] EXCEPT !.status = "cancelled"]
                           ELSE reminders[i]]
           new == [start |-> b.start, status |-> "pending"]
<1>1. /\ reminders \in Seq(Reminder) /\ Len(reminders) \in Nat
      /\ DOMAIN reminders = 1 .. Len(reminders)
      /\ \A i \in DOMAIN reminders : reminders[i] \in Reminder
  BY LenProperties, ElementOfSeq DEF RowsTyped
<1>2. \A i \in DOMAIN reminders :
        /\ [reminders[i] EXCEPT !.status = "cancelled"] \in Reminder
        /\ [reminders[i] EXCEPT !.status = "cancelled"].status = "cancelled"
  BY <1>1 DEF Reminder
<1>3. \A i \in DOMAIN reminders :
        /\ cancelled[i] \in Reminder
        /\ i \notin Pending(reminders) => cancelled[i] = reminders[i]
        /\ i \in kept => cancelled[i] = reminders[i]
        /\ cancelled[i].status = "pending" => i \in kept
  BY <1>2, <1>1 DEF Pending, KeptPending
<1>4. /\ cancelled \in Seq(Reminder) /\ Len(cancelled) = Len(reminders)
      /\ DOMAIN cancelled = DOMAIN reminders
  <2>1. cancelled = [i \in 1 .. Len(reminders) |-> cancelled[i]]
    BY <1>1
  <2>2. \A i \in 1 .. Len(reminders) : cancelled[i] \in Reminder
    BY <1>1, <1>3
  <2>3. cancelled \in [1 .. Len(reminders) -> Reminder]
    BY <2>1, <2>2
  <2>4. cancelled \in Seq(Reminder)
    BY <1>1, <2>3
  <2> QED
    BY <1>1, <2>3, <2>4, LenProperties
<1>5. new \in Reminder
  BY DEF Reminder, BookingRecord
<1>6. \A i \in kept : i \in Pending(reminders) /\ reminders[i].start = b.start
                      /\ b.status = "confirmed" /\ b.email
  BY DEF KeptPending, Eligible
<1>7. \/ after = cancelled
      \/ after = Append(cancelled, new) /\ Eligible(b, now) /\ kept = {}
  BY DEF Synchronized
<1> HIDE DEF now, kept, cancelled, new
<1>8. CASE after = cancelled
  BY <1>1, <1>3, <1>4, <1>6, <1>8 DEF Pending
<1>9. CASE after = Append(cancelled, new) /\ Eligible(b, now) /\ kept = {}
  <2>1. /\ after \in Seq(Reminder) /\ Len(after) = Len(reminders) + 1
        /\ DOMAIN after = 1 .. Len(reminders) + 1
        /\ \A i \in DOMAIN reminders : after[i] = cancelled[i]
        /\ after[Len(reminders) + 1] = new
    BY <1>1, <1>4, <1>5, <1>9, AppendProperties
  <2>2. b.status = "confirmed" /\ b.email
    BY <1>9 DEF Eligible
  <2>3. \A j \in DOMAIN reminders : j \notin Pending(after)
    BY <1>3, <1>9, <2>1 DEF Pending
  <2>4. \A i \in DOMAIN after : i \notin DOMAIN reminders => i = Len(reminders) + 1
    BY <1>1, <2>1
  <2> QED
    BY <1>1, <1>3, <2>1, <2>2, <2>3, <2>4 DEF new
<1> QED
  BY <1>7, <1>8, <1>9

\* A request that commits is one more that is answered, and lets go.
LEMMA CommitFacts ==
    ASSUME IInv, NEW c \in Requests, NEW stale \in SUBSET Row,
           at[c] = "committing", Commit(c), view' = ViewsAfter(c, stale)
    PROVE  /\ Moves(c, stale) /\ KeepsOwn(c)' /\ RequestOwns(c)
           /\ recorded' = recorded /\ event' = event /\ clock' = clock
           /\ Cardinality(Answered') = Cardinality(Answered) + 1
           /\ Cardinality(Answered) \in Nat
<1>1. /\ Goes(c, "answered") /\ holder' = Drop(c) /\ RowsMove(c, {})
      /\ request' = request /\ recorded' = recorded /\ event' = event /\ clock' = clock
  BY DEF Commit, Goes, RowsMove
<1>2. at' = [at EXCEPT ![c] = "answered"]
  BY <1>1 DEF Goes
<1>3. c \in Actors /\ c \notin Schedulers /\ c \notin Handlers
  BY DEF Actors, Sized
<1>4. /\ at'[c] = "answered" /\ (\A x \in Actors : x # c => at'[x] = at[x])
  BY <1>1, <1>3, GoesTo DEF Goes, IInv, Typed, ActorsTyped
<1>5. \A r : ~Owns(c, r)'
  BY <1>1, DropOwns
<1>6. "answered" \in RequestAt
  BY DEF RequestAt
<1>7. Places(c)
  BY <1>1, <1>2, <1>3, <1>5, <1>6, StepPlaces
<1>8. request' \in [Requests -> RequestRecord] /\ RequestOwns(c)
  BY <1>1, RequestsTyped
<1>9. ViewMoves(c, stale)
  BY DEF ViewMoves
<1>10. Moves(c, stale)
  BY <1>1, <1>7, <1>8, <1>9, RequestMoves
<1>11. KeepsOwn(c)'
  <2>1. request[c].kind \in RequestKind /\ request[c].start \in Starts
    BY <1>8 DEF RequestOwns
  <2> QED
    BY <1>1, <1>3, <1>4, <2>1 DEF KeepsOwn, RequestOwns, SnapshotHolds
<1>12. /\ Cardinality(Answered') = Cardinality(Answered) + 1
       /\ Cardinality(Answered) \in Nat
  <2>1. Answered' = Answered \cup {c} /\ c \notin Answered
    BY <1>4 DEF Answered, Actors
  <2>2. IsFiniteSet(Answered)
    BY FS_Subset DEF Answered, Sized
  <2> QED
    BY <2>1, <2>2, FS_AddElement, FS_CardinalityType
<1> QED
  BY <1>1, <1>8, <1>10, <1>11, <1>12

\* A suspension holds the organization's row as it commits.
LEMMA SuspensionKeepsIInv ==
    ASSUME IInv, NEW c \in Requests, Commit(c), Suspends(c)
    PROVE  IInv'
<1>1. /\ at[c] = "committing" /\ open' = (request[c].kind = "unsuspend")
      /\ view' = ViewsAfter(c, {Organization}) /\ booking' = booking /\ reminders' = reminders
  BY DEF Commit
<1>2. {Organization} \in SUBSET Row
  BY DEF Row
<1>3. /\ Moves(c, {Organization}) /\ KeepsOwn(c)' /\ RequestOwns(c)
      /\ recorded' = recorded /\ event' = event /\ clock' = clock
      /\ Cardinality(Answered') = Cardinality(Answered) + 1
      /\ Cardinality(Answered) \in Nat
  BY <1>1, <1>2, CommitFacts
<1>4. Owns(c, Organization)
  BY <1>1, <1>3 DEF RequestOwns
<1>5. Changes(c)
  BY <1>1, <1>3, <1>4 DEF Changes
<1>6. Booking \notin {Organization}
  BY RowNumbers
<1>7. Reminders' = Reminders
  BY DEF Reminders
<1>8. RowsTyped'
  BY <1>1, <1>3, <1>7 DEF IInv, Typed, RowsTyped
<1>9. RowsBounded'
  <2>1. Len(reminders) \in Nat /\ Len(reminders) <= 1 + Cardinality(Answered)
    BY ReminderRange DEF IInv, Typed, RowsBounded
  <2> QED
    BY <1>1, <1>3, <2>1 DEF RowsBounded
<1>10. Unrecorded' /\ OnePending'
  BY <1>1, <1>3, <1>7 DEF IInv, Unrecorded, OnePending, Pending, Fits
<1>11. Pending(reminders') \subseteq Pending(reminders)
  BY <1>1
<1> QED
  BY <1>3, <1>5, <1>6, <1>8, <1>9, <1>10, <1>11, WriteKeepsIInv

\* What an operation leaves is a booking.
LEMMA ChangedTyped ==
    ASSUME booking \in BookingRecord, NEW c \in Requests, ~Suspends(c),
           request[c].kind \in RequestKind, request[c].start \in Starts
    PROVE  Changed(c) \in BookingRecord
<1>1. /\ [booking EXCEPT !.status = "cancelled"] \in BookingRecord
      /\ [booking EXCEPT !.status = "no_show"] \in BookingRecord
      /\ [booking EXCEPT !.status = "confirmed"] \in BookingRecord
      /\ [booking EXCEPT !.start = request[c].start] \in BookingRecord
      /\ [booking EXCEPT !.email = FALSE] \in BookingRecord
  BY DEF BookingRecord
<1>2. request[c].kind \in {"cancel", "no_show", "revert", "move", "forget_email"}
  BY DEF Suspends, RequestKind
<1>3. CASE request[c].kind = "cancel"
  BY <1>1, <1>3 DEF Changed
<1>4. CASE request[c].kind = "no_show"
  BY <1>1, <1>4 DEF Changed
<1>5. CASE request[c].kind = "revert"
  BY <1>1, <1>5 DEF Changed
<1>6. CASE request[c].kind = "move"
  BY <1>1, <1>6 DEF Changed
<1>7. CASE request[c].kind = "forget_email"
  BY <1>1, <1>7 DEF Changed
<1> QED
  BY <1>2, <1>3, <1>4, <1>5, <1>6, <1>7

\* An operation has locked every reminder that is pending as it commits: its
\* snapshot shows them all, since the booking has not changed behind it.
LEMMA OwnsPending ==
    ASSUME IInv, NEW c \in Requests, at[c] = "committing", ~Suspends(c)
    PROVE  \A i \in Pending(reminders) : Owns(c, i)
BY RequestsTyped DEF RequestOwns, SnapshotHolds

\* An operation on the booking leaves at most one pending reminder, which fits.
LEMMA OperationKeepsIInv ==
    ASSUME IInv, NEW c \in Requests, Commit(c), ~Suspends(c)
    PROVE  IInv'
<1>0. PICK b, after, stale :
        /\ b = Changed(c) /\ after = Synchronized(c, b)
        /\ stale = {Booking} \cup {i \in DOMAIN reminders : after[i] # reminders[i]}
  OBVIOUS
<1>1. /\ at[c] = "committing" /\ open' = open /\ booking' = b /\ reminders' = after
      /\ view' = ViewsAfter(c, stale)
  BY <1>0 DEF Commit
<1>2. stale \in SUBSET Row /\ Booking \in stale
  BY <1>0, ReminderRange DEF IInv, Typed, Row
<1>3. /\ Moves(c, stale) /\ KeepsOwn(c)' /\ RequestOwns(c)
      /\ recorded' = recorded /\ event' = event /\ clock' = clock
      /\ Cardinality(Answered') = Cardinality(Answered) + 1
      /\ Cardinality(Answered) \in Nat
  BY <1>1, <1>2, CommitFacts
<1>4. Owns(c, Booking)
  BY <1>1, <1>3 DEF RequestOwns
<1>5. \A i \in Pending(reminders) : Owns(c, i)
  BY <1>1, OwnsPending
<1>6. b \in BookingRecord
  <2>1. request[c].kind \in RequestKind /\ request[c].start \in Starts
    BY <1>1, <1>3 DEF RequestOwns
  <2>2. booking \in BookingRecord
    BY DEF IInv, Typed, RowsTyped
  <2> QED
    BY <1>0, <2>1, <2>2, ChangedTyped
<1>7. /\ after \in Seq(Reminder) /\ Len(after) \in {Len(reminders), Len(reminders) + 1}
      /\ \A i \in DOMAIN reminders :
            /\ i \in DOMAIN after
            /\ i \notin Pending(reminders) => after[i] = reminders[i]
            /\ i \in Pending(after) =>
                  /\ i \in Pending(reminders)
                  /\ after[i].start = b.start /\ b.status = "confirmed" /\ b.email
      /\ \A i \in DOMAIN after : i \notin DOMAIN reminders =>
            /\ after[i] = [start |-> b.start, status |-> "pending"]
            /\ i = Len(reminders) + 1
            /\ b.status = "confirmed" /\ b.email
            /\ \A j \in DOMAIN reminders : j \notin Pending(after)
  BY <1>0, <1>6, SynchronizedFacts DEF IInv, Typed
<1>8. Reminders' = Reminders
  BY DEF Reminders
<1>9. Changes(c)
  BY <1>1, <1>3, <1>4, <1>5, <1>7 DEF Changes
<1>10. RowsTyped'
  BY <1>1, <1>3, <1>6, <1>7, <1>8 DEF IInv, Typed, RowsTyped
<1>11. RowsBounded'
  <2>1. Len(reminders) \in Nat /\ Len(reminders) <= 1 + Cardinality(Answered)
    BY ReminderRange DEF IInv, Typed, RowsBounded
  <2> QED
    BY <1>1, <1>3, <1>7, <2>1 DEF RowsBounded
<1>12. OnePending'
  <2>1. \A i, j \in Pending(after) : i = j
    BY <1>7 DEF IInv, OnePending, Pending
  <2>2. \A i \in Pending(after) :
          after[i].start = b.start /\ b.status = "confirmed" /\ b.email
    BY <1>7 DEF Pending
  <2> QED
    BY <1>1, <2>1, <2>2 DEF OnePending, Fits
<1>13. Unrecorded'
  <2>1. \A i \in Reminders : i \in Pending(after) \/ i \notin DOMAIN after =>
          i \in Pending(reminders) \/ i \notin DOMAIN reminders
    BY <1>7
  <2> QED
    BY <1>1, <1>3, <1>8, <2>1 DEF IInv, Unrecorded
<1> QED
  BY <1>2, <1>3, <1>4, <1>9, <1>10, <1>11, <1>12, <1>13, WriteKeepsIInv

-----------------------------------------------------------------------------
(* What schedulers and handlers write.                                     *)

\* A reminder gets a status.
Marks(i, status) == reminders' = [reminders EXCEPT ![i].status = status]

\* Marking a reminder changes its status and nothing else.
LEMMA MarkFacts ==
    ASSUME reminders \in Seq(Reminder), NEW i \in DOMAIN reminders,
           NEW status \in {"pending", "dispatched", "sent", "skipped", "cancelled"},
           Marks(i, status)
    PROVE  /\ reminders' \in Seq(Reminder)
           /\ Len(reminders') = Len(reminders) /\ DOMAIN reminders' = DOMAIN reminders
           /\ reminders'[i].status = status /\ reminders'[i].start = reminders[i].start
           /\ \A j \in DOMAIN reminders : j # i => reminders'[j] = reminders[j]
<1>1. /\ Len(reminders) \in Nat /\ DOMAIN reminders = 1 .. Len(reminders)
      /\ \A j \in DOMAIN reminders : reminders[j] \in Reminder
  BY LenProperties, ElementOfSeq
<1>2. PICK e : e = [reminders[i] EXCEPT !.status = status]
  OBVIOUS
<1>3. e \in Reminder /\ e.status = status /\ e.start = reminders[i].start
  BY <1>1, <1>2 DEF Reminder
<1>4. reminders' = [reminders EXCEPT ![i] = e]
  BY <1>2 DEF Marks
<1>5. [reminders EXCEPT ![i] = e] \in Seq(Reminder)
  BY <1>1, <1>3, ExceptSeq
<1>6. /\ DOMAIN reminders' = DOMAIN reminders /\ reminders'[i] = e
      /\ \A j \in DOMAIN reminders : j # i => reminders'[j] = reminders[j]
  BY <1>4
<1>7. Len(reminders') = Len(reminders)
  BY <1>1, <1>4, <1>5, <1>6, LenProperties
<1> QED
  BY <1>3, <1>4, <1>5, <1>6, <1>7

\* A step that marks a reminder no longer pending keeps the bounds, and the
\* others that are pending.
LEMMA MarkKeeps ==
    ASSUME IInv, NEW a, NEW i \in DOMAIN reminders,
           NEW status \in {"dispatched", "sent", "skipped", "cancelled"},
           Marks(i, status) \/ (reminders' = reminders /\ i \notin Pending(reminders)),
           booking' = booking, \A x \in Actors : x # a => at'[x] = at[x],
           a \in Actors, a \notin Requests
    PROVE  /\ reminders' \in Seq(Reminder) /\ DOMAIN reminders' = DOMAIN reminders
           /\ \A j \in DOMAIN reminders : j # i => reminders'[j] = reminders[j]
           /\ Pending(reminders') = Pending(reminders) \ {i}
           /\ RowsBounded' /\ OnePending'
<1>1. /\ reminders' \in Seq(Reminder) /\ DOMAIN reminders' = DOMAIN reminders
      /\ Len(reminders') = Len(reminders)
      /\ \A j \in DOMAIN reminders : j # i => reminders'[j] = reminders[j]
      /\ reminders'[i].status # "pending"
  <2>1. CASE reminders' = reminders /\ i \notin Pending(reminders)
    BY <2>1 DEF IInv, Typed, RowsTyped, Pending
  <2>2. CASE Marks(i, status)
    <3>1. reminders \in Seq(Reminder)
      BY DEF IInv, Typed, RowsTyped
    <3>2. status \in {"pending", "dispatched", "sent", "skipped", "cancelled"}
      OBVIOUS
    <3> QED
      BY <2>2, <3>1, <3>2, MarkFacts
  <2> QED
    BY <2>1, <2>2
<1>2. Pending(reminders') = Pending(reminders) \ {i}
  BY <1>1 DEF Pending
<1>3. Answered' = Answered
  BY DEF Answered, Actors
<1>4. RowsBounded'
  BY <1>1, <1>3 DEF IInv, RowsBounded
<1>5. OnePending'
  <2>1. \A j \in Pending(reminders') : reminders'[j] = reminders[j] /\ j \in Pending(reminders)
    BY <1>1, <1>2 DEF Pending
  <2> QED
    BY <2>1 DEF IInv, OnePending, Fits
<1> QED
  BY <1>1, <1>2, <1>4, <1>5

\* A scheduler writes the status and the event of the one pending reminder.
LEMMA DispatchFacts ==
    ASSUME IInv, NEW s \in Schedulers, Dispatch(s),
           NEW i, i = view[s].reminder
    PROVE  /\ at[s] = "writing" /\ Owns(s, i) /\ i \in Pending(reminders)
           /\ i \in DOMAIN reminders /\ i \in Reminders
           /\ Marks(i, "skipped") \/ Marks(i, "dispatched")
           /\ recorded' = recorded \/ recorded' = [recorded EXCEPT ![i] = @ + 1]
           /\ \/ event' = event
              \/ /\ i \notin DOMAIN event
                 /\ event' = [j \in DOMAIN event \cup {i} |->
                                IF j = i THEN [state |-> "queued", attempts |-> 0] ELSE event[j]]
           /\ view' = ViewsAfter(s, {i}) /\ Goes(s, "polling") /\ holder' = Drop(s)
           /\ UNCHANGED <<clock, open, booking, request>>
<1>1. at[s] = "writing"
  BY DEF Dispatch
<1>2. Owns(s, i) /\ i \in Pending(reminders)
  BY <1>1 DEF IInv, SchedulersOwn, SchedulerOwns
<1>3. i \in DOMAIN reminders /\ i \in Reminders /\ reminders[i].status = "pending"
  BY <1>2, ReminderRange DEF Pending, IInv, Typed
<1>4. Marks(i, "skipped") \/ Marks(i, "dispatched")
  BY <1>3 DEF Dispatch, Marks
<1>5. /\ recorded' = recorded \/ recorded' = [recorded EXCEPT ![i] = @ + 1]
      /\ \/ event' = event
         \/ /\ i \notin DOMAIN event
            /\ event' = [j \in DOMAIN event \cup {i} |->
                           IF j = i THEN [state |-> "queued", attempts |-> 0] ELSE event[j]]
  BY DEF Dispatch
<1>6. /\ view' = ViewsAfter(s, {i}) /\ Goes(s, "polling") /\ holder' = Drop(s)
      /\ UNCHANGED <<clock, open, booking, request>>
  BY DEF Dispatch, Goes
<1> QED
  BY <1>1, <1>2, <1>3, <1>4, <1>5, <1>6

\* A scheduler settles the row it has taken: an event if the reminder is to be sent, and
\* a mark either way.
LEMMA DispatchKeepsIInv ==
    ASSUME IInv, NEW s \in Schedulers, Dispatch(s)
    PROVE  IInv'
<1>0. PICK i : i = view[s].reminder
  OBVIOUS
<1>1. /\ at[s] = "writing" /\ Owns(s, i) /\ i \in Pending(reminders)
      /\ i \in DOMAIN reminders /\ i \in Reminders
      /\ Marks(i, "skipped") \/ Marks(i, "dispatched")
      /\ recorded' = recorded \/ recorded' = [recorded EXCEPT ![i] = @ + 1]
      /\ \/ event' = event
         \/ /\ i \notin DOMAIN event
            /\ event' = [j \in DOMAIN event \cup {i} |->
                           IF j = i THEN [state |-> "queued", attempts |-> 0] ELSE event[j]]
      /\ view' = ViewsAfter(s, {i}) /\ Goes(s, "polling") /\ holder' = Drop(s)
      /\ UNCHANGED <<clock, open, booking, request>>
  BY <1>0, DispatchFacts
<1>2. s \in Actors /\ s \notin Requests /\ s \notin Handlers
  BY DEF Actors, Sized
<1>3. at'[s] = "polling" /\ \A x \in Actors : x # s => at'[x] = at[x]
  BY <1>1, <1>2, GoesTo DEF Goes, IInv, Typed, ActorsTyped
<1>4. /\ reminders' \in Seq(Reminder) /\ DOMAIN reminders' = DOMAIN reminders
      /\ \A j \in DOMAIN reminders : j # i => reminders'[j] = reminders[j]
      /\ Pending(reminders') = Pending(reminders) \ {i}
      /\ RowsBounded' /\ OnePending'
  <2>1. PICK status \in {"dispatched", "sent", "skipped", "cancelled"} : Marks(i, status)
    BY <1>1
  <2>2. booking' = booking /\ i \in DOMAIN reminders
    BY <1>1
  <2> QED
    BY <1>2, <1>3, <2>1, <2>2, MarkKeeps
<1>5. Moves(s, {i})
  <2>1. at' = [at EXCEPT ![s] = "polling"] /\ RowsMove(s, {}) /\ \A r : ~Owns(s, r)'
    BY <1>1, DropOwns DEF Goes, RowsMove
  <2>2. "polling" \in SchedulerAt
    BY DEF SchedulerAt
  <2>3. Places(s)
    BY <1>2, <2>1, <2>2, StepPlaces
  <2>4. OutsiderViews(s, {i}) /\ request' = request
    BY <1>1 DEF OutsiderViews, Row
  <2> QED
    BY <2>3, <2>4, OutsiderMoves
<1>6. Changes(s)
  <2>1. \A j \in Reminders : ~Owns(s, j) => j # i
    BY <1>1
  <2>2. \A j \in DOMAIN event : j # i => j \in DOMAIN event' /\ event'[j] = event[j]
    BY <1>1
  <2>3. \A j \in DOMAIN event' : j # i => j \in DOMAIN event
    BY <1>1
  <2> QED
    BY <1>1, <1>4, <2>1, <2>2, <2>3 DEF Changes
<1>7. Reminders' = Reminders
  BY DEF Reminders
<1>8. /\ recorded \in [Reminders -> 0 .. Cardinality(Schedulers)]
      /\ recorded[i] = 0 /\ 1 \in 0 .. Cardinality(Schedulers)
  <2>1. Cardinality(Schedulers) \in Nat /\ Cardinality(Schedulers) # 0
    BY FS_CardinalityType, FS_EmptySet DEF Sized
  <2> QED
    BY <1>1, <2>1 DEF IInv, Typed, RowsTyped, Unrecorded
<1>9. /\ recorded' \in [Reminders -> 0 .. Cardinality(Schedulers)]
      /\ \A j \in Reminders : j # i => recorded'[j] = recorded[j]
      /\ recorded'[i] <= 1
  BY <1>1, <1>8
<1>10. RowsTyped'
  <2>1. \A j \in DOMAIN event :
          event[j] \in Event /\ (event[j].state = "dead" <=> event[j].attempts = MaxAttempts)
    BY DEF IInv, Typed, RowsTyped
  <2>2. /\ [state |-> "queued", attempts |-> 0] \in Event
        /\ 0 # MaxAttempts
    BY DEF Event, Sized
  <2>3. \A j \in DOMAIN event' :
          event'[j] \in Event /\ (event'[j].state = "dead" <=> event'[j].attempts = MaxAttempts)
    BY <1>1, <2>1, <2>2
  <2>4. DOMAIN event' \subseteq DOMAIN reminders'
    BY <1>1, <1>4 DEF IInv, Typed, RowsTyped
  <2>5. /\ clock' \in 0 .. MaxClock /\ open' \in BOOLEAN /\ booking' \in BookingRecord
    BY <1>1 DEF IInv, Typed, RowsTyped
  <2> QED
    BY <1>4, <1>7, <1>9, <2>3, <2>4, <2>5 DEF RowsTyped
<1>11. Unrecorded'
  <2> SUFFICES ASSUME NEW j \in Reminders
               PROVE  /\ recorded'[j] <= 1
                      /\ j \in Pending(reminders') \/ j \notin DOMAIN reminders' => recorded'[j] = 0
    BY <1>7 DEF Unrecorded
  <2>1. CASE j = i
    BY <1>1, <1>4, <1>9, <2>1
  <2>2. CASE j # i
    BY <1>4, <1>9, <2>2 DEF IInv, Unrecorded
  <2> QED
    BY <2>1, <2>2
<1>12. KeepsOwn(s)'
  BY <1>2, <1>3 DEF KeepsOwn, SchedulerOwns
<1>13. Booking \notin {i} /\ Pending(reminders') \subseteq Pending(reminders)
  BY <1>1, <1>4, RowNumbers
<1> QED
  BY <1>4, <1>5, <1>6, <1>10, <1>11, <1>12, <1>13, WriteKeepsIInv

\* A handler that ends writes its reminder and its event, and lets go.
LEMMA EndKeepsIInv ==
    ASSUME IInv, NEW h \in Handlers, NEW i \in DOMAIN event, Handles(h, i),
           Goes(h, "waiting"), holder' = Drop(h), view' = view \/ view' = ViewsAfter(h, {i}),
           UNCHANGED <<clock, open, booking, recorded, request>>,
           \/ reminders' = reminders
           \/ /\ i \notin Pending(reminders)
              /\ \E status \in {"dispatched", "sent", "skipped", "cancelled"} : Marks(i, status),
           DOMAIN event' = DOMAIN event,
           \A j \in DOMAIN event : j # i => event'[j] = event[j],
           event'[i] \in Event,
           event'[i].state = "dead" <=> event'[i].attempts = MaxAttempts
    PROVE  IInv'
<1>1. h \in Actors /\ h \notin Requests /\ h \notin Schedulers
  BY DEF Actors, Sized
<1>2. at'[h] = "waiting" /\ \A x \in Actors : x # h => at'[x] = at[x]
  BY <1>1, GoesTo DEF Goes, IInv, Typed, ActorsTyped
<1>3. i \in DOMAIN reminders /\ i \in Reminders /\ Owns(h, i)
  BY ReminderRange DEF IInv, Typed, RowsTyped, Handles
<1>4. /\ reminders' \in Seq(Reminder) /\ DOMAIN reminders' = DOMAIN reminders
      /\ \A j \in DOMAIN reminders : j # i => reminders'[j] = reminders[j]
      /\ Pending(reminders') = Pending(reminders)
      /\ RowsBounded' /\ OnePending'
  <2>1. CASE reminders' = reminders
    <3>1. Answered' = Answered
      BY <1>1, <1>2 DEF Answered, Actors
    <3> QED
      BY <2>1, <3>1 DEF IInv, Typed, RowsTyped, RowsBounded, OnePending, Pending, Fits
  <2>2. CASE /\ i \notin Pending(reminders)
             /\ \E status \in {"dispatched", "sent", "skipped", "cancelled"} : Marks(i, status)
    <3>1. PICK status \in {"dispatched", "sent", "skipped", "cancelled"} : Marks(i, status)
      BY <2>2
    <3>2. /\ reminders' \in Seq(Reminder) /\ DOMAIN reminders' = DOMAIN reminders
          /\ \A j \in DOMAIN reminders : j # i => reminders'[j] = reminders[j]
          /\ Pending(reminders') = Pending(reminders) \ {i}
          /\ RowsBounded' /\ OnePending'
      BY <1>1, <1>2, <1>3, <3>1, MarkKeeps
    <3> QED
      BY <2>2, <3>2
  <2> QED
    BY <2>1, <2>2
<1>5. \E stale \in {{}, {i}} : Moves(h, stale)
  <2>1. at' = [at EXCEPT ![h] = "waiting"] /\ RowsMove(h, {}) /\ \A r : ~Owns(h, r)'
    BY DropOwns DEF Goes, RowsMove
  <2>2. "waiting" \in HandlerAt
    BY DEF HandlerAt
  <2>3. Places(h)
    BY <1>1, <2>1, <2>2, StepPlaces
  <2>4. PICK stale \in {{}, {i}} : OutsiderViews(h, stale)
    BY <1>3 DEF OutsiderViews, Row
  <2>5. Moves(h, stale)
    BY <2>3, <2>4, OutsiderMoves
  <2> QED
    BY <2>5
<1>6. Changes(h)
  <2>1. \A j \in Reminders : ~Owns(h, j) => j # i
    BY <1>3
  <2> QED
    BY <1>4, <2>1 DEF Changes
<1>7. Reminders' = Reminders
  BY DEF Reminders
<1>8. RowsTyped'
  <2>1. \A j \in DOMAIN event :
          event[j] \in Event /\ (event[j].state = "dead" <=> event[j].attempts = MaxAttempts)
    BY DEF IInv, Typed, RowsTyped
  <2>2. \A j \in DOMAIN event' :
          event'[j] \in Event /\ (event'[j].state = "dead" <=> event'[j].attempts = MaxAttempts)
    BY <2>1
  <2>3. DOMAIN event' \subseteq DOMAIN reminders'
    BY <1>4 DEF IInv, Typed, RowsTyped
  <2>4. /\ clock' \in 0 .. MaxClock /\ open' \in BOOLEAN /\ booking' \in BookingRecord
        /\ recorded' \in [Reminders -> 0 .. Cardinality(Schedulers)]
    BY DEF IInv, Typed, RowsTyped
  <2> QED
    BY <1>4, <1>7, <2>2, <2>3, <2>4 DEF RowsTyped
<1>9. Unrecorded'
  BY <1>4, <1>7 DEF IInv, Unrecorded
<1>10. KeepsOwn(h)'
  BY <1>1, <1>2 DEF KeepsOwn, HandlerOwns, MailTrue
<1>11. \A stale \in {{}, {i}} : Booking \notin stale
  BY <1>3, RowNumbers
<1> QED
  BY <1>4, <1>5, <1>6, <1>8, <1>9, <1>10, <1>11, WriteKeepsIInv

\* A handler that has decided, or whose provider took the mail.
LEMMA FinishKeepsIInv ==
    ASSUME IInv, NEW h \in Handlers, at[h] # "waiting",
           NEW status \in {"skipped", "sent"}, Finish(h, status)
    PROVE  IInv'
<1>1. PICK i : i = Handled(h)
  OBVIOUS
<1>2. Handles(h, i) /\ i \in DOMAIN event /\ i \in DOMAIN reminders
  BY <1>1, HandledIs DEF Handles
<1>3. /\ \/ reminders' = reminders
         \/ reminders[i].status = "dispatched" /\ Marks(i, status)
      /\ event' = [event EXCEPT ![i].state = "received"]
      /\ view' = ViewsAfter(h, {i}) /\ Goes(h, "waiting") /\ holder' = Drop(h)
      /\ UNCHANGED <<clock, open, booking, recorded, request>>
  BY <1>1 DEF Finish, Marks, Goes
<1>4. /\ event[i] \in Event /\ event[i].state = "queued" /\ event[i].attempts # MaxAttempts
  BY <1>2 DEF IInv, Typed, RowsTyped, Handles
<1>5. /\ [event[i] EXCEPT !.state = "received"] \in Event
      /\ [event[i] EXCEPT !.state = "received"].state = "received"
      /\ [event[i] EXCEPT !.state = "received"].attempts = event[i].attempts
  BY <1>4 DEF Event
<1>6. /\ DOMAIN event' = DOMAIN event /\ \A j \in DOMAIN event : j # i => event'[j] = event[j]
      /\ event'[i] = [event[i] EXCEPT !.state = "received"]
  BY <1>2, <1>3
<1>7. event'[i] \in Event /\ (event'[i].state = "dead" <=> event'[i].attempts = MaxAttempts)
  BY <1>4, <1>5, <1>6
<1>8. \/ reminders' = reminders
      \/ /\ i \notin Pending(reminders)
         /\ \E st \in {"dispatched", "sent", "skipped", "cancelled"} : Marks(i, st)
  BY <1>3 DEF Pending
<1> QED
  BY <1>2, <1>3, <1>6, <1>7, <1>8, EndKeepsIInv

\* One whose attempt is rolled back: the event waits for another, or is dead.
LEMMA FailKeepsIInv ==
    ASSUME IInv, NEW h \in Handlers, at[h] # "waiting", HandlerFails(h)
    PROVE  IInv'
<1>1. PICK i : i = Handled(h)
  OBVIOUS
<1>2. Handles(h, i) /\ i \in DOMAIN event /\ i \in DOMAIN reminders
  BY <1>1, HandledIs DEF Handles
<1>3. PICK e : e = [state |-> IF Retried(event[i].attempts + 1) THEN "queued" ELSE "dead",
                    attempts |-> event[i].attempts + 1]
  OBVIOUS
<1>4. /\ event' = [event EXCEPT ![i] = e] /\ Goes(h, "waiting") /\ holder' = Drop(h)
      /\ UNCHANGED <<clock, open, booking, reminders, recorded, request, view>>
  BY <1>1, <1>3 DEF HandlerFails, Goes
<1>5. event[i] \in Event /\ event[i].attempts \in 0 .. MaxAttempts
      /\ event[i].attempts # MaxAttempts /\ MaxAttempts \in Nat
  BY <1>2 DEF IInv, Typed, RowsTyped, Handles, Event, Sized
<1>6. e \in Event /\ (e.state = "dead" <=> e.attempts = MaxAttempts)
  BY <1>3, <1>5 DEF Event, Retried
<1>7. /\ DOMAIN event' = DOMAIN event /\ event'[i] = e
      /\ \A j \in DOMAIN event : j # i => event'[j] = event[j]
  BY <1>2, <1>4
<1> QED
  BY <1>2, <1>4, <1>6, <1>7, EndKeepsIInv

-----------------------------------------------------------------------------
(* The invariant.                                                          *)

\* Who waits in a circle waits for a row.
LEMMA VictimWaits ==
    ASSUME NEW a, Deadlocked(a)
    PROVE  at[a] \in {"organization", "booking", "reminder"}
<1>1. WaitsFor(a) # {}
  BY DEF Deadlocked
<1>2. Wanted(a) # {}
  BY <1>1 DEF WaitsFor
<1> QED
  BY <1>2 DEF Wanted

\* The first state: at most one reminder, which is pending and fits.
LEMMA InitIInv ==
    ASSUME Init
    PROVE  IInv
<1>1. PICK start \in Starts :
        /\ booking = [status |-> "confirmed", start |-> start, email |-> TRUE]
        /\ reminders = IF start > Lead THEN <<[start |-> start, status |-> "pending"]>>
                       ELSE <<>>
  BY DEF Init
<1>2. /\ clock = 0 /\ open = TRUE
      /\ recorded = [i \in Reminders |-> 0] /\ event = [i \in {} |-> <<>>]
      /\ request = [c \in Requests |-> [kind |-> Nothing, start |-> 0, now |-> 0, attempt |-> 1]]
      /\ at = [a \in Actors |-> IF a \in Requests THEN "idle"
                                ELSE IF a \in Schedulers THEN "polling" ELSE "waiting"]
      /\ holder = [r \in {} |-> Nothing]
      /\ view = [a \in Requests \cup Schedulers |-> NothingRead(a)]
  BY DEF Init
<1>3. /\ \A c \in Requests : at[c] = "idle"
      /\ \A s \in Schedulers : at[s] = "polling"
      /\ \A h \in Handlers : at[h] = "waiting"
      /\ DOMAIN event = {} /\ DOMAIN holder = {}
  BY <1>2 DEF Actors, Sized
<1>4. /\ reminders \in Seq(Reminder) /\ Len(reminders) <= 1
      /\ \A i \in DOMAIN reminders : i = 1 /\ reminders[i].start = start
  <2>1. [start |-> start, status |-> "pending"] \in Reminder
    BY DEF Reminder
  <2> QED
    BY <1>1, <2>1
<1>5. RowsTyped
  <2>1. booking \in BookingRecord
    BY <1>1 DEF BookingRecord
  <2>2. recorded \in [Reminders -> 0 .. Cardinality(Schedulers)]
    <3>1. Cardinality(Schedulers) \in Nat
      BY FS_CardinalityType DEF Sized
    <3> QED
      BY <1>2, <3>1
  <2>3. clock \in 0 .. MaxClock /\ open \in BOOLEAN
    BY <1>2 DEF Sized
  <2> QED
    BY <1>3, <1>4, <2>1, <2>2, <2>3 DEF RowsTyped
<1>6. ActorsTyped
  <2>1. at \in [Actors -> RequestAt \cup SchedulerAt \cup HandlerAt]
    BY <1>2 DEF Actors, RequestAt, SchedulerAt, HandlerAt
  <2>2. request \in [Requests -> RequestRecord]
    <3>1. [kind |-> Nothing, start |-> 0, now |-> 0, attempt |-> 1] \in RequestRecord
      BY DEF RequestRecord, Sized
    <3> QED
      BY <1>2, <3>1
  <2>3. DOMAIN view = Requests \cup Schedulers
    BY <1>2
  <2>4. \A c \in Requests : view[c] \in RequestView /\ DOMAIN view[c].reminders \subseteq Reminders
    <3>1. \A c \in Requests : view[c] = [reminders |-> <<>>, stale |-> {}]
      BY <1>2 DEF NothingRead
    <3>2. <<>> \in Seq(Reminder) /\ DOMAIN <<>> = {}
      BY EmptySeq
    <3>3. [reminders |-> <<>>, stale |-> {}] \in RequestView
      BY <3>2 DEF RequestView
    <3>4. \A c \in Requests : view[c] \in RequestView
      BY <3>1, <3>3
    <3>5. \A c \in Requests : DOMAIN view[c].reminders = {}
      BY <3>1, <3>2
    <3> QED
      BY <3>4, <3>5
  <2> QED
    BY <1>3, <2>1, <2>2, <2>3, <2>4 DEF ActorsTyped, RequestAt, SchedulerAt, HandlerAt
<1>7. RowsBounded
  <2>1. Answered = {}
    BY <1>3 DEF Answered
  <2> QED
    BY <1>4, <2>1, FS_EmptySet, LenProperties DEF RowsBounded
<1>8. RequestsOwn /\ SnapshotsHold
  BY <1>3 DEF RequestsOwn, RequestOwns, SnapshotsHold, SnapshotHolds
<1>9. SchedulersOwn /\ HandlersOwn /\ MailsTrue
  BY <1>3 DEF SchedulersOwn, SchedulerOwns, HandlersOwn, HandlerOwns, MailsTrue, MailTrue
<1>10. Unrecorded
  BY <1>2 DEF Unrecorded
<1>11. OnePending
  BY <1>1, <1>4 DEF OnePending, Pending, Fits
<1> QED
  BY <1>5, <1>6, <1>7, <1>8, <1>9, <1>10, <1>11 DEF IInv, Typed

\* Every step keeps the invariant.
LEMMA NextKeepsIInv ==
    ASSUME IInv, [Next]_vars
    PROVE  IInv'
<1>1. CASE Tick
  <2>1. clock' \in 0 .. MaxClock
    BY <1>1 DEF Tick, Sized, IInv, Typed, RowsTyped
  <2> QED
    BY <1>1, <2>1, TickKeepsIInv DEF Tick
<1>2. CASE UNCHANGED vars
  <2>1. clock' \in 0 .. MaxClock
    BY <1>2 DEF vars, IInv, Typed, RowsTyped
  <2> QED
    BY <1>2, <2>1, TickKeepsIInv DEF vars
<1>3. ASSUME NEW c \in Requests, RequestStep(c)
      PROVE  IInv'
  <2>1. CASE Begin(c)
    BY <2>1, BeginKeepsIInv
  <2>2. CASE LockOrganization(c)
    BY <2>2, LockOrganizationKeepsIInv
  <2>3. CASE LockBooking(c)
    BY <2>3, LockBookingKeepsIInv
  <2>4. CASE LockReminder(c)
    BY <2>4, LockReminderKeepsIInv
  <2>5. CASE Commit(c)
    BY <2>5, SuspensionKeepsIInv, OperationKeepsIInv
  <2> QED
    BY <1>3, <2>1, <2>2, <2>3, <2>4, <2>5 DEF RequestStep
<1>4. ASSUME NEW c \in Requests, NEW k \in Kinds, NEW start \in Starts, Submit(c, k, start)
      PROVE  IInv'
  BY <1>4, SubmitKeepsIInv
<1>5. ASSUME NEW s \in Schedulers, SchedulerStep(s)
      PROVE  IInv'
  <2>1. CASE \E i \in DOMAIN reminders : Select(s, i)
    BY <2>1, SelectKeepsIInv
  <2>2. CASE LockDue(s)
    BY <2>2, LockDueKeepsIInv
  <2>3. CASE Dispatch(s)
    BY <2>3, DispatchKeepsIInv
  <2> QED
    BY <1>5, <2>1, <2>2, <2>3 DEF SchedulerStep
<1>6. ASSUME NEW h \in Handlers, HandlerStep(h)
      PROVE  IInv'
  <2>1. CASE \E i \in DOMAIN event : Receive(h, i)
    BY <2>1, ReceiveKeepsIInv
  <2>2. CASE LockNext(h)
    BY <2>2, LockNextKeepsIInv
  <2>3. CASE Decide(h)
    <3>1. CASE Deliverable(Handled(h))
      BY <2>3, <3>1, SendingKeepsIInv
    <3>2. CASE ~Deliverable(Handled(h))
      <4>1. at[h] # "waiting" /\ Finish(h, "skipped")
        BY <2>3, <3>2 DEF Decide
      <4> QED
        BY <4>1, FinishKeepsIInv
    <3> QED
      BY <3>1, <3>2
  <2>4. CASE Sent(h)
    <3>1. at[h] # "waiting" /\ Finish(h, "sent")
      BY <2>4 DEF Sent
    <3> QED
      BY <3>1, FinishKeepsIInv
  <2>5. CASE ProviderFails(h)
    <3>1. at[h] # "waiting" /\ HandlerFails(h)
      BY <2>5 DEF ProviderFails
    <3> QED
      BY <3>1, FailKeepsIInv
  <2> QED
    BY <1>6, <2>1, <2>2, <2>3, <2>4, <2>5 DEF HandlerStep
<1>7. ASSUME NEW a \in Requests \cup Handlers, DeadlockVictim(a)
      PROVE  IInv'
  <2>1. at[a] \in {"organization", "booking", "reminder"}
    BY <1>7, VictimWaits DEF DeadlockVictim
  <2>2. CASE a \in Requests
    <3>1. Abort(a) /\ at[a] \notin {"idle", "answered"}
      BY <1>7, <2>1, <2>2 DEF DeadlockVictim
    <3> QED
      BY <2>2, <3>1, AbortKeepsIInv
  <2>3. CASE a \notin Requests
    <3>1. HandlerFails(a) /\ at[a] # "waiting" /\ a \in Handlers
      BY <1>7, <2>1, <2>3 DEF DeadlockVictim
    <3> QED
      BY <3>1, FailKeepsIInv
  <2> QED
    BY <2>2, <2>3
<1> QED
  BY <1>1, <1>2, <1>3, <1>4, <1>5, <1>6, <1>7 DEF Next

\* What each writer owns and sees holds in every state.
THEOREM Invariance == Spec => []IInv
<1>1. Init => IInv
  BY InitIInv
<1>2. IInv /\ [Next]_vars => IInv'
  BY NextKeepsIInv
<1> QED
  BY <1>1, <1>2, PTL DEF Spec

-----------------------------------------------------------------------------
(* The properties.                                                         *)

\* However requests, schedulers and handlers meet: one reminder of a booking is
\* pending at most and is about the booking as it is, a reminder gets one event
\* at most, and locks and rows keep their shapes.
THEOREM RowsStayConsistent == Spec => []RowsConsistent
<1>1. IInv => RowsConsistent
  <2> SUFFICES ASSUME IInv PROVE RowsConsistent
    OBVIOUS
  <2>1. TypeOK
    <3>1. Len(reminders) <= Cardinality(Requests) + 1
      BY ReminderRange DEF IInv, Typed
    <3>2. \A i \in DOMAIN event :
             /\ event[i].state \in {"queued", "received", "dead"}
             /\ event[i].attempts \in 0 .. MaxAttempts
             /\ event[i].state = "dead" <=> event[i].attempts = MaxAttempts
      BY DEF IInv, Typed, RowsTyped, Event
    <3>3. \A c \in Requests : at[c] \in RequestAt /\ request[c].attempt \in 1 .. MaxSerialization
      BY RequestsTyped DEF RequestRecord
    <3> QED
      BY <3>1, <3>2, <3>3
      DEF IInv, Typed, RowsTyped, ActorsTyped, TypeOK, BookingRecord, Resting
  <2>2. Cardinality(Pending(reminders)) <= 1
    <3>1. CASE Pending(reminders) = {}
      BY <3>1, FS_EmptySet
    <3>2. CASE Pending(reminders) # {}
      <4>1. PICK i : Pending(reminders) = {i}
        BY <3>2 DEF IInv, OnePending
      <4> QED
        BY <4>1, FS_Singleton
    <3> QED
      BY <3>1, <3>2
  <2>3. PendingFits
    BY <2>2 DEF PendingFits, IInv, OnePending
  <2>4. OneEventPerReminder
    BY DEF OneEventPerReminder, IInv, Typed, RowsTyped, Unrecorded
  <2> QED
    BY <2>1, <2>3, <2>4 DEF RowsConsistent
<1> QED
  BY <1>1, Invariance, PTL

\* While a handler calls the provider, its reminder is due for the booking as it
\* is committed and the organization is open: nobody cancels, moves or suspends
\* between its look and its mail.
THEOREM MailsAreSentWhileTrue == Spec => []SentWhileTrue
<1>1. IInv => SentWhileTrue
  <2> SUFFICES ASSUME IInv, NEW h \in Handlers, at[h] = "sending"
               PROVE  Fits(Handled(h)) /\ open /\ reminders[Handled(h)].status = "dispatched"
    BY DEF SentWhileTrue
  <2>1. Handles(h, Handled(h)) /\ Handled(h) \in DOMAIN event
    BY HandledIs DEF Handles
  <2> QED
    BY <2>1 DEF IInv, MailsTrue, MailTrue
<1> QED
  BY <1>1, Invariance, PTL

\* Only a dispatch records an event.
LEMMA OnlyDispatchRecords ==
    ASSUME Next, recorded' # recorded
    PROVE  \E s \in Schedulers : Dispatch(s)
<1>1. CASE Tick
  BY <1>1 DEF Tick
<1>2. ASSUME NEW c \in Requests, RequestStep(c)
      PROVE  FALSE
  BY <1>2 DEF RequestStep, Begin, LockOrganization, LockBooking, LockReminder, Commit, Lock,
              Answer, Abort
<1>3. ASSUME NEW c \in Requests, NEW k \in Kinds, NEW start \in Starts, Submit(c, k, start)
      PROVE  FALSE
  BY <1>3 DEF Submit
<1>4. ASSUME NEW s \in Schedulers, SchedulerStep(s)
      PROVE  Dispatch(s)
  BY <1>4 DEF SchedulerStep, Select, LockDue
<1>5. ASSUME NEW h \in Handlers, HandlerStep(h)
      PROVE  FALSE
  BY <1>5 DEF HandlerStep, Receive, LockNext, Decide, Sent, ProviderFails, Finish, HandlerFails
<1>6. ASSUME NEW a \in Requests \cup Handlers, DeadlockVictim(a)
      PROVE  FALSE
  BY <1>6 DEF DeadlockVictim, Abort, HandlerFails
<1> QED
  BY <1>1, <1>2, <1>3, <1>4, <1>5, <1>6 DEF Next

\* A scheduler reads the booking from a snapshot and locks the reminder alone,
\* and yet the reminder it records an event for fits the booking as it is then.
THEOREM DispatchesFit == Spec => DispatchFits
<1>1. IInv /\ [Next]_vars => [FittingDispatch]_vars
  <2> SUFFICES ASSUME IInv, Next, NEW i \in DOMAIN recorded, recorded'[i] # recorded[i]
               PROVE  Fits(i)
    BY DEF FittingDispatch
  <2>1. PICK s \in Schedulers : Dispatch(s)
    BY OnlyDispatchRecords
  <2>2. PICK r : r = view[s].reminder
    OBVIOUS
  <2>3. /\ r \in Pending(reminders)
        /\ recorded' = recorded \/ recorded' = [recorded EXCEPT ![r] = @ + 1]
    BY <2>1, <2>2, DispatchFacts
  <2>4. i = r
    BY <2>3
  <2> QED
    BY <2>3, <2>4 DEF IInv, OnePending
<1> QED
  BY <1>1, Invariance, PTL DEF Spec, DispatchFits
=============================================================================
