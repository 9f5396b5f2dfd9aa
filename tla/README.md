# Schedlane in TLA+

A model of Schedlane: what its API, its worker and its web pages promise when
requests race, transactions are retried, answers come late, and connections and
processes fail. The specifications are translated from the source;
`PROJECT.json` maps each definition to its lines.

## 1. The system

Schedlane is an appointment system for organizations. Three programs share
PostgreSQL and RabbitMQ:

* `apps/web`: a React client of the API. It decides nothing for others, and has
  to keep what a visitor or manager chose apart from what the server says.
* `apps/api`: a Fastify server. A request runs one operation, nearly always one
  PostgreSQL transaction. Booking writes are `SERIALIZABLE` and retried, the
  others `READ COMMITTED` with row locks.
* `apps/worker`: one process with five loops: the reminder scheduler, the
  outbox dispatcher, and a RabbitMQ consumer each for booking,
  organization-request and publication events. Several workers may run.

### Components

| Component | State | Operations | Speaks to | What makes it correct |
|---|---|---|---|---|
| Bookings (`modules/bookings`) | `booking` | create (public, manual), cancel (member, guest), mark and undo no-show, reschedule, edit guest contact | organization (row lock), availability (read in the same transaction), reminders, outbox | no overlap on a resource; closed bookings stay closed; the answer tells what happened |
| Booking retries (`persistence/`, `guest-management-capability.ts`) | loop counters, reference, token | retry on 40001/40P01, on a taken reference, on a taken token | PostgreSQL | applied at most once; ends |
| Reminders (`application/reminders.ts`, worker `bookings/reminders`, `bookings/email`) | `booking_reminder` | sync, cancel, dispatch, skip, send | bookings, organization, outbox | at most one pending, always current; none lost, none doubled, none stuck; true while it is mailed |
| Outbox and messaging (worker `outbox/`, `messaging/`) | `outbox_event`, queues, `consumer_receipt` | publish a batch, mark it, consume, retry, dead-letter | all writers, RabbitMQ, e-mail provider | at least once; receipts make effects single; bounded retries |
| Availability (`modules/availability`) | weekly hours, date overrides, time blocks, settings | replace or clear each; resolve schedules, slots, booking window, next date | bookings | offered starts fit working time, notice, horizon, occupancy, on days the clocks change too |
| Organization lifecycle (`modules/organizations`) | archived, suspended, paused, published, two audit trails | archive, restore, suspend, unsuspend, pause, request, decide and withdraw publication | everyone, through the write policy | nothing is written for a closed organization; published implies it was ready |
| Requests and provisioning | organization requests, organizations, slugs | submit, approve, reject, provision | organization, membership, outbox | one organization per approved request, each decision told once |
| Memberships, invitations | memberships, invitations, links to resources | invite, deliver, revoke, accept, change role, remove, leave, link, unlink | resources, e-mail | an organization keeps an owner; authority holds at the commit; an invitation is used once |
| Resources, services, share links | rows, assignments, prices, links | create, update, (de)activate, assign, delete, share, revoke | bookings, availability, publication | no booking loses its resource or service; what is offered is accepted |
| Listings | none | pages with a cursor | platform pages | no row twice, none that was there skipped |
| Booking page, manage page | selection, caches, requests under way | choose, search, confirm, repair; save, cancel | public API | a selected time was offered for what is selected; the page shows the booking of its link |
| Platform desk, schedule editors | dialogs, drafts, caches | suspend, publish, review; edit, save, leave | management API | a text and an answer stay with what they were for; unsaved work is asked about (an error of the hours breaks it) |
| HTTP, authentication, e-mail texts, other pages, fixtures | none that matters here | | | |

### What is hard

* Racing writers. A reschedule and an undone no-show never look at the other
  bookings, a public booking reads the organization without a lock, a review
  judges a catalogue that changes. What protects them is an exclusion
  constraint, a foreign key, a lock taken first, not a line of TypeScript.
* Retries. Three nested loops repeat a transaction; a deadlock in the exclusion
  check is ordinary, and its loser has to be told the right thing.
* Lock orders. Memberships, organization, booking and reminders are locked by
  operations that start from different ends.
* Time. `now` is taken once per request and grows old in lock waits while the
  scheduler uses its own; the clocks of a time zone change.
* Two systems, one event. The broker, the database and the e-mail provider fail
  independently between any two steps.
* Late answers. A page asks, the visitor moves on, the answer arrives.
* Configuration of two halves of one process that have to agree.

`PROJECT.json` lists the hazards, each with the line where it bites and the
properties that guard it. Not listed are those for which the code promises
nothing a property could state:

* an event type without a binding is returned and fails its whole batch
  (`rabbitmq-publisher.ts:106`; every type the code writes is bound);
* retried deliveries of one booking overtake each other, so the mail about a
  cancellation may come before the one about the creation
  (`reliable-consumer.ts:102`);
* the membership role is read without a lock before a booking write, so a
  demotion may commit in between (`lifecycle.ts:115`);
* a delivery whose settlement fails is left to the broker
  (`reliable-consumer.ts:221`), and the answer to a booking may be lost.

## 2. Modules

| Module | Stands for |
|---|---|
| `Calendar` | the promise: slots of a resource are disjoint, one booking changes per step |
| `Bookings` | all booking operations, the reminders and the recorded events, one atomic action per operation; implements `Calendar` |
| `BookingTxn` | the same writes as racing serializable attempts with retries; implements `Calendar` |
| `ReminderRows` | the row locks of reminders: requests, schedulers and the e-mail handler, statement by statement |
| `OutboxDelivery` | an event's way from the outbox to a receipt, with faults |
| `Team` | memberships, invitations and links to resources, with the locks on membership rows |
| `Catalog` | services, resources, assignments, prices and share links, and the bookings that rest on them |
| `PublicationFlow` | the promise: public only by an approved request, decided once |
| `Publication` | extends `Catalog`: publication, pausing, archiving, suspension; implements `PublicationFlow` |
| `Slots` | operators: from layers of hours and blocks to offered starts |
| `Schedule` | extends `Slots`: the saves, and a booking decided on an older snapshot |
| `Onboarding` | requests for organizations, approval, rejection, provisioning |
| `Slug` | operators: slugs of a name |
| `Paging` | the platform's listings while rows come and go |
| `BookingPage`, `ManagePage` | the two pages of visitors |
| `PlatformDesk`, `Drafts` | the platform's dialogs; the schedule editors |
| `BookingsProofs`, `BookingTxnProofs`, `ReminderRowsProofs`, `OutboxDeliveryProofs`, `TeamProofs` | the theorems about the modules of these names |
| `PublicationProofs` | the theorems about `Catalog` and `Publication` |
| `SetupProofs` | the theorems about `Slots`, `Schedule`, `Onboarding`, `Paging` and `Slug` |
| `PagesProofs` | the theorems about `BookingPage`, `ManagePage`, `PlatformDesk` and `Drafts` |
| `MC...` | instances for TLC |

A definition `Name_Fault` next to `Name` is the same definition with a plausible
programming fault. No action uses it; it replaces `Name` to show that a property
notices. `PROJECT.json` ("mutants") says which property notices which. A property
that is a conjunction has one mutant there; the other faults beside it
show, put in the same way, what its other parts notice.

### Calendar

`held` maps a booking to the slot it holds. `Hold(b)` takes a slot or exchanges
the one `b` holds, if it meets no other; `Release(b)` gives it up. This is the
row set of `booking_confirmed_resource_occupancy_excl`, and nothing else.

### Bookings

| Variable | Code |
|---|---|
| `clock` | wall time; `OpTimes` are the values of `now` an operation may carry, up to `MaxLag` old |
| `org` | `organization.archived_at`, `suspended_at` |
| `bookings` | rows of `booking`; a row keeps `start`, `occupiedUntil`, the snapshotted `duration`, `buffer`, `cutoff`, and whether it has an e-mail and a management token |
| `reminders` | rows of `booking_reminder`, per booking, in insertion order |
| `outbox` | the booking's `booking.created`, `.rescheduled`, `.cancelled` events |
| `reminderDue` | `booking.reminder_due` events |

| Action | Code |
|---|---|
| `CreatePublicBooking`, `CreateManualBooking` | `createPublicBooking`, `createManualBooking` with `insertConfirmedBookingInTransaction` |
| `CancelManagementBooking`, `CancelGuestManagedBooking` | functions of these names |
| `MarkNoShow`, `RevertNoShow` | `markManagementBookingNoShow`, `revertManagementBookingNoShow` |
| `RescheduleBooking` | `rescheduleInTransaction` |
| `UpdateGuestContact` | `updateGuestBookingContactInTransaction` |
| `DispatchDueReminders` | `dispatchDueBookingReminderBatch` |
| `ProcessReminderEmail` | `processReminderEmail` |
| `OrganizationChanges` | archive, restore, suspend, unsuspend, as far as bookings see them |

An operation is one action because it is one serializable transaction;
`BookingTxn` and `ReminderRows` open it. Configuration is edited independently
and no property here rests on it, so an operation may ask for every start in
`Starts` on every resource: the model has more behaviours than the program, and
what holds here holds there. `Catalog` and `Schedule` have the configuration.
`SKIP LOCKED` is the choice of any subset of the due rows as a batch.

### BookingTxn

A request (`request`, `pc`) runs attempts. An attempt takes its snapshot at
`Begin` (`tx[c].snapshot`), and `tx[c].stale`, `orgStale` collect the rows
committed since. Control follows the statements:

```
public:  starting -> writing -> checking -> referencing -> committing
others:  starting -> locking -> writing -> checking -> committing
```

* `locking`: `requireWritableOrganization`, `SELECT ... FOR UPDATE`. A row
  changed after the snapshot raises 40001, as does the booking's own row.
* `writing`: the insert or update; a fresh reference or token may be taken.
* `checking`: the exclusion constraint. A committed row in the way is 23P01;
  an uncommitted one is waited for, until its transaction ends or the deadlock
  detector chooses a victim (`DeadlockVictim`).
* `referencing`: the foreign key of a public insert takes `FOR KEY SHARE` on the
  organization row, which waits for the `FOR UPDATE` of the others. When the row
  was archived or suspended after the snapshot the lock fails with 40001,
  although those updates change no key column: they lock the row `FOR UPDATE`
  first (`lifecycle.ts`, `suspension.ts`), and the new row version keeps the
  stronger lock, which conflicts with a key share. `ClosedOrganizationKeepsBookings`
  rests on this rule of PostgreSQL for public bookings, and `Catalog` uses
  it for the rows of resource and service.
* `failed`: `HandleFailure` is the retry loops with their three counters and
  the mapping of errors to answers.

PostgreSQL is external. What is assumed of it is what the guards say; that it
finds every write skew is not assumed (`SerializationFailure` may always
happen to an attempt that met another, and never has to). Requests refused for
their role, for configuration or for their time write nothing and are left out.

### ReminderRows

One organization, one booking, its reminders. Requests lock organization,
booking, reminder; the e-mail handler (`HandlerStep`) takes all three in one statement and keeps them
while it calls the provider; a scheduler locks only reminders and reads the rest
from its snapshot. `holder` says who holds a row, `view` what was read before.
`DeadlockVictim` ends one of a circle with 40P01. The worker's e-mail
configuration is taken as present, and the serializable transactions' false
alarms, which only repeat an attempt, are left out.

### OutboxDelivery

| Variable | Code |
|---|---|
| `recorded`, `published` | committed rows of `outbox_event`, those with `published_at` |
| `dispatcher[w]` | the dispatcher loop of worker `w`: connection, the batch its open transaction holds, the part of it the broker has not taken |
| `ready`, `delayed`, `dead` | the consumer queue, its retry queue, its dead-letter queue |
| `retryTtl` | `x-message-ttl` with which the retry queue exists |
| `consumer`, `delivery[w]` | the consumer's channel and the deliveries that occupy its prefetch slots |
| `receipts` | rows of `consumer_receipt` |
| `mails` | calls of the e-mail provider |

`Dispatch` is `runOutboxDispatcher` with `dispatchOutboxBatch` and
`publishBatch`; `Handle` is `handleDelivery` with `processWithIdempotency`
inside; `Receive` is `runReliableConsumer`. `DispatcherFails`,
`ConsumerDisconnects`, `RepublishRefused` and `Crash` can come between any two
steps and share the budget `MaxFaults`; a handler failing or a message refused
are ordinary outcomes and not counted. A handler that outlives its channel goes
on (`attached = FALSE`), as the code lets it. One queue stands for the three.
Queues are bags: retries and requeueing reorder messages anyway.

### Team

`member`, `resource`, `invitation` are the rows, `op` what a request has read and
locked. An operation locks the actor's membership row or, in the order of id, all
rows (`LockMembership`, one row per step); from the organization's lock on nothing
else of the organization runs, so the rest is one action (`Finish`). A message is
delivered after the commit by the route; a failed delivery revokes the invitation
in a transaction of its own. A new invitation that is refused because another one
promises the resource has by then revoked the expired one to its address, and that
is committed (`RefuseInvitation`). A user stands for the account and its verified
address.

### Catalog and Publication

A configuration change takes `locker` (`lockOrganization...`), keeps in `seen`
what it read, and writes. A booking (`attempt`) keeps the snapshot it decided on;
its insert fails, and starts over, when a row its foreign keys lock was updated
meanwhile. `OrganizationLockable` and `RevokeBookingShareLink` say who waits for
whom. `Publication` adds the columns of the organization, requests and reviews:
a review locks the request row, judges readiness under the organization's lock,
and publishes; a rejection never locks the organization. Both outbox and audit
rows are `events`.

### Slots and Schedule

`Slots` is pure: lists of intervals are normalized, layers are combined
(organization week, organization date, resource week, resource date), blocks and
bookings subtracted, starts fitted to the interval, notice, horizon and buffer,
and the next free date searched. Local minutes become instants through `Shift`,
which has the skipped and the repeated hour. On days when the clocks change the
code fits starts by the wall clock, and that is what the properties say of those
days: a start is a minute that exists, and its occupancy in instants is free.
`Schedule` adds the saves (one step each: they lock the organization) and a
booking that decides on a snapshot. A sorted list is written by places: an interval
stands behind those ahead of it (`Ahead`), the rows of a query come in the order of
their starts (`InOrder`). The loops of the code that carry something along (the walk
of one window along the blocks, the search from date to date) are recursive
functions, `Walk` and `FirstPublicDate`.

### Onboarding, Paging, Slug

`Onboarding` has the locks of an applicant's row, a request's row and a slug
(whose unique index makes an insert wait). `Paging` gives a row the start of its
transaction as its time of creation, so that it can appear behind a cursor; the
order of a page is given by places (`Newest`: a row has as many before it as its place
says). `Slug` has three characters and scaled-down lengths; the expression that turns
runs of other characters into one dash is a recursive function over the prefixes of
the name (`Collapsed`).

### The pages

The server of each page is reduced to its answers; any answer may be late or
lost. In `BookingPage` React effects run with the event that causes them, a cached
answer may be shown with or without asking again, and the removal of unused
cached answers is left out. A visitor may go on while a repair waits for the new
offers, and have a second confirmation refused: the first repair then waits for the
second fetch, and both go over its answer, each with the selection it was confirmed
with (`repairs`). That a cancelled fetch waits for the one that replaced it is the
query library's, which says nothing of the order, so either repair may be the last.
`ManagePage` caches under one key for all links, as
the code does. `Drafts` and `ManagePage` take what the query library does
(refetching, joining a fetch that is out, keeping data after an error) as
external. A failed fetch of the organization's hours hides data that is still there
(`failed` in `cache`): the schedule page looks at the error first, so both editors of
hours are unmounted, and new ones open when a fetch succeeds. The form of the rules is
hidden the same way, but its component and its draft stay; the errors of exceptions and
of a resource's hours are shown beside the editors. `PlatformDesk` follows a text: what it was written for, and whose
mail it ended in. The page of organization requests has the dialogs of the
directory in the same shape and is left out.

## 3. Properties and runs

A run may take several parts that share no state, or several slices of one state
space. The choice (`part`, `slice`) is made in the initial state and no step
changes it; a slice is a bound on states, so it only forgets behaviours. The
variables of the parts at rest stay at `None` or at an initial value. No property relates two
parts, so each part is checked as if alone.

| Run | Module, parts | Properties |
|---|---|---|
| `bookings` | `MCBookings`: `calendar` (2 bookings without reminders), `reminders` (1 booking, 3 reminders) | `TypeOK`, `PendingReminderCurrent`, `NoReminderLost`, `OutboxMirrorsBookings`, `ImplementsCalendar`, `NoSecondReminder` |
| `transactions` | `MCBookingTxn`: `race`, `retries`, `calendar` | `AnswersConsistent`, `ConflictHasWinner`, `ImplementsCalendar`, `ClosedOrganizationKeepsBookings`, `CancellationIsFinal` |
| `worker` | `MCWorker`: `mails`, `events`, `snapshots` (`ReminderRows`), `duplicates`, `batches` (`OutboxDelivery`) | `RowsConsistent`, `SentWhileTrue`, `DispatchFits`, `OutboxConsistent`, `MailsOneAtATime` |
| `endings` | `MCEndings`: `reminders`, `writes`, `outbox`, `rows`, `members`, `requests` | liveness: `RemindersSettle`, `RequestsAreAnswered`, `EventsSettle`, `WaitsEnd` |
| `team` | `MCTeam`: `owners`, `links`, `invitations`, `promises` | `TeamConsistent`, `AlwaysOwned`, `AuthorizedAtCommit`, `SettledInvitationsFinal` |
| `catalog` | `MCCatalog`: `prices`, `bookings`, `offers` (`Catalog`), `reviews`, `visitors` (`Publication`) | `CatalogConsistent`, `OffersConsistent`, `ReviewsConsistent`, `PublishedWhenReady`, `BookedWhileOffered`, `ImplementsPublicationFlow` |
| `setup` | `MCSetup`: `hours`, `dates` (`Schedule`), `requests` (`Onboarding`), `listings` (`Paging`), `names` (`Slug`), `dialogs` (`PlatformDesk`) | `ScheduleConsistent`, `OnboardingConsistent`, `DirectoryConsistent`, `DialogsConsistent` |
| `pages` | `MCPages`: `selection`, `search` (`BookingPage`), `links` (`ManagePage`), `hours`, `organization dates`, `resource dates`, `rules` (`Drafts`) | `SelectionConsistent`, `PagesConsistent`, `RepairLeadsOn`, `CancellationStaysShown`, `OnlyErrorsLoseDrafts` |
| `outbox_delay_mismatch`, `desk_notes`, `slug_candidates`, `drafts_after_error` | `MCOutboxDelivery`, `MCPlatformDesk`, `MCSlug`, `MCDrafts` | `AtLeastOnce`, `InternalNotesStayInternal`, `CandidatesAccepted`, `UnsavedIsAskedAbout` fail: see Findings |

The properties called `...Consistent` are conjunctions of named invariants, which
their modules define and explain:

| Property | Parts |
|---|---|
| `AnswersConsistent` | `TypeOK`, `AppliedAsAnswered` |
| `OutboxConsistent` | `TypeOK`, `BatchUnpublished`, `NoEventLost` |
| `RowsConsistent` | `TypeOK`, `PendingFits`, `OneEventPerReminder` |
| `TeamConsistent` | `TypeOK`, `LinksFollowMembers`, `OneOpenInvitation`, `PromisedResourceUnlinked`, `PreviewAnswersLikeAcceptance`, `ListsMatchRights` |
| `CatalogConsistent` | `CatalogTypeOK`, `PricesWhenRequired`, `OrdersDistinct`, `HistoryKept` |
| `OffersConsistent` (`Catalog`) | `OffersMatchBooking`, `LinksLeadSomewhere` |
| `ReviewsConsistent` | `TypeOK`, `OnePendingRequest`, `OwnerSeesStage`, `EventsReplayPublication`, `SuspensionsAlternate` |
| `ScheduleConsistent` | `ScheduleTypeOK`, `ShownAsSaved`, `IntervalsApart`, `WindowsAreOpenMinutes`; `OfferedStartsAreFree`, `NextDateIsFirst` |
| `OnboardingConsistent` | `TypeOK`, `NeverFails`, `OrganizationsComeFromApprovals`, `EventsTellTheDecision` |
| `DirectoryConsistent` | `PagingTypeOK`, `ListedOnce`, `CursorsFitTheListing`; `FirstSlugAccepted`, `CandidatesDiffer` |
| `SelectionConsistent` | `TypeOK`, `TimeWasOffered` |
| `PagesConsistent` | `ManagePage`: `TypeOK`, `SettledShowsTheLink`; `Drafts`: `TypeOK`, `UntouchedAsStored` (the latter not for exceptions) |
| `DialogsConsistent` | `TypeOK`, `AnswerMeetsItsDialog`, `FeedbackFitsTheRequest` |
| `WaitsEnd` | `RowsAreReleased`, `RequestsEnd`, `TransactionsEnd` |

### The bounds

* Overlap is a relation of two bookings, so two rows show every way to violate
  it; three requests add the third party that makes waits and deadlocks of
  length two and three. Three starts with durations one and a buffer of one
  give touching, buffer-only and full overlaps.
* One booking is enough for reminders: an operation touches only the reminders
  of its booking. Two starts and two resources let it move away and back; a lag
  of one is the smallest that lets an operation fall behind the scheduler, and
  three rows let an old reminder, the current one and one too many coexist.
  `MaxEvents` ends the behaviours; three events are a creation, a move away and
  a move back.
* `RemindersSettle` needs two reminders due at once and a batch that takes one.
* The serialization attempts are the real 3; the limits of taken references and
  tokens are 2 instead of 5, which leaves one repeat and one exhaustion each.
* Two faults in `duplicates` allow a crash of each worker, or a lost channel and
  then a crash while the orphaned handler still runs. `MaxAttempts` 2 gives one
  retry and one exhaustion.
* `ReminderRows`: two requests, two schedulers and one handler on one reminder's
  rows give every pair of lock orders. `mails` has two requests, a scheduler and the
  handler, `events` a request, both schedulers and the handler, `snapshots` two
  requests and both schedulers before a handler has begun; requests are of every kind.
* `Team`: two requests hold at most two of the membership locks, which is what a
  circle needs; a demotion race needs two owners. Three users are needed only
  where an invited address differs from both that act (`promises`, which also invites
  managers, so that an expired invitation to the address meets an open one for the
  resource). `links` invites
  staff only and delivers nothing; in `invitations` one message is on its way.
* `Catalog`: two writers give a race, two bookers a race with a change; three
  services are needed only for orders; `bookings` has one service and one resource,
  since a booking locks one row of each. Two reviewers and two requests let a
  decision meet a new request. `prices`, `bookings` and `offers` move the catalogue
  of a public organization, which is brought there in three strides of several steps
  each (`Prepared`, `Published`, `Emptied`); `reviews` and `visitors` start at the start.
* `Schedule`: a day of 4 or 6 minutes has room for two intervals, a gap and a
  buffer; one date without a change, or three of which one skips and one
  repeats a minute. Four saves are one per layer; the dates take two.
* `BookingPage`: one change around the visitor and two confirmations, the second only
  while the repair of the first waits: a repair that is over leaves nothing behind, and
  two that wait together are what one alone does not show. `RepairLeadsOn` speaks of
  the visitor who left her selection alone, so of two repairs of one selection; two of
  different selections may leave a resource of the older one selected, which the
  server then refuses. `selection` has two services and two resources on one
  day; `search` has two days, each service at the same resource, and no confirmation,
  since a repair does not touch the search that is out.
  `ManagePage` has two links, two visits, two requests and one change around.
* `Drafts`: `hours` has the editors of the organization and of two resources on one
  screen, two changes of place and one save. The two editors of exceptions are taken
  one at a time: the organization's on two dates with three changes of place and two
  saves, the resources' on two resources and two dates with two changes and one save.
  `rules` has two contents and two saves. `drafts_after_error` needs one resource, one
  change of place and no save. `PlatformDesk`: two organizations, one decision, one text at a time, and
  one change by others or one change of the page.
* Symmetry is used over rows, resources, requests and workers where the run
  checks no liveness and nothing orders them (membership locks are ordered, so
  users are not permuted).

Deadlock is checked in the runs of the API and the worker (`Rest`, `OutboxRests`
and `RowsRest` are the idling program). It is not checked where the system may
stop: in `setup` (saves and rows are bounded), in `pages` and `drafts_after_error` (a visitor leaves),
in `endings` (requests are answered and nothing more comes), and in
`outbox_delay_mismatch` (without a connection and without faults to spend the
system really stops).

### Fairness

Each module states its own `FairSpec`, or the fair part of its `Spec`;
`MCEndings` repeats them as numbered steps, since only one part runs at a time.

* `Bookings`: time passes, and the scheduler polls (`runBookingReminderScheduler`
  loops until shutdown and survives every error). Users are not fair.
* `BookingTxn`: `Step` of each request; the Node process runs what is ready, and
  PostgreSQL grants free locks and resolves deadlocks after `deadlock_timeout`.
  Weak fairness is enough, since two requests cannot starve each other past
  their retry counters.
* `OutboxDelivery`: the loops of a worker run on, a crashed process is restarted,
  handlers end, the TTL of the retry queue expires. Faults are finite.
* `ReminderRows`: requests, schedulers and handlers run on; deadlocks are resolved.
* `Team`, `Onboarding`: strong fairness of taking a lock, because PostgreSQL
  queues the waiters of a row and a slug; the rest of a transaction is weakly
  fair. There is no step that resolves a deadlock: that none arises is what is
  shown.
* The pages have no fairness and no liveness property: a visitor may leave.

### Findings

`outbox_delay_mismatch`: the dispatcher connects with
`RabbitMqOutboxPublisher.connect(config.RABBITMQ_URL)` and so declares the retry
queues with the default TTL of 5000 ms; the consumers declare them with
`EVENT_RETRY_DELAY_MS`. `config.ts` accepts every integer from 100. With another
value than 5000 the broker refuses whichever declaration comes second
(PRECONDITION_FAILED), that side reconnects for ever, and no event reaches a
consumer, although "the delivery model is explicitly at least once".

`slug_candidates`: a slug's base is cut to make room for the number and the dash
the cut may leave is not trimmed (`provisioning.ts:32`), so the candidate can hold
two dashes in a row, which `organization_slug_format` refuses. Manual
provisioning then fails instead of trying the next candidate. The first slug is
always well formed (`FirstSlugAccepted`).

`desk_notes`: the Cancel button of the dialog that suspends and unsuspends leaves
the text in place, so the internal note of one decision ("Stored in the Platform
audit history and not emailed.") is the prefilled customer-facing reason of the
next.

`drafts_after_error`: a manager types weekly hours, the organization's hours are
fetched again (after a reconnect, or after a save), and the fetch fails.
`schedule-page.tsx:160` tests `orgHoursQuery.isError` before `orgHoursQuery.data`, so
the message takes the place of both editors of hours although their data is there, and
the drafts, which are state of the editors, are gone. The dialog "You have changes that
haven’t been saved. If you leave now, those changes will be lost." never asked. No
other step loses a draft: `OnlyErrorsLoseDrafts`.

Observations without a run, where the code and a text differ and the difference
is no step of a model:

* `setResourceServiceAssignment` deletes an assignment without looking at
  bookings, although `resource-assignment.ts:101` says "When Bookings exist, check
  future confirmed dependencies here before deleting.". Nothing is stated about
  the assignments of upcoming bookings.
* Hours saved after a booking's snapshot do not stop its commit
  (`create-public-booking.ts:116`), although `README.md:37` of the repository says
  "a slot must still be valid when the booking is committed". A changed
  booking rule does stop it, for it updates the organization.
* Editors of date exceptions open a date that has hours of its own as a dirty
  draft with an empty list (`organization-date-override.tsx:53`,
  `resource-date-override.tsx:89`), so `UntouchedAsStored` is not stated of them.

## 4. Proofs

Each module has one inductive invariant and the theorem that it is one,
`Spec => []IInv`; the other theorems follow from it. It is called `IInv`
(`Invariance`), but `CatalogInv` for the part of `Publication` that is the catalog,
and in `PagesProofs` `IInv` (`PageInvariance`), `LinkInv`, `DeskInv` and `TabsInv`.
The theorems hold for every value of the constants: any number of bookings,
requests, workers, members, rows, administrators, services, links and editors.
`PagesProofs` extends `BookingPage` and instantiates the other three pages as
`Manage`, `Desk` and `Tabs`.

| Module | Theorem | Says of every behaviour |
|---|---|---|
| `BookingsProofs` | `TypeCorrect` | `TypeOK` |
| | `NoDoubleBooking` | `Bookings!NoOverlap` |
| | `OccupancyIsSnapshotted` | `OccupancyFollowsSnapshot` |
| | `PendingRemindersAreCurrent` | `PendingReminderCurrent` |
| | `RemindersAreNotLost` | `NoReminderLost` |
| | `EventsMirrorBookings` | `OutboxMirrorsBookings` |
| | `GuestIsRemindedOnce` | `NoSecondReminder` |
| | `BookingsKeepTheCalendar` | `ImplementsCalendar` |
| `BookingTxnProofs` | `AnswersStayConsistent` | `AnswersConsistent` |
| | `ConflictsHaveWinners` | `ConflictHasWinner` |
| | `ClosedOrganizationIsQuiet` | `ClosedOrganizationKeepsBookings` |
| | `CancellationsAreFinal` | `CancellationIsFinal` |
| | `NoDoubleBooking` | `BookingTxn!NoOverlap` |
| | `RacesKeepTheCalendar` | `ImplementsCalendar` |
| `ReminderRowsProofs` | `RowsStayConsistent` | `RowsConsistent` |
| | `MailsAreSentWhileTrue` | `SentWhileTrue` |
| | `DispatchesFit` | `DispatchFits` |
| `OutboxDeliveryProofs` | `OutboxStaysConsistent` | `OutboxDelivery!OutboxConsistent` |
| | `MailsGoOneAtATime` | `OutboxDelivery!MailsOneAtATime` |
| `TeamProofs` | `OrganizationStaysOwned` | `AlwaysOwned` |
| | `TeamStaysConsistent` | `TeamConsistent` |
| | `InvitationsSettleOnce` | `SettledInvitationsFinal` |
| | `AuthorityHoldsAtCommit` | `AuthorizedAtCommit` |
| `PublicationProofs` | `CatalogStaysConsistent` | `CatalogConsistent` |
| | `OffersStayConsistent` | `OffersConsistent` |
| | `LivingCatalogStaysConsistent` | `CatalogConsistent`, while the organization lives |
| | `ReviewsStayConsistent` | `ReviewsConsistent` |
| | `OnlyReadyIsPublished` | `PublishedWhenReady` |
| | `OnlyOfferedIsBooked` | `BookedWhileOffered` |
| | `ImplementsFlow` | `ImplementsPublicationFlow` |
| `SetupProofs` | `OnboardingStaysConsistent` | `OnboardingConsistent` |
| | `ScheduleTypes` | `Schedule!ScheduleTypeOK` |
| | `SavedIsShown` | `Schedule!ShownAsSaved` |
| | `IntervalsStayApart` | `Schedule!IntervalsApart` |
| | `WindowsOpenMinutes` | `Schedule!WindowsAreOpenMinutes` |
| | `OffersAreFree` | `Schedule!OfferedStartsAreFree` |
| | `NextIsFirst` | `Schedule!NextDateIsFirst` |
| | `ListingsStayConsistent` | `Paging!ListingsConsistent` |
| | `FirstSlugsFit` | `Slug!SlugsFit` |
| `PagesProofs` | `SelectionStaysConsistent` | `SelectionConsistent` |
| | `RepairsLeadOn` | `RepairLeadsOn` |
| | `PageKeepsToItsLink` | `ManagePage!LinkConsistent` |
| | `ShownCancellationsStay` | `ManagePage!CancellationStaysShown` |
| | `DialogsStayConsistent` | `PlatformDesk!DialogsConsistent` |
| | `OnlyErrorsDropDrafts` | `Drafts!OnlyErrorsLoseDrafts` |
| | `EditorsStayConsistent` | `Drafts!TypeOK`, and `UntouchedAsStored` but for exceptions |

### The invariants

**Bookings.** `TypeOK`, `NoOverlap` and `OccupancyFollowsSnapshot` carry the
calendar: a creation, a move and an undone no-show establish `NoOverlap` from
`~Conflicts`, every other action leaves the confirmed occupancies or shrinks
them. `RemindersOnTime` (a reminder is due its lead before its start, and one that
was handed over had come due) is the strengthening: what a batch takes is decided
by `due`, what is lost by `start`. An operation with an old `now` sees more
bookings as eligible than the clock does, never fewer; so `NoReminderLost`
survives `MaxLag`. All operations are brought into one shape (`BookingOperation`:
one row, its reminders, at most one event) before anything is proved of them. The
refinement shows that a change of one row is `Hold` or `Release` of one booking or
leaves `Held` as it is. `OutboxMirrorsBookings` is inductive with `IInv` once it is
said of a log (`Tells`) and not of positions.

**BookingTxn.** What is read under a lock stays so: holders of the organization's row
exclude each other and its sharers (`Serialized`), a snapshot is the table but for
the rows noted as stale (`SnapshotsHold`), the decision an attempt made is still
right while it holds the row (`DecisionsHold`), a version that passed the exclusion
check is apart from the rows and from the other checked versions (`ChecksHold`),
and a request takes effect once (`AppliedOnce`). `SomeoneAhead` is what
`ConflictHasWinner` needs: behind a lost attempt there is one that took effect, runs,
or was stopped by something else. The victim of a deadlock is one of a circle, so
another one runs on.

**ReminderRows.** Who owns which row at which statement (`RequestsOwn`,
`SchedulersOwn`, `HandlersOwn`), that no reminder becomes pending behind a snapshot
whose booking nobody wrote (`SnapshotsHold`), that a reminder gets its event when it stops
being pending (`Unrecorded`), and from these `OnePending` and `MailsTrue`.
The scheduler's look is stale, and what makes its event right is the row lock on
the reminder, which each writer of the booking takes before it commits.

**OutboxDelivery.** Batches are of recorded and unpublished rows and share none
(`BatchesLocked`); an event the broker took is in a queue, in the hands of an
attached consumer that has not republished it, or settled (`EventsKept`); deliveries
at work are about different events without a receipt (`HandledOnce`); a delivery has
an attempt left (`AttemptsLeft`).

**Team.** A membership row is locked by one request and is what that request has
read (`RequestsHoldRows`). `AlwaysOwned` follows because whoever gives up or takes
away an owner has all rows locked and has seen another owner.

**Catalog, Publication.** The organization is locked by one change, and what it read
is what there is (`ReadsHold`); a booking's snapshot that is not outdated shows
active rows, and the link it locked is there (`SnapshotsHold`). A review holds a
pending request alone, and one that locked the organization has read how ready it is
(`ReviewsHold`); a snapshot that is not outdated is of a visible organization
(`VisitorsHold`). `ReviewsConsistent` speaks of the last event of a type, by
position: appending one event changes the last of its own type only (`LastAfter`).

**Onboarding.** Locks of applicants, requests and slugs keep apart (`LocksKeepApart`),
a slug that was inserted belongs to one transaction until it commits, a request that
was locked as pending is pending (`ReadsHold`), and the tables and events fit (`Data`).

**Schedule.** The rows of every key are those of the answer to its last save, and that
answer is a list in order of intervals that do not overlap, empty or not as its mode
says (`HoursKept`); blocks of one date keep apart (`BlocksKept`); bookings, and the one
under way, take time (`BookingsKept`). What the properties say beyond that is about the
operators, for every list and every day. A list of intervals that keep apart is sorted by
the number of intervals ahead of each (`PlacesInOrder`), such a list is unique, and so
what is stored is what is shown (`HoursShown`). The walk along the blocks has, at each
block, kept exactly the minutes before its cursor that are free of the blocks so far
(`WalkIs`, `WalkEnds`); hence `Subtracted`: the rest of the windows is their open minutes,
still in order. The search stops at the first date with a free start (`SearchIs`). The
two recursive functions, and `Elapsed`, exist and have their values by an induction over
sets of naturals (`Climbs`, `Recursion`), not over operators.

**Paging.** Every page is behind the cursors of the pages before it (`PagesFollow`): a cursor
has the time and the id of the last row of its page, and a row keeps its time, so what a
later page reads is older, and no row comes twice.
A row that was listed when the first page was read and has stayed is on a page or
behind the last cursor (`NoneSkipped`), hence on a page when there is no further cursor.
Both are said of each listing in the cache and of the load under way. That a page holds
the newest rows in order rests on `Newest`, where the places of distinct rows differ and
are all taken.

**Slug.** The names do not matter to each other, so the theorem is about operators, for
every name and every bound on lengths. Collapsing leaves no two dashes in a row, by the
same induction over naturals; cutting off ends and slicing keep that, and the last cut
follows the slice. Candidates differ because the digits behind the last dash are the
number.

**Booking page.** `Around` says that what is out is well formed and that a repair
waits for a context, `Formed` that a selected time is one of the answer that the
selection shows: every step that changes service, resource or day, a late search and a
repair drop the time. What the page does after a change of the context is
one operator, `Render`; that it keeps `Formed` is proved once for every selection and
every cache, and the handlers are instances. `RepairsLeadOn` adds that `Repaired`
leaves a step open that the new context can fill, however many repairs have waited and
whichever was the last: of confirmations of one selection either all are outdated or
none. Choosing the only element needs
that services and resources are finite.

**Management page.** One cache entry serves all links, so the argument is about whose
answer is where: a fetch and its answer are for the link in the address
(`FetchIsForTheLink`), the requests of a mounted dialog are about the booking on
display (`DialogsAreTheirs`), and what is displayed with nothing out is the link's
(`DisplayIsOfTheLink`). A cancellation cannot be taken back because an answer from
before it is not kept beside it (`AnswerIsNotOlder`): a success cancels the fetch that
is out and asks again, and a cancellation that is shown or answered is in the table.

**Platform desk.** A decision that is still mounted belongs to the open dialog, one
to a dialog (`DecisionsBelong`), and the text in the box of a rejection was written for
the request the dialog is about, from the keystroke to the mail (`TextsFit`).

**Drafts.** An editor on the screen is the one of its place, and if nobody touched it,
it shows the answer the page has (`EditorFits`); a save whose editor is there saves
what that editor holds, so its answer overwrites nothing (`SaveFits`); and a dialog
that asks names every unsaved draft its change would lose, also those typed while it
was open (`AskedAbout`). `OnlyErrorsLoseDrafts` then is a case per action; a failed
fetch takes an editor away only when it is that of the organization's hours
(`FetchFailsKeeps`).

### Assumptions

The named `ASSUME`s of the modules, which TLC evaluates in the runs that extend
them. The theorems have no other hypothesis, except those about modules that are
checked as instances: `NamesApart` and `ConstantsFit`, which `ManagePage`,
`PlatformDesk`, `Drafts` and `OutboxDelivery` define, and `ScheduleFits` of `Schedule`;
`MCPages`, `MCWorker` and `MCSetup` assume them for their instances. Times are naturals, durations and slots
are not empty, limits are positive, `None` is no row. `SizedAssumption` of
`ReminderRows`: requests and schedulers are finite sets, no actor has two parts,
limits are naturals. `NamedAssumption` of `Onboarding`: `None` is no request, slug,
administrator or operation, no request is a slug, candidates are sequences of slugs.
`BookingPage`: services and resources are finite, a service fits some times, the
offers are of its resources (`SizesAssumption`, `OffersAssumption`), and `None` is no
service, resource, set of times or context (`NoneAssumption`). `ConstantsFit` of
`Drafts`: where the hours of a resource are edited those of the organization are on
the screen (`schedule-page.tsx:180`), and the placeholders are no contents.
`ScheduleFits`: the lists that are sent are sequences of integer pairs in any order,
sensible or not, the interval between starts is positive (`0016_add_organization_slot_interval.ts`),
a service takes time, the clock ends within the last date, and `Invalid` is no date, list or
set of minutes. It says nothing of what the clocks do: `Shift` is any pair of integers.
`ListingFits` of `Paging`: ids are integers (any total order will do), a page holds at
least one row (`platform.ts` and `request-queries.ts` are given a limit from 1 to 100),
and `None` is no cursor and no load. `SlugFits` of `Slug`: a base has room for a
dash and three digits (72 in the code, at least 4), and at most 100 slugs are tried
(`provisioning.ts:29`).

### Only model-checked

* Liveness: `RemindersSettle`, `RequestsAreAnswered`, `EventsSettle`, `WaitsEnd`
  (out of the prover's reach).
* `CandidatesAccepted` of `Slug` and `UnsavedIsAskedAbout` of `Drafts` fail: see
  Findings. `FirstSlugsFit` and `OnlyErrorsDropDrafts` say what holds.
* `UntouchedAsStored` is not claimed for exceptions, neither checked nor proved: see
  Findings.

## 5. Not modelled

* HTTP schemas, authentication, reads that decide nothing, e-mail texts and
  fixtures: they keep no state that these properties depend on.
* The other pages of the web client (lists, forms and details of bookings,
  members, resources and services): one query and one mutation each, in the shape
  the modelled pages have.
* The templates of the organization-request and publication mails. Their
  consumers are the one in `OutboxDelivery`.
* Shutdown of the worker: it stops loops and loses nothing a crash keeps.
* PostgreSQL, RabbitMQ, the e-mail provider and the query library beyond what the
  guards say.
* Prices, names, phone numbers and notes: data no decision depends on, except
  whether they are there.

## 6. Plan

1. The page of organization requests, and larger instances of `Drafts` and
   `BookingPage`.
