----------------------------- MODULE MCEndings -----------------------------
(***************************************************************************)
(* What must end, for TLC: six parts that share no state, checked one      *)
(* after the other under their own fairness.  The part is chosen at the    *)
(* start and never changes; the variables of the others rest at an initial *)
(* value.  The instances are small, since every property is checked on the *)
(* graph of all behaviours, without symmetry.                              *)
(*   reminders  two bookings whose reminders come due, a batch of one      *)
(*              (Bookings);                                                *)
(*   writes     two booking requests for crossing slots (BookingTxn);      *)
(*   outbox     one event, one worker, one fault (OutboxDelivery);        *)
(*   rows       a request, a scheduler and a handler on one reminder       *)
(*              (ReminderRows);                                            *)
(*   members    two requests lock two membership rows (Team);              *)
(*   requests   two operations on a request for an organization            *)
(*              (Onboarding).                                              *)
(***************************************************************************)
EXTENDS Bookings, TLC

CONSTANTS None, Free, b1, b2, r1, c1, c2, w1, s1, h1, i1, p1, p2,
          u1, u2, q1, slug1, slug2, t1, t2

VARIABLES
    part,
    table, open, orgChanges, request, pc, tries, tx, failure, answer, applied, lost,
    recorded, published, dispatcher, ready, delayed, dead, retryTtl, consumer,
    delivery, receipts, mails, faults,
    rowClock, rowOpen, booking, rems, written, dueEvent, call, at, holder, view,
    member, resource, invitation, mail, booked, active, op,
    asked, organization, event, txn, failed

writeVars == <<table, open, orgChanges, request, pc, tries, tx, failure, answer, applied, lost>>
outboxVars == <<recorded, published, dispatcher, ready, delayed, dead, retryTtl, consumer,
                delivery, receipts, mails, faults>>
rowVars == <<rowClock, rowOpen, booking, rems, written, dueEvent, call, at, holder, view>>
memberVars == <<member, resource, invitation, mail, booked, active, op>>
requestVars == <<asked, organization, event, txn, failed>>

-----------------------------------------------------------------------------
TwoBookings == {b1, b2}
OneResource == {r1}
Plain == {[duration |-> 1, buffer |-> 0]}

Slot(from, until) == [resource |-> r1, from |-> from, until |-> until]
Writes == INSTANCE BookingTxn WITH
    Requests <- {c1, c2}, Slots <- {Slot(0, 2), Slot(1, 3)},
    Kinds <- {"public", "move", "cancel", "revert"},
    MaxSerialization <- 3, MaxReference <- 2, MaxToken <- 2, MaxOrgChanges <- 1, MaxLost <- 1

Delivery == INSTANCE OutboxDelivery WITH
    NumEvents <- 1, Workers <- {w1}, BatchSize <- 1, Prefetch <- 1, MaxAttempts <- 2,
    PublisherDelay <- 5, ConsumerDelay <- 5, MaxFaults <- 1

Locks == INSTANCE ReminderRows WITH
    Requests <- {c1}, Kinds <- {"cancel", "forget_email", "suspend"},
    Schedulers <- {s1}, Handlers <- {h1}, Starts <- {2}, Lead <- 1, MaxClock <- 1,
    MaxSerialization <- 2, MaxAttempts <- 2,
    clock <- rowClock, open <- rowOpen, reminders <- rems, recorded <- written,
    event <- dueEvent, request <- call

Members == INSTANCE Team WITH
    Users <- 1 .. 2, Owner <- 1, Resources <- {}, Invitations <- {i1}, Requests <- {p1, p2},
    Events <- {"expiry"}, open <- active

Entry == INSTANCE Onboarding WITH
    Users <- {u1, u2}, Admins <- {u2}, Requests <- {q1}, Slugs <- {slug1, slug2},
    Candidates <- [n \in {1} |-> <<slug1, slug2>>], Transactions <- {t1, t2},
    request <- asked

-----------------------------------------------------------------------------
EndingsInit ==
    /\ part \in {"reminders", "writes", "outbox", "rows", "members", "requests"}
    /\ Init /\ Writes!Init /\ Delivery!Init /\ Locks!Init /\ Members!Init /\ Entry!Init

ButReminders == <<part, writeVars, outboxVars, rowVars, memberVars, requestVars>>
ButWrites == <<part, vars, outboxVars, rowVars, memberVars, requestVars>>
ButOutbox == <<part, vars, writeVars, rowVars, memberVars, requestVars>>
ButRows == <<part, vars, writeVars, outboxVars, memberVars, requestVars>>
ButMembers == <<part, vars, writeVars, outboxVars, rowVars, requestVars>>
ButRequests == <<part, vars, writeVars, outboxVars, rowVars, memberVars>>

EndingsNext ==
    \/ part = "reminders" /\ Next /\ UNCHANGED ButReminders
    \/ part = "writes" /\ Writes!Next /\ UNCHANGED ButWrites
    \/ part = "outbox" /\ Delivery!Next /\ UNCHANGED ButOutbox
    \/ part = "rows" /\ Locks!Next /\ UNCHANGED ButRows
    \/ part = "members" /\ Members!Next /\ UNCHANGED ButMembers
    \/ part = "requests" /\ Entry!Next /\ UNCHANGED ButRequests

\* The weakly fair steps of each part (the FairSpec of its module), numbered.
\* Only one part runs, so the n-th steps of two parts do not compete.
FairStep(n) ==
    \/ /\ part = "reminders"
       /\ \/ n = 1 /\ Tick
          \/ n = 2 /\ Dispatch
       /\ UNCHANGED ButReminders
    \/ /\ part = "writes"
       /\ \/ n = 1 /\ Writes!Step(c1)
          \/ n = 2 /\ Writes!Step(c2)
       /\ UNCHANGED ButWrites
    \/ /\ part = "outbox"
       /\ \/ n = 1 /\ Delivery!Dispatch(w1)
          \/ n = 2 /\ Delivery!Receive(w1)
          \/ n = 3 /\ Delivery!Handle(w1, 1)
          \/ n = 4 /\ Delivery!DelayExpires
       /\ UNCHANGED ButOutbox
    \/ /\ part = "rows"
       /\ \/ n = 1 /\ Locks!RequestStep(c1)
          \/ n = 2 /\ Locks!SchedulerStep(s1)
          \/ n = 3 /\ Locks!HandlerStep(h1)
          \/ n = 4 /\ \E a \in {c1, h1} : Locks!DeadlockVictim(a)
       /\ UNCHANGED ButRows
    \/ /\ part = "members"
       /\ \/ n = 1 /\ Members!Finish(p1)
          \/ n = 2 /\ Members!Finish(p2)
       /\ UNCHANGED ButMembers

\* The strongly fair ones: waiters for a row are queued.
QueuedStep(n) ==
    \/ /\ part = "members"
       /\ \/ n = 1 /\ Members!LockMembership(p1)
          \/ n = 2 /\ Members!LockMembership(p2)
       /\ UNCHANGED ButMembers
    \/ /\ part = "requests"
       /\ \/ n = 1 /\ Entry!Step(t1)
          \/ n = 2 /\ Entry!Step(t2)
       /\ UNCHANGED ButRequests

allVars == <<part, vars, writeVars, outboxVars, rowVars, memberVars, requestVars>>

EndingsSpec ==
    /\ EndingsInit
    /\ [][EndingsNext]_allVars
    /\ \A n \in 1 .. 4 : WF_allVars(FairStep(n))
    /\ \A n \in 1 .. 2 : SF_allVars(QueuedStep(n))

-----------------------------------------------------------------------------
\* BookingTxn!RequestsAreAnswered: the retry loops give up and no attempt waits
\* for ever.
RequestsAreAnswered == Writes!RequestsAreAnswered

\* OutboxDelivery!EventsSettle: a committed event gets a receipt or is
\* dead-lettered, unless a delivery was abandoned.
EventsSettle == Delivery!EventsSettle

\* Nobody waits for a lock for ever: ReminderRows!RowsAreReleased (crossing lock
\* orders end), Team!RequestsEnd (the order of the membership locks excludes
\* deadlock) and Onboarding!TransactionsEnd (applicants, requests and slugs are
\* not waited for in a circle, and the search for a slug ends).
WaitsEnd == Locks!RowsAreReleased /\ Members!RequestsEnd /\ Entry!TransactionsEnd
=============================================================================
