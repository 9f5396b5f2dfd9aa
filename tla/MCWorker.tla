------------------------------ MODULE MCWorker ------------------------------
(***************************************************************************)
(* The worker processes for TLC: the row locks around reminders, where     *)
(* they meet the requests of the API (ReminderRows), and the way of events *)
(* through the outbox and the broker (OutboxDelivery).  The two share no   *)
(* state here; one run takes slices of either after the other.  A slice is *)
(* chosen by a bound that no step changes, and only forgets behaviours;    *)
(* the variables of the other module rest, those of ReminderRows at an     *)
(* initial value.                                                          *)
(*   mails       two requests, one scheduler and one handler;              *)
(*   events      one request, two schedulers and one handler;              *)
(*   snapshots   two requests and two schedulers, before any handler;      *)
(*   duplicates  one event, two workers, two faults;                       *)
(*   batches     two events, both there before the one worker at work,     *)
(*               one fault.                                                *)
(***************************************************************************)
EXTENDS ReminderRows, TLC

\* x1 and x2 are what a slice has two of that are alike: requests or workers.
CONSTANTS x1, x2, s1, s2, h1, Free, None

VARIABLES
    slice,
    outbox, published, dispatcher, ready, delayed, dead, retryTtl, consumer,
    delivery, receipts, mails, faults

outboxVars == <<outbox, published, dispatcher, ready, delayed, dead, retryTtl, consumer,
                delivery, receipts, mails, faults>>

Both == {x1, x2}
TwoSchedulers == {s1, s2}
OneHandler == {h1}

RowSlices == {"mails", "events", "snapshots"}
OutboxSlices == {"duplicates", "batches"}

-----------------------------------------------------------------------------
\* Rows.

WithinRows ==
    \/ slice = "mails" /\ at[s2] = "polling"
    \/ slice = "events" /\ Cardinality({c \in Requests : at[c] # "idle"}) <= 1
    \/ slice = "snapshots" /\ at[h1] = "waiting"

\* Every request is answered, and nothing is due any more.
RowsRest ==
    /\ clock = MaxClock
    /\ \A c \in Requests : at[c] \in {"idle", "answered", "failed"}
    /\ \A s \in Schedulers : at[s] = "polling"
    /\ \A h \in Handlers : at[h] = "waiting"
    /\ UNCHANGED vars

-----------------------------------------------------------------------------
\* The outbox.

Events == INSTANCE OutboxDelivery WITH
    recorded <- outbox,
    NumEvents <- 2, Workers <- Both, BatchSize <- 2, Prefetch <- 1,
    MaxAttempts <- 2, PublisherDelay <- 5, ConsumerDelay <- 5, MaxFaults <- 2

ASSUME OutboxFits == Events!ConstantsFit

AtWork(w) == dispatcher[w] # Events!Offline \/ consumer[w] \/ delivery[w][1] # Free

WithinOutbox ==
    \/ slice = "duplicates" /\ outbox \subseteq {1}
    \/ /\ slice = "batches"
       /\ faults <= 1 /\ Cardinality({w \in Both : AtWork(w)}) <= 1
       /\ \A w \in Both : AtWork(w) => outbox = {1, 2}

\* The only event has been dealt with.
OutboxRests ==
    /\ slice = "duplicates"
    /\ published = {1}
    /\ Events!Abandoned \/ ~Events!InBroker(1)
    /\ UNCHANGED outboxVars

\* OutboxDelivery!OutboxConsistent: what the outbox, the broker, the consumers
\* and the receipts say of each event fits together.
OutboxConsistent == slice \in OutboxSlices => Events!OutboxConsistent

\* OutboxDelivery!MailsOneAtATime: no mail is sent for an event that another
\* handler still sends or has a receipt for.
MailsOneAtATime == [][(slice \in OutboxSlices) => Events!OneMail]_outboxVars

-----------------------------------------------------------------------------
OutboxAtRest ==
    /\ outbox = None /\ published = None /\ dispatcher = None /\ ready = None
    /\ delayed = None /\ dead = None /\ retryTtl = None /\ consumer = None
    /\ delivery = None /\ receipts = None /\ mails = None /\ faults = None

RowsAtRest == Init /\ \A start \in Starts : booking.start <= start

SliceInit ==
    \/ slice \in RowSlices /\ Init /\ OutboxAtRest
    \/ slice \in OutboxSlices /\ Events!Init /\ RowsAtRest

SliceNext ==
    /\ UNCHANGED slice
    /\ \/ /\ slice \in RowSlices
          /\ Next \/ RowsRest
          /\ WithinRows'
          /\ UNCHANGED outboxVars
       \/ /\ slice \in OutboxSlices
          /\ Events!Next \/ OutboxRests
          /\ WithinOutbox'
          /\ UNCHANGED vars

SliceSpec == SliceInit /\ [][SliceNext]_<<slice, vars, outboxVars>>

Symmetry == Permutations(Both)
=============================================================================
