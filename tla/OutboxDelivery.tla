--------------------------- MODULE OutboxDelivery ---------------------------
(***************************************************************************)
(* The way of an integration event from the outbox table to a consumer     *)
(* receipt: the dispatcher of each worker process publishes unpublished    *)
(* rows to RabbitMQ, its consumer handles deliveries at most once per      *)
(* receipt, failed ones go through the retry queue and in the end to the   *)
(* dead-letter queue.  Connections and processes fail between any two      *)
(* steps.                                                                  *)
(*                                                                         *)
(* One consumer queue is modelled; the three of the program (booking,      *)
(* organization-request and publication events) are copies of it that      *)
(* share the dispatcher.  A queue is a bag: prefetching, requeueing and    *)
(* the retry queue reorder messages anyway.  RabbitMQ keeps what it has    *)
(* confirmed (durable queues, persistent messages) and every event type    *)
(* has a binding, so no message is returned as unroutable.                 *)
(***************************************************************************)
EXTENDS Integers, FiniteSets

CONSTANTS
    NumEvents,       \* events, numbered in the order of created_at
    Workers,         \* worker processes
    BatchSize,       \* OUTBOX_BATCH_SIZE
    Prefetch,        \* prefetch of a consumer
    MaxAttempts,     \* maxAttempts of a consumer
    PublisherDelay,  \* retryDelayMs of the dispatcher's topology
    ConsumerDelay,   \* retryDelayMs of the consumers' topology
    MaxFaults,       \* bound: crashes, lost connections, refused confirms
    Free             \* a prefetch slot without a delivery

VARIABLES
    recorded,    \* events whose transaction committed
    published,   \* those with published_at set
    dispatcher,  \* per worker: connection and the batch it holds locked
    ready,       \* consumer queue: message -> copies
    delayed,     \* retry queue: message -> copies
    dead,        \* events with a message in the dead-letter queue
    retryTtl,    \* x-message-ttl the retry queue was declared with, or 0
    consumer,    \* per worker: its channel is open
    delivery,    \* per worker: deliveries it has not finished
    receipts,    \* events with a consumer_receipt row
    mails,       \* calls of the e-mail provider per event
    faults       \* faults so far

vars == <<recorded, published, dispatcher, ready, delayed, dead, retryTtl,
          consumer, delivery, receipts, mails, faults>>

publishing == <<recorded, published, dispatcher>>
broker == <<ready, delayed, dead, retryTtl>>
consuming == <<consumer, delivery>>
effects == <<receipts, mails>>

-----------------------------------------------------------------------------
Events == 1 .. NumEvents
Message == [event : Events, retries : 0 .. MaxAttempts]
Slot == 1 .. Prefetch
Stage == {"received", "handling", "sent", "done", "failed", "rejected",
          "republished", "abandoned"}
Delivery == [message : Message, stage : Stage, attached : BOOLEAN]
Dispatcher == [stage : {"off", "idle", "publishing"},
               batch : SUBSET Events, unconfirmed : SUBSET Events]
Offline == [stage |-> "off", batch |-> {}, unconfirmed |-> {}]
Undeclared == 0

\* What the constants are: sizes, limits and delays as env.ts and the consumers'
\* options allow them, and a free slot is no delivery.
ConstantsFit ==
    /\ NumEvents \in Nat /\ MaxFaults \in Nat
    /\ BatchSize \in Nat \ {0}
    /\ Prefetch \in Nat \ {0}
    /\ MaxAttempts \in Nat \ {0}
    /\ PublisherDelay \in Nat \ {0}
    /\ ConsumerDelay \in Nat \ {0}
    /\ Free \notin Delivery

\* One type invariant; a message never carries a retry count that the consumer
\* should have dead-lettered.
TypeOK ==
    /\ recorded \subseteq Events
    /\ published \subseteq recorded
    /\ dispatcher \in [Workers -> Dispatcher]
    /\ ready \in [Message -> Nat]
    /\ delayed \in [Message -> Nat]
    /\ \A m \in Message : m.retries = MaxAttempts => ready[m] = 0 /\ delayed[m] = 0
    /\ dead \subseteq Events
    /\ retryTtl \in {Undeclared, PublisherDelay, ConsumerDelay}
    /\ consumer \in [Workers -> BOOLEAN]
    /\ delivery \in [Workers -> [Slot -> Delivery \cup {Free}]]
    /\ receipts \subseteq Events
    /\ mails \in [Events -> Nat]
    /\ faults \in 0 .. MaxFaults

-----------------------------------------------------------------------------
\* assertEventTopology fails when the queue exists with another TTL.
Declares(delay) ==
    /\ retryTtl \in {Undeclared, delay}
    /\ retryTtl' = delay

\* An API or scheduler transaction commits its outbox row, not always in the
\* order of created_at.
Record(e) ==
    /\ e \notin recorded
    /\ recorded' = recorded \cup {e}
    /\ UNCHANGED <<published, dispatcher, broker, consuming, effects, faults>>

-----------------------------------------------------------------------------
\* The dispatcher (runOutboxDispatcher, dispatchOutboxBatch, publishBatch).

SetDispatcher(w, stage, batch, unconfirmed) ==
    dispatcher' = [dispatcher EXCEPT ![w] =
        [stage |-> stage, batch |-> batch, unconfirmed |-> unconfirmed]]

ConnectDispatcher(w) ==
    /\ dispatcher[w].stage = "off"
    /\ Declares(PublisherDelay)
    /\ SetDispatcher(w, "idle", {}, {})
    /\ UNCHANGED <<recorded, published, ready, delayed, dead, consuming, effects, faults>>

Oldest(E) == {e \in E : Cardinality({f \in E : f < e}) < BatchSize}

\* Rows that another transaction holds are skipped.
Selectable_Unlocked(w) == recorded \ published
Selectable(w) ==
    recorded \ (published \cup UNION {dispatcher[v].batch : v \in Workers \ {w}})

SelectBatch(w) ==
    /\ dispatcher[w].stage = "idle"
    /\ Selectable(w) # {}
    /\ SetDispatcher(w, "publishing", Oldest(Selectable(w)), Oldest(Selectable(w)))
    /\ UNCHANGED <<recorded, published, broker, consuming, effects, faults>>

\* The broker takes a published message; its confirm is on the way.
BrokerAccepts(w) ==
    /\ \E e \in dispatcher[w].unconfirmed :
          /\ dispatcher' = [dispatcher EXCEPT ![w].unconfirmed = @ \ {e}]
          /\ ready' = [ready EXCEPT ![[event |-> e, retries |-> 0]] = @ + 1]
    /\ UNCHANGED <<recorded, published, delayed, dead, retryTtl, consuming, effects, faults>>

\* waitForConfirms.
Confirmed_Unawaited(w) == TRUE
Confirmed(w) == dispatcher[w].unconfirmed = {}

MarkPublished(w) ==
    /\ dispatcher[w].stage = "publishing"
    /\ Confirmed(w)
    /\ IF dispatcher[w].batch \cap published = {}
       THEN /\ published' = published \cup dispatcher[w].batch
            /\ SetDispatcher(w, "idle", {}, {})
       ELSE /\ dispatcher' = [dispatcher EXCEPT ![w] = Offline]
            /\ UNCHANGED published
    /\ UNCHANGED <<recorded, broker, consuming, effects, faults>>

\* Either connection breaks: the transaction is rolled back and what the broker
\* did not take is gone; the loop reconnects.
DispatcherFails(w) ==
    /\ dispatcher[w].stage # "off"
    /\ faults < MaxFaults
    /\ faults' = faults + 1
    /\ dispatcher' = [dispatcher EXCEPT ![w] = Offline]
    /\ UNCHANGED <<recorded, published, broker, consuming, effects>>

-----------------------------------------------------------------------------
\* The consumer (RabbitMqReliableConsumer, runReliableConsumer).

\* It reconnects once the tasks of the old channel are settled.
ConnectConsumer(w) ==
    /\ ~consumer[w]
    /\ \A k \in Slot : delivery[w][k] = Free
    /\ Declares(ConsumerDelay)
    /\ consumer' = [consumer EXCEPT ![w] = TRUE]
    /\ UNCHANGED <<publishing, ready, delayed, dead, delivery, effects, faults>>

Deliver(w, k) ==
    /\ consumer[w]
    /\ delivery[w][k] = Free
    /\ \E m \in Message :
          /\ ready[m] > 0
          /\ ready' = [ready EXCEPT ![m] = @ - 1]
          /\ delivery' = [delivery EXCEPT ![w][k] =
                [message |-> m, stage |-> "received", attached |-> TRUE]]
    /\ UNCHANGED <<publishing, delayed, dead, retryTtl, consumer, effects, faults>>

InStage(w, k, stages) == delivery[w][k] # Free /\ delivery[w][k].stage \in stages
EventOf(w, k) == delivery[w][k].message.event
SetStage(w, k, stage) == delivery' = [delivery EXCEPT ![w][k].stage = stage]

\* pg_advisory_xact_lock on the event is free.
LockFree_NotTaken(e) == TRUE
LockFree(e) ==
    \A w \in Workers, k \in Slot :
        InStage(w, k, {"handling", "sent"}) => EventOf(w, k) # e

\* processWithIdempotency up to the handler of a first execution.
StartHandling(w, k) ==
    /\ InStage(w, k, {"received"})
    /\ LockFree(EventOf(w, k))
    /\ SetStage(w, k, IF EventOf(w, k) \in receipts THEN "done" ELSE "handling")
    /\ UNCHANGED <<publishing, broker, consumer, effects, faults>>

\* The provider is called inside the transaction that will hold the receipt.
SendMail(w, k) ==
    /\ InStage(w, k, {"handling"})
    /\ SetStage(w, k, "sent")
    /\ mails' = [mails EXCEPT ![EventOf(w, k)] = @ + 1]
    /\ UNCHANGED <<publishing, broker, consumer, receipts, faults>>

\* With a mail sent, or skipped for this event.
CommitReceipt(w, k) ==
    /\ InStage(w, k, {"handling", "sent"})
    /\ receipts' = receipts \cup {EventOf(w, k)}
    /\ SetStage(w, k, "done")
    /\ UNCHANGED <<publishing, broker, consumer, mails, faults>>

\* The provider or the database fails; the commit may have succeeded all the same.
HandlerFails(w, k) ==
    /\ InStage(w, k, {"received", "handling", "sent"})
    /\ SetStage(w, k, "failed")
    /\ \/ UNCHANGED receipts
       \/ /\ InStage(w, k, {"handling", "sent"})
          /\ receipts' = receipts \cup {EventOf(w, k)}
    /\ UNCHANGED <<publishing, broker, consumer, mails, faults>>

\* The parser refuses the message, or the handler throws PermanentEventError.
RejectEvent(w, k) ==
    /\ InStage(w, k, {"received", "handling"})
    /\ SetStage(w, k, "rejected")
    /\ UNCHANGED <<publishing, broker, consumer, effects, faults>>

\* The delivery is acknowledged, or its channel is gone and nothing can be done.
Finish(w, k) ==
    /\ \/ InStage(w, k, {"done", "republished"})
       \/ InStage(w, k, {"failed", "rejected"}) /\ ~delivery[w][k].attached
    /\ delivery' = [delivery EXCEPT ![w][k] = Free]
    /\ UNCHANGED <<publishing, broker, consumer, effects, faults>>

RetryAgain_OnceMore(m) == m.retries < MaxAttempts
RetryAgain(m) == m.retries + 1 < MaxAttempts

NextRetry_Uncounted(m) == m
NextRetry(m) == [m EXCEPT !.retries = @ + 1]

\* republish: the copy is confirmed before the delivery is acknowledged.
Republish(w, k) ==
    LET m == delivery[w][k].message
    IN  /\ InStage(w, k, {"failed", "rejected"})
        /\ delivery[w][k].attached
        /\ IF InStage(w, k, {"failed"}) /\ RetryAgain(m)
           THEN /\ delayed' = [delayed EXCEPT ![NextRetry(m)] = @ + 1]
                /\ UNCHANGED dead
           ELSE /\ dead' = dead \cup {m.event}
                /\ UNCHANGED delayed
        /\ SetStage(w, k, "republished")
        /\ UNCHANGED <<publishing, ready, retryTtl, consumer, effects, faults>>

\* The broker refuses the confirm: the error is logged and the delivery stays
\* unacknowledged as long as the channel lives.
RepublishRefused(w, k) ==
    /\ InStage(w, k, {"failed", "rejected"})
    /\ delivery[w][k].attached
    /\ faults < MaxFaults
    /\ faults' = faults + 1
    /\ SetStage(w, k, "abandoned")
    /\ UNCHANGED <<publishing, broker, consumer, effects>>

\* x-message-ttl of the retry queue.
DelayExpires ==
    /\ \E m \in Message :
          /\ delayed[m] > 0
          /\ delayed' = [delayed EXCEPT ![m] = @ - 1]
          /\ ready' = [ready EXCEPT ![m] = @ + 1]
    /\ UNCHANGED <<publishing, dead, retryTtl, consuming, effects, faults>>

-----------------------------------------------------------------------------
\* Faults of a worker.

Attached(w, m) ==
    {k \in Slot : /\ delivery[w][k] # Free
                  /\ delivery[w][k].attached
                  /\ delivery[w][k].message = m}

\* The broker takes back what was not acknowledged.
RequeueUnacknowledged(w) ==
    ready' = [m \in Message |-> ready[m] + Cardinality(Attached(w, m))]

\* The channel closes; handlers that run go on without it.
ConsumerDisconnects(w) ==
    /\ consumer[w]
    /\ faults < MaxFaults
    /\ faults' = faults + 1
    /\ consumer' = [consumer EXCEPT ![w] = FALSE]
    /\ RequeueUnacknowledged(w)
    /\ delivery' = [delivery EXCEPT ![w] = [k \in Slot |->
            IF @[k] = Free \/ @[k].stage = "abandoned" THEN Free
            ELSE [@[k] EXCEPT !.attached = FALSE]]]
    /\ UNCHANGED <<publishing, delayed, dead, retryTtl, effects>>

\* The process dies; the database rolls its transactions back.
Crash(w) ==
    /\ faults < MaxFaults
    /\ faults' = faults + 1
    /\ dispatcher' = [dispatcher EXCEPT ![w] = Offline]
    /\ consumer' = [consumer EXCEPT ![w] = FALSE]
    /\ RequeueUnacknowledged(w)
    /\ delivery' = [delivery EXCEPT ![w] = [k \in Slot |-> Free]]
    /\ UNCHANGED <<recorded, published, delayed, dead, retryTtl, effects>>

InBroker(e) ==
    \/ \E m \in Message : m.event = e /\ ready[m] + delayed[m] > 0
    \/ \E w \in Workers, m \in Message : m.event = e /\ Attached(w, m) # {}

Abandoned == \E w \in Workers, k \in Slot : InStage(w, k, {"abandoned"})

\* The loops poll and find nothing to do.
Rest ==
    /\ published = Events
    /\ Abandoned \/ \A e \in Events : ~InBroker(e)
    /\ UNCHANGED vars

-----------------------------------------------------------------------------
Init ==
    /\ recorded = {}
    /\ published = {}
    /\ dispatcher = [w \in Workers |-> Offline]
    /\ ready = [m \in Message |-> 0]
    /\ delayed = [m \in Message |-> 0]
    /\ dead = {}
    /\ retryTtl = Undeclared
    /\ consumer = [w \in Workers |-> FALSE]
    /\ delivery = [w \in Workers |-> [k \in Slot |-> Free]]
    /\ receipts = {}
    /\ mails = [e \in Events |-> 0]
    /\ faults = 0

Dispatch(w) ==
    ConnectDispatcher(w) \/ SelectBatch(w) \/ BrokerAccepts(w) \/ MarkPublished(w)

\* The steps of a delivery after it arrived.
Handle(w, k) ==
    \/ StartHandling(w, k) \/ SendMail(w, k) \/ CommitReceipt(w, k)
    \/ HandlerFails(w, k) \/ RejectEvent(w, k)
    \/ Republish(w, k) \/ Finish(w, k)

Receive(w) == ConnectConsumer(w) \/ \E k \in Slot : Deliver(w, k)

Next ==
    \/ \E e \in Events : Record(e)
    \/ \E w \in Workers :
          \/ Dispatch(w) \/ DispatcherFails(w)
          \/ Receive(w)
          \/ \E k \in Slot : Handle(w, k) \/ RepublishRefused(w, k)
          \/ ConsumerDisconnects(w) \/ Crash(w)
    \/ DelayExpires
    \/ Rest

Spec == Init /\ [][Next]_vars

\* The loops of a worker run until shutdown and a crashed process is restarted;
\* handlers end (their calls time out); the retry queue's TTL expires.
FairSpec ==
    /\ Spec
    /\ WF_vars(DelayExpires)
    /\ \A w \in Workers :
          /\ WF_vars(Dispatch(w))
          /\ WF_vars(Receive(w))
          /\ \A k \in Slot : WF_vars(Handle(w, k))

-----------------------------------------------------------------------------
Settled(e) == e \in receipts \/ e \in dead

\* A committed event is never lost: it waits in the outbox, is in the hands of
\* the broker (perhaps unacknowledged at a consumer), or was dealt with.
NoEventLost == \A e \in recorded : e \notin published \/ InBroker(e) \/ Settled(e)

\* The mark of a batch never meets a row that was published meanwhile: the
\* "mark count mismatch" of dispatchOutboxBatch cannot happen.
BatchUnpublished == \A w \in Workers : dispatcher[w].batch \cap published = {}

\* Duplicates of an event never send its mail side by side, nor after its
\* receipt: a mail is repeated only when the transaction that sent it failed.
OneMail ==
    \A e \in Events : mails'[e] # mails[e] =>
        /\ e \notin receipts
        /\ \A w \in Workers, k \in Slot :
              InStage(w, k, {"sent"}) => EventOf(w, k) # e
MailsOneAtATime == [][OneMail]_vars

\* Every committed event gets a receipt or is dead-lettered, unless a delivery
\* was abandoned (it keeps its prefetch slot until the channel closes).
EventsSettle == \A e \in Events : e \in recorded ~> Settled(e) \/ Abandoned

\* "The delivery model is explicitly at least once" (README.md): a committed
\* event reaches a consumer.
AtLeastOnce ==
    \A e \in Events : e \in recorded ~>
        Settled(e) \/ \E w \in Workers, k \in Slot :
            delivery[w][k] # Free /\ EventOf(w, k) = e

\* The outbox through every fault: messages keep to their attempts, a batch holds
\* no row that was published meanwhile, and no committed event is lost.
OutboxConsistent == TypeOK /\ BatchUnpublished /\ NoEventLost
=============================================================================
