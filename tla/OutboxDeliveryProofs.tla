------------------------ MODULE OutboxDeliveryProofs ------------------------
(***************************************************************************)
(* Theorems about OutboxDelivery for any number of events, workers, slots, *)
(* attempts and faults.                                                    *)
(*                                                                         *)
(* A delivery that was republished is still at its consumer, but the copy  *)
(* that counts is the new one: a published event is kept by a message in a *)
(* queue, by a delivery the broker can take back and that was not          *)
(* republished, or by its receipt or dead letter.  No step lets go of a    *)
(* kept event, and that is the argument for NoEventLost.                   *)
(***************************************************************************)
EXTENDS OutboxDelivery, FiniteSetTheorems, TLAPS

USE DEF ConstantsFit

-----------------------------------------------------------------------------
(* The inductive invariant.                                                *)

\* A delivery can be tried once more, or is the last attempt.
AttemptsLeft ==
    \A w \in Workers, k \in Slot :
        delivery[w][k] # Free => delivery[w][k].message.retries < MaxAttempts

\* A batch holds recorded rows that no other batch holds and nobody published.
BatchesLocked ==
    \A w \in Workers :
       /\ dispatcher[w].batch \subseteq recorded \ published
       /\ dispatcher[w].unconfirmed \subseteq dispatcher[w].batch
       /\ dispatcher[w].stage # "publishing" => dispatcher[w].batch = {}
       /\ \A v \in Workers : v # w => dispatcher[v].batch \cap dispatcher[w].batch = {}

Waiting(e) == \E m \in Message : m.event = e /\ ready[m] + delayed[m] > 0
InHands(w, k, e) ==
    /\ delivery[w][k] # Free
    /\ delivery[w][k].attached
    /\ delivery[w][k].stage # "republished"
    /\ delivery[w][k].message.event = e
Kept(e) ==
    \/ Waiting(e)
    \/ \E w \in Workers, k \in Slot : InHands(w, k, e)
    \/ Settled(e)

\* What the broker took is kept; a delivery is done with a receipt only, and
\* republished into another copy.
EventsKept ==
    /\ \A e \in published : Kept(e)
    /\ \A w \in Workers :
          \A e \in dispatcher[w].batch \ dispatcher[w].unconfirmed : Kept(e)
    /\ \A w \in Workers, k \in Slot :
          /\ InStage(w, k, {"done"}) => EventOf(w, k) \in receipts
          /\ InStage(w, k, {"republished"}) => Kept(EventOf(w, k))

\* The advisory lock: deliveries at work are about different events, and none of
\* these has a receipt.
HandledOnce ==
    \A w \in Workers, k \in Slot : InStage(w, k, {"handling", "sent"}) =>
       /\ EventOf(w, k) \notin receipts
       /\ \A v \in Workers, j \in Slot :
             InStage(v, j, {"handling", "sent"}) /\ EventOf(v, j) = EventOf(w, k)
                => v = w /\ j = k

IInv == TypeOK /\ AttemptsLeft /\ BatchesLocked /\ EventsKept /\ HandledOnce

-----------------------------------------------------------------------------
(* Deliveries.                                                             *)

\* A delivery is the record of its three fields.
LEMMA DeliveryFields ==
    ASSUME ConstantsFit, TypeOK, NEW w \in Workers, NEW k \in Slot, delivery[w][k] # Free
    PROVE  /\ delivery[w][k] \in Delivery
           /\ EventOf(w, k) \in Events
           /\ delivery[w][k].message \in Message
           /\ delivery[w][k].attached \in BOOLEAN
           /\ delivery[w][k].stage \in Stage
<1>1. delivery[w][k] \in Delivery
  BY DEF TypeOK
<1> QED
  BY <1>1 DEF Delivery, Message, EventOf

\* SetStage changes the stage of one delivery and nothing else of it.
LEMMA StageChange ==
    ASSUME ConstantsFit, TypeOK, NEW w \in Workers, NEW k \in Slot, delivery[w][k] # Free,
           NEW stage \in Stage, SetStage(w, k, stage)
    PROVE  /\ delivery' \in [Workers -> [Slot -> Delivery \cup {Free}]]
           /\ delivery'[w][k] # Free
           /\ delivery'[w][k].stage = stage
           /\ delivery'[w][k].message = delivery[w][k].message
           /\ delivery'[w][k].attached = delivery[w][k].attached
           /\ \A v \in Workers, j \in Slot :
                 v # w \/ j # k => delivery'[v][j] = delivery[v][j]
<1> DEFINE d == [delivery[w][k] EXCEPT !.stage = stage]
<1>1. delivery[w][k] \in Delivery
  BY DeliveryFields
<1>2. /\ d \in Delivery /\ d.stage = stage
      /\ d.message = delivery[w][k].message /\ d.attached = delivery[w][k].attached
  BY <1>1 DEF Delivery
<1>3. delivery' = [delivery EXCEPT ![w][k] = d]
  BY DEF SetStage, TypeOK
<1>4. d # Free
  BY <1>2
<1> HIDE DEF d
<1>5. /\ delivery' \in [Workers -> [Slot -> Delivery \cup {Free}]]
      /\ delivery'[w][k] = d
      /\ \A v \in Workers, j \in Slot :
            v # w \/ j # k => delivery'[v][j] = delivery[v][j]
  BY <1>2, <1>3 DEF TypeOK
<1> QED
  BY <1>2, <1>4, <1>5

\* The copies a worker has not acknowledged are counted by a natural number.
LEMMA AttachedCounted ==
    ASSUME ConstantsFit, NEW w \in Workers, NEW m \in Message
    PROVE  /\ Cardinality(Attached(w, m)) \in Nat
           /\ Attached(w, m) # {} => Cardinality(Attached(w, m)) > 0
<1>1. IsFiniteSet(Slot)
  BY FS_Interval DEF Slot
<1>2. Attached(w, m) \subseteq Slot
  BY DEF Attached
<1>3. IsFiniteSet(Attached(w, m))
  BY <1>1, <1>2, FS_Subset
<1>4. Cardinality(Attached(w, m)) \in Nat
  BY <1>3, FS_CardinalityType
<1>5. Cardinality(Attached(w, m)) = 0 <=> Attached(w, m) = {}
  BY <1>3, FS_EmptySet
<1> QED
  BY <1>4, <1>5

\* A message is known by its event and its retries.
LEMMA NewMessage ==
    ASSUME ConstantsFit, NEW e \in Events, NEW n \in 0 .. MaxAttempts
    PROVE  /\ [event |-> e, retries |-> n] \in Message
           /\ [event |-> e, retries |-> n].event = e
           /\ [event |-> e, retries |-> n].retries = n
  BY DEF Message

\* A retry is about the same event, and stays within the attempts.
LEMMA RetryMessage ==
    ASSUME ConstantsFit, NEW m \in Message, RetryAgain(m)
    PROVE  /\ NextRetry(m) \in Message
           /\ NextRetry(m).event = m.event
           /\ NextRetry(m).retries < MaxAttempts
  BY DEF Message, RetryAgain, NextRetry

-----------------------------------------------------------------------------
(* Type correctness.                                                       *)

\* The dispatcher's steps, and those of the producers, keep the types.
LEMMA DispatchTyped ==
    ASSUME ConstantsFit, IInv, NEW w \in Workers, Dispatch(w) \/ DispatcherFails(w)
    PROVE  TypeOK'
<1> USE DEF IInv
<1>1. CASE ConnectDispatcher(w)
  BY <1>1 DEF ConnectDispatcher, TypeOK, Declares, SetDispatcher, Dispatcher,
              consuming, effects
<1>2. CASE SelectBatch(w)
  <2>1. Oldest(Selectable(w)) \subseteq Events
    BY DEF Oldest, Selectable, TypeOK
  <2> QED
    BY <1>2, <2>1 DEF SelectBatch, TypeOK, SetDispatcher, Dispatcher,
                      broker, consuming, effects
<1>3. CASE BrokerAccepts(w)
  <2>1. PICK e \in dispatcher[w].unconfirmed :
          /\ dispatcher' = [dispatcher EXCEPT ![w].unconfirmed = @ \ {e}]
          /\ ready' = [ready EXCEPT ![[event |-> e, retries |-> 0]] = @ + 1]
    BY <1>3 DEF BrokerAccepts
  <2>2. e \in Events
    BY DEF TypeOK, Dispatcher
  <2>3. [event |-> e, retries |-> 0] \in Message /\ [event |-> e, retries |-> 0].retries = 0
    BY <2>2, NewMessage
  <2>4. dispatcher' \in [Workers -> Dispatcher]
    BY <2>1 DEF TypeOK, Dispatcher
  <2>5. /\ ready' \in [Message -> Nat]
        /\ \A m \in Message : m.retries = MaxAttempts => ready'[m] = ready[m]
    BY <2>1, <2>3 DEF TypeOK
  <2> QED
    BY <1>3, <2>4, <2>5 DEF BrokerAccepts, TypeOK, consuming, effects
<1>4. CASE MarkPublished(w)
  <2>1. dispatcher[w] \in Dispatcher /\ dispatcher[w].batch \subseteq recorded
    BY DEF TypeOK, BatchesLocked
  <2> QED
    BY <1>4, <2>1 DEF MarkPublished, TypeOK, SetDispatcher, Dispatcher, Offline,
                      broker, consuming, effects
<1>5. CASE DispatcherFails(w)
  BY <1>5 DEF DispatcherFails, TypeOK, Dispatcher, Offline, broker, consuming, effects
<1> QED
  BY <1>1, <1>2, <1>3, <1>4, <1>5 DEF Dispatch

\* A step of a delivery keeps the types, and the attempts of the deliveries.
LEMMA HandleTyped ==
    ASSUME ConstantsFit, IInv, NEW w \in Workers, NEW k \in Slot, Handle(w, k) \/ RepublishRefused(w, k)
    PROVE  TypeOK' /\ AttemptsLeft'
<1> USE DEF IInv
<1>1. CASE Finish(w, k)
  <2>1. delivery' = [delivery EXCEPT ![w][k] = Free]
    BY <1>1 DEF Finish
  <2>2. /\ delivery' \in [Workers -> [Slot -> Delivery \cup {Free}]]
        /\ \A v \in Workers, j \in Slot :
              delivery'[v][j] = Free \/ delivery'[v][j] = delivery[v][j]
    BY <2>1 DEF TypeOK
  <2>3. TypeOK'
    BY <1>1, <2>2 DEF Finish, TypeOK, publishing, broker, effects
  <2>4. AttemptsLeft'
    BY <2>2 DEF AttemptsLeft
  <2> QED
    BY <2>3, <2>4
<1>2. CASE ~Finish(w, k)
  <2>1. delivery[w][k] # Free
    BY <1>2 DEF Handle, StartHandling, SendMail, CommitReceipt, HandlerFails,
                RejectEvent, Republish, RepublishRefused, InStage
  <2>2. PICK stage \in Stage : SetStage(w, k, stage)
    BY <1>2 DEF Handle, StartHandling, SendMail, CommitReceipt, HandlerFails,
                RejectEvent, Republish, RepublishRefused, Stage
  <2>3. /\ delivery' \in [Workers -> [Slot -> Delivery \cup {Free}]]
        /\ delivery'[w][k].message = delivery[w][k].message
        /\ \A v \in Workers, j \in Slot :
              v # w \/ j # k => delivery'[v][j] = delivery[v][j]
    BY <2>1, <2>2, StageChange
  <2>4. EventOf(w, k) \in Events /\ delivery[w][k].message \in Message
    BY <2>1, DeliveryFields
  <2>5. AttemptsLeft'
    BY <2>1, <2>3 DEF AttemptsLeft
  <2>6. TypeOK'
    <3>1. CASE StartHandling(w, k) \/ RejectEvent(w, k) \/ RepublishRefused(w, k)
      BY <2>3, <3>1 DEF StartHandling, RejectEvent, RepublishRefused, TypeOK,
                        publishing, broker, effects
    <3>2. CASE SendMail(w, k)
      <4>1. mails' \in [Events -> Nat]
        BY <2>4, <3>2 DEF SendMail, TypeOK
      <4> QED
        BY <2>3, <3>2, <4>1 DEF SendMail, TypeOK, publishing, broker
    <3>3. CASE CommitReceipt(w, k) \/ HandlerFails(w, k)
      BY <2>3, <2>4, <3>3 DEF CommitReceipt, HandlerFails, TypeOK, publishing, broker
    <3>4. CASE Republish(w, k)
      <4> DEFINE m == delivery[w][k].message
      <4>1. CASE InStage(w, k, {"failed"}) /\ RetryAgain(m)
        <5>1. /\ NextRetry(m) \in Message /\ NextRetry(m).retries < MaxAttempts
          BY <2>4, <4>1, RetryMessage
        <5>2. delayed' = [delayed EXCEPT ![NextRetry(m)] = @ + 1] /\ dead' = dead
          BY <3>4, <4>1 DEF Republish
        <5> HIDE DEF m
        <5>3. /\ delayed' \in [Message -> Nat]
              /\ \A n \in Message : n.retries = MaxAttempts => delayed'[n] = delayed[n]
          BY <5>1, <5>2 DEF TypeOK
        <5> QED
          BY <2>3, <3>4, <5>2, <5>3 DEF Republish, TypeOK, publishing, effects
      <4>2. CASE ~(InStage(w, k, {"failed"}) /\ RetryAgain(m))
        <5>1. m.event \in Events
          BY <2>4 DEF EventOf
        <5>2. delayed' = delayed /\ dead' = dead \cup {m.event}
          BY <3>4, <4>2 DEF Republish
        <5> HIDE DEF m
        <5> QED
          BY <2>3, <3>4, <5>1, <5>2 DEF Republish, TypeOK, publishing, effects
      <4> QED
        BY <4>1, <4>2
    <3> QED
      BY <1>2, <3>1, <3>2, <3>3, <3>4 DEF Handle
  <2> QED
    BY <2>5, <2>6
<1> QED
  BY <1>1, <1>2

\* Requeueing keeps the attempts of the messages.
LEMMA RequeueTyped ==
    ASSUME ConstantsFit, IInv, NEW w \in Workers, RequeueUnacknowledged(w)
    PROVE  /\ ready' \in [Message -> Nat]
           /\ \A m \in Message : m.retries = MaxAttempts => ready'[m] = ready[m]
<1>1. \A m \in Message : Cardinality(Attached(w, m)) \in Nat
  BY AttachedCounted
<1>2. ready' \in [Message -> Nat]
  BY <1>1 DEF RequeueUnacknowledged, IInv, TypeOK
<1>3. ASSUME NEW m \in Message, m.retries = MaxAttempts PROVE ready'[m] = ready[m]
  <2>1. MaxAttempts \in Nat
    OBVIOUS
  <2>2. Attached(w, m) = {}
    BY <1>3, <2>1 DEF Attached, IInv, AttemptsLeft
  <2>3. Cardinality(Attached(w, m)) = 0
    BY <2>2, FS_EmptySet
  <2>4. ready[m] \in Nat
    BY DEF IInv, TypeOK
  <2> QED
    BY <2>3, <2>4 DEF RequeueUnacknowledged
<1> QED
  BY <1>2, <1>3

\* A lost channel and a crash keep the types, and leave at most deliveries that
\* were there, with their messages and their stages, detached from the broker.
LEMMA FaultOfWorker ==
    ASSUME ConstantsFit, IInv, NEW w \in Workers, ConsumerDisconnects(w) \/ Crash(w)
    PROVE  /\ TypeOK'
           /\ \A v \in Workers, j \in Slot :
                 /\ v # w => delivery'[v][j] = delivery[v][j]
                 /\ \/ delivery'[v][j] = Free
                    \/ /\ delivery[v][j] # Free
                       /\ delivery'[v][j].message = delivery[v][j].message
                       /\ delivery'[v][j].stage = delivery[v][j].stage
<1> USE DEF IInv
<1>1. /\ ready' \in [Message -> Nat]
      /\ \A m \in Message : m.retries = MaxAttempts => ready'[m] = ready[m]
  BY RequeueTyped DEF ConsumerDisconnects, Crash
<1>2. CASE ConsumerDisconnects(w)
  <2> DEFINE left == [k \in Slot |->
            IF delivery[w][k] = Free \/ delivery[w][k].stage = "abandoned" THEN Free
            ELSE [delivery[w][k] EXCEPT !.attached = FALSE]]
  <2>1. delivery' = [delivery EXCEPT ![w] = left]
    BY <1>2 DEF ConsumerDisconnects, TypeOK
  <2>2. \A k \in Slot :
           /\ left[k] \in Delivery \cup {Free}
           /\ \/ left[k] = Free
              \/ /\ delivery[w][k] # Free
                 /\ left[k].message = delivery[w][k].message
                 /\ left[k].stage = delivery[w][k].stage
    <3>1. TAKE k \in Slot
    <3>2. CASE delivery[w][k] = Free
      BY <3>2
    <3>3. CASE delivery[w][k] # Free
      <4>1. delivery[w][k] \in Delivery
        BY <3>3, DeliveryFields
      <4> QED
        BY <3>3, <4>1 DEF Delivery
    <3> QED
      BY <3>2, <3>3
  <2>3. left \in [Slot -> Delivery \cup {Free}]
    BY <2>2
  <2> HIDE DEF left
  <2>4. /\ delivery' \in [Workers -> [Slot -> Delivery \cup {Free}]]
        /\ delivery'[w] = left
        /\ \A v \in Workers : v # w => delivery'[v] = delivery[v]
    BY <2>1, <2>3 DEF TypeOK
  <2>5. TypeOK'
    BY <1>1, <1>2, <2>4 DEF ConsumerDisconnects, TypeOK, publishing, effects
  <2> QED
    BY <2>2, <2>4, <2>5
<1>3. CASE Crash(w)
  <2>1. /\ delivery' \in [Workers -> [Slot -> Delivery \cup {Free}]]
        /\ \A j \in Slot : delivery'[w][j] = Free
        /\ \A v \in Workers : v # w => delivery'[v] = delivery[v]
    BY <1>3 DEF Crash, TypeOK
  <2>2. TypeOK'
    BY <1>1, <1>3, <2>1 DEF Crash, TypeOK, effects, Dispatcher, Offline
  <2> QED
    BY <2>1, <2>2
<1> QED
  BY <1>2, <1>3

\* A delivery arrives with a message that was ready.
LEMMA DeliverMoves ==
    ASSUME ConstantsFit, IInv, NEW w \in Workers, NEW k \in Slot, Deliver(w, k)
    PROVE  \E m \in Message :
              /\ ready[m] > 0 /\ m.retries < MaxAttempts
              /\ ready' \in [Message -> Nat]
              /\ \A n \in Message : n # m => ready'[n] = ready[n]
              /\ \A n \in Message : ready'[n] <= ready[n]
              /\ delivery' \in [Workers -> [Slot -> Delivery \cup {Free}]]
              /\ delivery'[w][k] # Free
              /\ delivery'[w][k].message = m
              /\ delivery'[w][k].stage = "received"
              /\ delivery'[w][k].attached
              /\ \A v \in Workers, j \in Slot :
                    v # w \/ j # k => delivery'[v][j] = delivery[v][j]
<1> USE DEF IInv
<1>1. PICK m \in Message :
        /\ ready[m] > 0
        /\ ready' = [ready EXCEPT ![m] = @ - 1]
        /\ delivery' = [delivery EXCEPT ![w][k] =
              [message |-> m, stage |-> "received", attached |-> TRUE]]
  BY DEF Deliver
<1>2. m.retries \in 0 .. MaxAttempts /\ m.retries # MaxAttempts
  BY <1>1 DEF TypeOK, Message
<1>3. m.retries < MaxAttempts
  BY <1>2
<1>4. /\ ready' \in [Message -> Nat]
      /\ \A n \in Message : n # m => ready'[n] = ready[n]
      /\ \A n \in Message : ready'[n] <= ready[n]
  BY <1>1 DEF TypeOK
<1> DEFINE d == [message |-> m, stage |-> "received", attached |-> TRUE]
<1>5. /\ d \in Delivery /\ d.message = m /\ d.stage = "received" /\ d.attached
  BY DEF Delivery, Stage
<1>6. d # Free
  BY <1>5
<1> HIDE DEF d
<1>7. /\ delivery' \in [Workers -> [Slot -> Delivery \cup {Free}]]
      /\ delivery'[w][k] = d
      /\ \A v \in Workers, j \in Slot :
            v # w \/ j # k => delivery'[v][j] = delivery[v][j]
  BY <1>1, <1>5 DEF TypeOK, d
<1> QED
  BY <1>1, <1>3, <1>4, <1>5, <1>6, <1>7

\* Every step keeps the types and the attempts.
LEMMA StepTyped ==
    ASSUME ConstantsFit, IInv, [Next]_vars
    PROVE  TypeOK' /\ AttemptsLeft'
<1> USE DEF IInv
<1>1. ASSUME UNCHANGED vars PROVE TypeOK' /\ AttemptsLeft'
  BY <1>1 DEF vars, TypeOK, AttemptsLeft
<1>2. ASSUME NEW e \in Events, Record(e) PROVE TypeOK' /\ AttemptsLeft'
  BY <1>2 DEF Record, TypeOK, AttemptsLeft, broker, consuming, effects
<1>3. ASSUME NEW w \in Workers, Dispatch(w) \/ DispatcherFails(w)
      PROVE  TypeOK' /\ AttemptsLeft'
  <2>1. delivery' = delivery
    BY <1>3 DEF Dispatch, ConnectDispatcher, SelectBatch, BrokerAccepts, MarkPublished,
                DispatcherFails, consuming
  <2>2. AttemptsLeft'
    BY <2>1 DEF AttemptsLeft
  <2> QED
    BY <1>3, <2>2, DispatchTyped
<1>4. ASSUME NEW w \in Workers, ConnectConsumer(w) PROVE TypeOK' /\ AttemptsLeft'
  BY <1>4 DEF ConnectConsumer, Declares, TypeOK, AttemptsLeft, publishing, effects
<1>5. ASSUME NEW w \in Workers, NEW k \in Slot, Deliver(w, k) PROVE TypeOK' /\ AttemptsLeft'
  <2>1. PICK m \in Message :
          /\ ready[m] > 0 /\ m.retries < MaxAttempts
          /\ ready' \in [Message -> Nat]
          /\ \A n \in Message : n # m => ready'[n] = ready[n]
          /\ delivery' \in [Workers -> [Slot -> Delivery \cup {Free}]]
          /\ delivery'[w][k].message = m
          /\ \A v \in Workers, j \in Slot :
                v # w \/ j # k => delivery'[v][j] = delivery[v][j]
    BY <1>5, DeliverMoves
  <2>2. \A n \in Message : n.retries = MaxAttempts => ready'[n] = 0 /\ delayed[n] = 0
    BY <2>1 DEF TypeOK
  <2>3. TypeOK'
    BY <1>5, <2>1, <2>2 DEF Deliver, TypeOK, publishing, effects
  <2>4. AttemptsLeft'
    BY <2>1 DEF AttemptsLeft
  <2> QED
    BY <2>3, <2>4
<1>6. ASSUME NEW w \in Workers, NEW k \in Slot, Handle(w, k) \/ RepublishRefused(w, k)
      PROVE  TypeOK' /\ AttemptsLeft'
  BY <1>6, HandleTyped
<1>7. ASSUME NEW w \in Workers, ConsumerDisconnects(w) \/ Crash(w)
      PROVE  TypeOK' /\ AttemptsLeft'
  <2>1. AttemptsLeft'
    BY <1>7, FaultOfWorker DEF AttemptsLeft
  <2> QED
    BY <1>7, <2>1, FaultOfWorker
<1>8. ASSUME DelayExpires PROVE TypeOK' /\ AttemptsLeft'
  <2>1. AttemptsLeft'
    BY <1>8 DEF DelayExpires, AttemptsLeft, consuming
  <2>2. /\ ready' \in [Message -> Nat]
        /\ delayed' \in [Message -> Nat]
        /\ \A m \in Message : m.retries = MaxAttempts => ready'[m] = 0 /\ delayed'[m] = 0
    BY <1>8 DEF DelayExpires, TypeOK
  <2> QED
    BY <1>8, <2>1, <2>2 DEF DelayExpires, TypeOK, publishing, consuming, effects
<1> QED
  BY <1>1, <1>2, <1>3, <1>4, <1>5, <1>6, <1>7, <1>8 DEF Next, Receive, Rest

-----------------------------------------------------------------------------
(* Batches.                                                                *)

\* Only the dispatcher's steps touch batches, and these stay apart.
LEMMA StepKeepsBatches ==
    ASSUME ConstantsFit, IInv, [Next]_vars
    PROVE  BatchesLocked'
<1> USE DEF IInv
<1>1. dispatcher \in [Workers -> Dispatcher]
  BY DEF TypeOK
<1>2. ASSUME publishing' = publishing PROVE BatchesLocked'
  BY <1>2 DEF publishing, BatchesLocked
<1>3. ASSUME NEW e \in Events, Record(e) PROVE BatchesLocked'
  BY <1>3 DEF Record, BatchesLocked
<1>4. ASSUME NEW w \in Workers, ConnectDispatcher(w) PROVE BatchesLocked'
  BY <1>1, <1>4 DEF ConnectDispatcher, SetDispatcher, BatchesLocked
<1>5. ASSUME NEW w \in Workers, SelectBatch(w) PROVE BatchesLocked'
  <2> DEFINE B == Oldest(Selectable(w))
  <2>1. B \subseteq Selectable(w)
    BY DEF Oldest
  <2>2. /\ B \subseteq recorded \ published
        /\ \A v \in Workers : v # w => dispatcher[v].batch \cap B = {}
    BY <2>1 DEF Selectable
  <2>3. /\ dispatcher' = [dispatcher EXCEPT ![w] =
                [stage |-> "publishing", batch |-> B, unconfirmed |-> B]]
        /\ recorded' = recorded /\ published' = published
    BY <1>5 DEF SelectBatch, SetDispatcher
  <2> HIDE DEF B
  <2> QED
    BY <1>1, <2>2, <2>3 DEF BatchesLocked
<1>6. ASSUME NEW w \in Workers, BrokerAccepts(w) PROVE BatchesLocked'
  <2>1. /\ \A v \in Workers : /\ dispatcher'[v].batch = dispatcher[v].batch
                              /\ dispatcher'[v].stage = dispatcher[v].stage
                              /\ dispatcher'[v].unconfirmed \subseteq dispatcher[v].unconfirmed
        /\ recorded' = recorded /\ published' = published
    BY <1>1, <1>6 DEF BrokerAccepts, Dispatcher
  <2> QED
    BY <2>1 DEF BatchesLocked
<1>7. ASSUME NEW w \in Workers, MarkPublished(w) PROVE BatchesLocked'
  <2>1. dispatcher[w].batch \cap published = {}
    BY DEF BatchesLocked
  <2>2. /\ published' = published \cup dispatcher[w].batch
        /\ dispatcher' = [dispatcher EXCEPT ![w] =
                [stage |-> "idle", batch |-> {}, unconfirmed |-> {}]]
        /\ recorded' = recorded
    BY <1>7, <2>1 DEF MarkPublished, SetDispatcher
  <2> QED
    BY <1>1, <2>2 DEF BatchesLocked
<1>8. ASSUME NEW w \in Workers, DispatcherFails(w) \/ Crash(w) PROVE BatchesLocked'
  BY <1>1, <1>8 DEF DispatcherFails, Crash, Offline, BatchesLocked
<1>9. ASSUME NEW w \in Workers, Receive(w) \/ ConsumerDisconnects(w) PROVE publishing' = publishing
  BY <1>9 DEF Receive, ConnectConsumer, Deliver, ConsumerDisconnects, publishing
<1>10. ASSUME NEW w \in Workers, NEW k \in Slot, Handle(w, k) \/ RepublishRefused(w, k)
       PROVE  publishing' = publishing
  BY <1>10 DEF Handle, StartHandling, SendMail, CommitReceipt, HandlerFails,
               RejectEvent, Republish, RepublishRefused, Finish, publishing
<1>11. DelayExpires \/ Rest \/ UNCHANGED vars => publishing' = publishing
  BY DEF DelayExpires, Rest, vars, publishing
<1> QED
  BY <1>2, <1>3, <1>4, <1>5, <1>6, <1>7, <1>8, <1>9, <1>10, <1>11 DEF Next, Dispatch

-----------------------------------------------------------------------------
(* Handling under the advisory lock.                                       *)

\* Deliveries start under a free lock, and a receipt is written by its holder.
LEMMA StepKeepsHandling ==
    ASSUME ConstantsFit, IInv, [Next]_vars
    PROVE  HandledOnce'
<1> USE DEF IInv
<1> DEFINE Working(w, k) == InStage(w, k, {"handling", "sent"})
<1>1. ASSUME delivery' = delivery, receipts' = receipts PROVE HandledOnce'
  BY <1>1 DEF HandledOnce, InStage, EventOf
<1>2. ASSUME receipts' = receipts,
             \A v \in Workers, j \in Slot : Working(v, j)' =>
                 Working(v, j) /\ EventOf(v, j)' = EventOf(v, j)
      PROVE  HandledOnce'
  BY <1>2 DEF HandledOnce
<1>3. ASSUME NEW w \in Workers, NEW k \in Slot, NEW stage \in Stage, SetStage(w, k, stage),
             delivery[w][k] # Free
      PROVE  /\ InStage(w, k, {"handling", "sent"})' <=> stage \in {"handling", "sent"}
             /\ EventOf(w, k)' = EventOf(w, k)
             /\ \A v \in Workers, j \in Slot : v # w \/ j # k =>
                   (Working(v, j)' <=> Working(v, j)) /\ EventOf(v, j)' = EventOf(v, j)
  BY <1>3, StageChange DEF InStage, EventOf
<1>4. ASSUME NEW w \in Workers, NEW k \in Slot, Handle(w, k) \/ RepublishRefused(w, k)
      PROVE  HandledOnce'
  <2>1. CASE StartHandling(w, k)
    <3>1. CASE EventOf(w, k) \in receipts
      <4>1. SetStage(w, k, "done") /\ "done" \in Stage /\ delivery[w][k] # Free
            /\ receipts' = receipts
        BY <2>1, <3>1 DEF StartHandling, Stage, InStage, effects
      <4> QED
        BY <1>2, <1>3, <4>1
    <3>2. CASE EventOf(w, k) \notin receipts
      <4>1. SetStage(w, k, "handling") /\ "handling" \in Stage /\ delivery[w][k] # Free
            /\ receipts' = receipts
        BY <2>1, <3>2 DEF StartHandling, Stage, InStage, effects
      <4>2. \A v \in Workers, j \in Slot : Working(v, j) => EventOf(v, j) # EventOf(w, k)
        BY <2>1 DEF StartHandling, LockFree
      <4>3. /\ EventOf(w, k)' = EventOf(w, k)
            /\ \A v \in Workers, j \in Slot : v # w \/ j # k =>
                   (Working(v, j)' <=> Working(v, j)) /\ EventOf(v, j)' = EventOf(v, j)
        BY <1>3, <4>1
      <4> QED
        BY <3>2, <4>1, <4>2, <4>3 DEF HandledOnce
    <3> QED
      BY <3>1, <3>2
  <2>2. CASE SendMail(w, k)
    <3>1. SetStage(w, k, "sent") /\ "sent" \in Stage /\ delivery[w][k] # Free
          /\ receipts' = receipts /\ Working(w, k)
      BY <2>2 DEF SendMail, Stage, InStage
    <3> QED
      BY <1>2, <1>3, <3>1
  <2>3. ASSUME NEW stage \in {"done", "failed", "rejected", "republished", "abandoned"},
               SetStage(w, k, stage), delivery[w][k] # Free,
               \/ receipts' = receipts
               \/ Working(w, k) /\ receipts' = receipts \cup {EventOf(w, k)}
        PROVE  HandledOnce'
    <3>1. stage \in Stage /\ stage \notin {"handling", "sent"}
      BY <2>3 DEF Stage
    <3>2. /\ ~Working(w, k)'
          /\ \A v \in Workers, j \in Slot : v # w \/ j # k =>
                   (Working(v, j)' <=> Working(v, j)) /\ EventOf(v, j)' = EventOf(v, j)
      BY <1>3, <2>3, <3>1
    <3>3. CASE receipts' = receipts
      BY <1>2, <3>2, <3>3
    <3>4. CASE Working(w, k) /\ receipts' = receipts \cup {EventOf(w, k)}
      <4>1. \A v \in Workers, j \in Slot : Working(v, j)' =>
               EventOf(v, j)' # EventOf(w, k) /\ EventOf(v, j)' \notin receipts
        BY <3>2, <3>4 DEF HandledOnce
      <4> QED
        BY <3>2, <3>4, <4>1 DEF HandledOnce
    <3> QED
      BY <2>3, <3>3, <3>4
  <2>4. CASE CommitReceipt(w, k)
    BY <2>3, <2>4 DEF CommitReceipt, InStage
  <2>5. CASE HandlerFails(w, k)
    BY <2>3, <2>5 DEF HandlerFails, InStage
  <2>6. CASE RejectEvent(w, k)
    BY <2>3, <2>6 DEF RejectEvent, InStage, effects
  <2>7. CASE Republish(w, k)
    BY <2>3, <2>7 DEF Republish, InStage, effects
  <2>8. CASE RepublishRefused(w, k)
    BY <2>3, <2>8 DEF RepublishRefused, InStage, effects
  <2>9. CASE Finish(w, k)
    <3>1. \A v \in Workers, j \in Slot :
              delivery'[v][j] = Free \/ delivery'[v][j] = delivery[v][j]
      BY <2>9 DEF Finish, TypeOK
    <3>2. receipts' = receipts
      BY <2>9 DEF Finish, effects
    <3> QED
      BY <1>2, <3>1, <3>2 DEF InStage, EventOf
  <2> QED
    BY <1>4, <2>1, <2>2, <2>4, <2>5, <2>6, <2>7, <2>8, <2>9 DEF Handle
<1>5. ASSUME NEW w \in Workers, NEW k \in Slot, Deliver(w, k) PROVE HandledOnce'
  <2>1. /\ delivery'[w][k].stage = "received"
        /\ \A v \in Workers, j \in Slot :
              v # w \/ j # k => delivery'[v][j] = delivery[v][j]
    BY <1>5, DeliverMoves
  <2>2. receipts' = receipts
    BY <1>5 DEF Deliver, effects
  <2> QED
    BY <1>2, <2>1, <2>2 DEF InStage, EventOf
<1>6. ASSUME NEW w \in Workers, ConsumerDisconnects(w) \/ Crash(w) PROVE HandledOnce'
  <2>1. receipts' = receipts
    BY <1>6 DEF ConsumerDisconnects, Crash, effects
  <2> QED
    BY <1>2, <1>6, <2>1, FaultOfWorker DEF InStage, EventOf
<1>7. ASSUME NEW w \in Workers, Dispatch(w) \/ DispatcherFails(w) \/ ConnectConsumer(w)
      PROVE  HandledOnce'
  <2>1. delivery' = delivery /\ receipts' = receipts
    BY <1>7 DEF Dispatch, ConnectDispatcher, SelectBatch, BrokerAccepts, MarkPublished,
                DispatcherFails, ConnectConsumer, consuming, effects
  <2> QED
    BY <1>1, <2>1
<1>8. ASSUME NEW e \in Events, Record(e) PROVE HandledOnce'
  BY <1>1, <1>8 DEF Record, consuming, effects
<1>9. ASSUME DelayExpires \/ Rest \/ UNCHANGED vars PROVE HandledOnce'
  BY <1>1, <1>9 DEF DelayExpires, Rest, vars, consuming, effects
<1> QED
  BY <1>4, <1>5, <1>6, <1>7, <1>8, <1>9 DEF Next, Receive

-----------------------------------------------------------------------------
(* No step lets go of a kept event.                                        *)

\* A copy that no queue loses is still waiting.
LEMMA StillWaiting ==
    ASSUME ConstantsFit, TypeOK, TypeOK', NEW e,
           \A m \in Message : ready'[m] + delayed'[m] >= ready[m] + delayed[m],
           Waiting(e)
    PROVE  Waiting(e)'
<1>1. PICK m \in Message : m.event = e /\ ready[m] + delayed[m] > 0
  BY DEF Waiting
<1>2. /\ ready[m] \in Nat /\ delayed[m] \in Nat
      /\ ready'[m] \in Nat /\ delayed'[m] \in Nat
  BY DEF TypeOK
<1>3. ready'[m] + delayed'[m] > 0
  BY <1>1, <1>2
<1> QED
  BY <1>1, <1>3 DEF Waiting

\* A step of one slot, without loss in the queues or among receipts and dead
\* letters, keeps every event but perhaps the one of that slot.
LEMMA OtherSlotsKeep ==
    ASSUME ConstantsFit, TypeOK, TypeOK', NEW w \in Workers, NEW k \in Slot, NEW e,
           \A m \in Message : ready'[m] + delayed'[m] >= ready[m] + delayed[m],
           receipts \subseteq receipts', dead \subseteq dead',
           \A v \in Workers, j \in Slot :
              v # w \/ j # k => delivery'[v][j] = delivery[v][j],
           Kept(e)
    PROVE  Kept(e)' \/ InHands(w, k, e)
<1>1. CASE Waiting(e)
  BY <1>1, StillWaiting DEF Kept
<1>2. CASE Settled(e)
  BY <1>2 DEF Settled, Kept
<1>3. ASSUME NEW v \in Workers, NEW j \in Slot, InHands(v, j, e)
      PROVE  Kept(e)' \/ InHands(w, k, e)
  <2>1. CASE v = w /\ j = k
    BY <1>3, <2>1
  <2>2. CASE v # w \/ j # k
    BY <1>3, <2>2 DEF InHands, Kept
  <2> QED
    BY <2>1, <2>2
<1> QED
  BY <1>1, <1>2, <1>3 DEF Kept

\* What a lost channel or process held goes back to the queue.
LEMMA RequeueKeeps ==
    ASSUME ConstantsFit, IInv, TypeOK', NEW w \in Workers, ConsumerDisconnects(w) \/ Crash(w),
           NEW e, Kept(e)
    PROVE  Kept(e)'
<1> USE DEF IInv
<1>1. \A m \in Message : /\ ready[m] \in Nat /\ delayed[m] \in Nat
                         /\ Cardinality(Attached(w, m)) \in Nat
                         /\ ready'[m] = ready[m] + Cardinality(Attached(w, m))
                         /\ delayed'[m] = delayed[m]
  <2>1. RequeueUnacknowledged(w) /\ delayed' = delayed
    BY DEF ConsumerDisconnects, Crash
  <2> QED
    BY <2>1, AttachedCounted DEF RequeueUnacknowledged, TypeOK
<1>2. CASE Waiting(e)
  BY <1>1, <1>2, StillWaiting DEF Kept
<1>3. CASE Settled(e)
  BY <1>3 DEF ConsumerDisconnects, Crash, effects, Settled, Kept
<1>4. ASSUME NEW v \in Workers, NEW k \in Slot, InHands(v, k, e)
      PROVE  Kept(e)'
  <2>1. CASE v # w
    <3>1. delivery'[v][k] = delivery[v][k]
      BY <2>1, FaultOfWorker
    <3> QED
      BY <1>4, <3>1 DEF InHands, Kept
  <2>2. CASE v = w
    <3> DEFINE m == delivery[w][k].message
    <3>1. m \in Message /\ m.event = e /\ k \in Attached(w, m)
      BY <1>4, <2>2, DeliveryFields DEF InHands, Attached
    <3> HIDE DEF m
    <3>2. Cardinality(Attached(w, m)) > 0
      BY <3>1, AttachedCounted
    <3>3. ready'[m] + delayed'[m] > 0
      BY <1>1, <3>1, <3>2
    <3> QED
      BY <3>1, <3>3 DEF Waiting, Kept
  <2> QED
    BY <2>1, <2>2
<1> QED
  BY <1>2, <1>3, <1>4 DEF Kept

\* A delivery that is handled stays in the hands of its consumer.
LEMMA StageKeeps ==
    ASSUME ConstantsFit, TypeOK, TypeOK', NEW w \in Workers, NEW k \in Slot, delivery[w][k] # Free,
           NEW stage \in Stage \ {"republished"}, SetStage(w, k, stage),
           ready' = ready, delayed' = delayed,
           receipts \subseteq receipts', dead \subseteq dead',
           NEW e, Kept(e)
    PROVE  Kept(e)'
<1>1. /\ delivery'[w][k] # Free
      /\ delivery'[w][k].stage = stage
      /\ delivery'[w][k].message = delivery[w][k].message
      /\ delivery'[w][k].attached = delivery[w][k].attached
      /\ \A v \in Workers, j \in Slot :
            v # w \/ j # k => delivery'[v][j] = delivery[v][j]
  BY StageChange
<1>2. \A m \in Message : ready'[m] + delayed'[m] >= ready[m] + delayed[m]
  BY DEF TypeOK
<1>3. Kept(e)' \/ InHands(w, k, e)
  BY <1>1, <1>2, OtherSlotsKeep
<1>4. ASSUME InHands(w, k, e) PROVE InHands(w, k, e)'
  BY <1>1, <1>4 DEF InHands
<1> QED
  BY <1>3, <1>4 DEF Kept

\* A republished event has its new copy in the retry queue, or its dead letter.
LEMMA RepublishKeeps ==
    ASSUME ConstantsFit, IInv, TypeOK', NEW w \in Workers, NEW k \in Slot, Republish(w, k)
    PROVE  /\ Kept(EventOf(w, k))'
           /\ EventOf(w, k)' = EventOf(w, k)
           /\ \A e : Kept(e) => Kept(e)'
<1> USE DEF IInv
<1> DEFINE m == delivery[w][k].message
<1>1. /\ delivery[w][k] # Free /\ m \in Message /\ m.event = EventOf(w, k)
  BY DeliveryFields DEF Republish, InStage, EventOf
<1>2. SetStage(w, k, "republished") /\ "republished" \in Stage
      /\ ready' = ready /\ receipts' = receipts
  BY DEF Republish, Stage, effects
<1>3. /\ delivery'[w][k].message = delivery[w][k].message
      /\ \A v \in Workers, j \in Slot :
            v # w \/ j # k => delivery'[v][j] = delivery[v][j]
  BY <1>1, <1>2, StageChange
<1>4. /\ Kept(EventOf(w, k))'
      /\ \A n \in Message : ready'[n] + delayed'[n] >= ready[n] + delayed[n]
      /\ dead \subseteq dead'
  <2>1. \A n \in Message : ready[n] \in Nat /\ delayed[n] \in Nat
    BY DEF TypeOK
  <2>2. CASE InStage(w, k, {"failed"}) /\ RetryAgain(m)
    <3>1. /\ NextRetry(m) \in Message /\ NextRetry(m).event = m.event
      BY <1>1, <2>2, RetryMessage
    <3>2. delayed' = [delayed EXCEPT ![NextRetry(m)] = @ + 1] /\ dead' = dead
      BY <2>2 DEF Republish
    <3> DEFINE n == NextRetry(m)
    <3>3. n \in Message /\ n.event = EventOf(w, k)
          /\ delayed' = [delayed EXCEPT ![n] = @ + 1]
      BY <1>1, <3>1, <3>2
    <3> HIDE DEF n, m
    <3>4. delayed \in [Message -> Nat]
      BY DEF TypeOK
    <3>5. \A x \in Message : ready'[x] + delayed'[x] >= ready[x] + delayed[x]
      BY <1>2, <2>1, <3>3, <3>4
    <3>6. ready'[n] + delayed'[n] > 0
      BY <1>2, <2>1, <3>3, <3>4
    <3>7. n.event = EventOf(w, k)'
      BY <1>3, <3>3 DEF EventOf
    <3> QED
      BY <3>2, <3>3, <3>5, <3>6, <3>7 DEF Kept, Waiting
  <2>3. CASE ~(InStage(w, k, {"failed"}) /\ RetryAgain(m))
    <3>1. delayed' = delayed /\ dead' = dead \cup {m.event}
      BY <2>3 DEF Republish
    <3>2. EventOf(w, k)' \in dead'
      BY <1>1, <1>3, <3>1 DEF EventOf
    <3>3. \A x \in Message : ready'[x] + delayed'[x] >= ready[x] + delayed[x]
      BY <1>2, <2>1, <3>1
    <3> QED
      BY <3>1, <3>2, <3>3 DEF Kept, Settled
  <2> QED
    BY <2>2, <2>3
<1>5. EventOf(w, k)' = EventOf(w, k)
  BY <1>3 DEF EventOf
<1>6. ASSUME NEW e, Kept(e) PROVE Kept(e)'
  <2>1. Kept(e)' \/ InHands(w, k, e)
    BY <1>2, <1>3, <1>4, <1>6, OtherSlotsKeep
  <2>2. InHands(w, k, e) => e = EventOf(w, k)
    BY DEF InHands, EventOf
  <2>3. EventOf(w, k) = e => Kept(e)'
    BY <1>4, <1>5
  <2> QED
    BY <2>1, <2>2, <2>3
<1> QED
  BY <1>4, <1>5, <1>6

\* An acknowledged delivery leaves its event with a receipt or another copy.
LEMMA FinishKeeps ==
    ASSUME ConstantsFit, IInv, TypeOK', NEW w \in Workers, NEW k \in Slot, Finish(w, k),
           NEW e, Kept(e)
    PROVE  Kept(e)'
<1> USE DEF IInv
<1>1. \A v \in Workers, j \in Slot :
          v # w \/ j # k => delivery'[v][j] = delivery[v][j]
  BY DEF Finish, TypeOK
<1>2. ready' = ready /\ delayed' = delayed /\ receipts' = receipts /\ dead' = dead
  BY DEF Finish, broker, effects
<1>3. \A m \in Message : ready'[m] + delayed'[m] >= ready[m] + delayed[m]
  BY <1>2 DEF TypeOK
<1>4. Kept(e)' \/ InHands(w, k, e)
  BY <1>1, <1>2, <1>3, OtherSlotsKeep
<1>5. InHands(w, k, e) => InStage(w, k, {"done"}) /\ EventOf(w, k) = e
  BY DEF Finish, InHands, InStage, EventOf
<1>6. InHands(w, k, e) => e \in receipts'
  BY <1>2, <1>5 DEF EventsKept
<1> QED
  BY <1>4, <1>6 DEF Kept, Settled

\* A delivered event moves from the queue into the hands of its consumer.
LEMMA DeliverKeeps ==
    ASSUME ConstantsFit, IInv, TypeOK', NEW w \in Workers, NEW k \in Slot, Deliver(w, k),
           NEW e, Kept(e)
    PROVE  Kept(e)'
<1> USE DEF IInv
<1>1. delivery[w][k] = Free /\ delayed' = delayed /\ receipts' = receipts /\ dead' = dead
  BY DEF Deliver, effects
<1>2. PICK m \in Message :
        /\ \A n \in Message : n # m => ready'[n] = ready[n]
        /\ delivery'[w][k] # Free
        /\ delivery'[w][k].message = m
        /\ delivery'[w][k].stage = "received"
        /\ delivery'[w][k].attached
        /\ \A v \in Workers, j \in Slot :
              v # w \/ j # k => delivery'[v][j] = delivery[v][j]
  BY DeliverMoves
<1>3. CASE Waiting(e)
  <2>1. PICK n \in Message : n.event = e /\ ready[n] + delayed[n] > 0
    BY <1>3 DEF Waiting
  <2>2. CASE n = m
    BY <1>2, <2>1, <2>2 DEF InHands, Kept
  <2>3. CASE n # m
    BY <1>1, <1>2, <2>1, <2>3 DEF Waiting, Kept
  <2> QED
    BY <2>2, <2>3
<1>4. CASE Settled(e)
  BY <1>1, <1>4 DEF Settled, Kept
<1>5. ASSUME NEW v \in Workers, NEW j \in Slot, InHands(v, j, e) PROVE Kept(e)'
  <2>1. v # w \/ j # k
    BY <1>1, <1>5 DEF InHands
  <2> QED
    BY <1>2, <1>5, <2>1 DEF InHands, Kept
<1> QED
  BY <1>3, <1>4, <1>5 DEF Kept

\* The dispatcher only adds to the queue.
LEMMA DispatchKeeps ==
    ASSUME ConstantsFit, IInv, TypeOK', NEW w \in Workers, Dispatch(w) \/ DispatcherFails(w)
    PROVE  \A e : Kept(e) => Kept(e)'
<1>1. /\ delivery' = delivery /\ delayed' = delayed
      /\ receipts' = receipts /\ dead' = dead
  BY DEF Dispatch, ConnectDispatcher, SelectBatch, BrokerAccepts, MarkPublished,
         DispatcherFails, consuming, effects, broker
<1>2. \A m \in Message : ready'[m] + delayed'[m] >= ready[m] + delayed[m]
  <2>1. CASE BrokerAccepts(w)
    <3>1. PICK e \in dispatcher[w].unconfirmed :
            ready' = [ready EXCEPT ![[event |-> e, retries |-> 0]] = @ + 1]
      BY <2>1 DEF BrokerAccepts
    <3> DEFINE n == [event |-> e, retries |-> 0]
    <3> HIDE DEF n
    <3>2. ready' = [ready EXCEPT ![n] = @ + 1]
      BY <3>1 DEF n
    <3> QED
      BY <1>1, <3>2 DEF IInv, TypeOK
  <2>2. CASE ~BrokerAccepts(w)
    <3>1. ready' = ready
      BY <2>2 DEF Dispatch, ConnectDispatcher, SelectBatch, MarkPublished,
                  DispatcherFails, broker
    <3> QED
      BY <1>1, <3>1 DEF IInv, TypeOK
  <2> QED
    BY <2>1, <2>2
<1> QED
  BY <1>1, <1>2, StillWaiting DEF IInv, Kept, Settled, InHands

\* No step of the system loses a kept event.
LEMMA StepKeeps ==
    ASSUME ConstantsFit, IInv, [Next]_vars, TypeOK', NEW e, Kept(e)
    PROVE  Kept(e)'
<1> USE DEF IInv
<1>1. ASSUME broker' = broker, delivery' = delivery, receipts' = receipts
      PROVE  Kept(e)'
  BY <1>1 DEF Kept, Waiting, InHands, Settled, broker
<1>2. ASSUME NEW x \in Events, Record(x) PROVE Kept(e)'
  BY <1>1, <1>2 DEF Record, consuming, effects
<1>3. ASSUME Rest \/ UNCHANGED vars PROVE Kept(e)'
  BY <1>1, <1>3 DEF Rest, vars, broker
<1>4. ASSUME NEW w \in Workers, ConnectConsumer(w) PROVE Kept(e)'
  BY <1>4 DEF ConnectConsumer, effects, Kept, Waiting, InHands, Settled
<1>5. ASSUME DelayExpires PROVE Kept(e)'
  <2>1. /\ delivery' = delivery /\ receipts' = receipts /\ dead' = dead
    BY <1>5 DEF DelayExpires, consuming, effects
  <2>2. \A m \in Message : ready'[m] + delayed'[m] >= ready[m] + delayed[m]
    BY <1>5 DEF DelayExpires, TypeOK
  <2>3. Waiting(e) => Waiting(e)'
    BY <2>2, StillWaiting
  <2> QED
    BY <2>1, <2>3 DEF Kept, InHands, Settled
<1>6. ASSUME NEW w \in Workers, NEW k \in Slot, Handle(w, k) \/ RepublishRefused(w, k)
      PROVE  Kept(e)'
  <2>1. CASE Finish(w, k)
    BY <2>1, FinishKeeps
  <2>2. CASE Republish(w, k)
    BY <2>2, RepublishKeeps
  <2>3. CASE ~Finish(w, k) /\ ~Republish(w, k)
    <3>1. delivery[w][k] # Free
      BY <1>6, <2>3 DEF Handle, StartHandling, SendMail, CommitReceipt, HandlerFails,
                        RejectEvent, RepublishRefused, InStage
    <3>2. PICK stage \in Stage \ {"republished"} : SetStage(w, k, stage)
      BY <1>6, <2>3 DEF Handle, StartHandling, SendMail, CommitReceipt, HandlerFails,
                        RejectEvent, RepublishRefused, Stage
    <3>3. ready' = ready /\ delayed' = delayed /\ dead' = dead /\ receipts \subseteq receipts'
      BY <1>6, <2>3 DEF Handle, StartHandling, SendMail, CommitReceipt, HandlerFails,
                        RejectEvent, RepublishRefused, broker, effects
    <3> QED
      BY <3>1, <3>2, <3>3, StageKeeps
  <2> QED
    BY <2>1, <2>2, <2>3
<1>7. ASSUME NEW w \in Workers, NEW k \in Slot, Deliver(w, k) PROVE Kept(e)'
  BY <1>7, DeliverKeeps
<1>8. ASSUME NEW w \in Workers, Dispatch(w) \/ DispatcherFails(w) PROVE Kept(e)'
  BY <1>8, DispatchKeeps
<1>9. ASSUME NEW w \in Workers, ConsumerDisconnects(w) \/ Crash(w) PROVE Kept(e)'
  BY <1>9, RequeueKeeps
<1> QED
  BY <1>2, <1>3, <1>4, <1>5, <1>6, <1>7, <1>8, <1>9 DEF Next, Receive

\* A published row, and a row the broker took, is kept from then on.
LEMMA StepKeepsPublished ==
    ASSUME ConstantsFit, IInv, [Next]_vars, TypeOK'
    PROVE  /\ \A e \in published' : Kept(e)'
           /\ \A w \in Workers :
                 \A e \in dispatcher'[w].batch \ dispatcher'[w].unconfirmed : Kept(e)'
<1> USE DEF IInv
<1>1. \A e : Kept(e) => Kept(e)'
  BY StepKeeps
<1>2. dispatcher \in [Workers -> Dispatcher]
  BY DEF TypeOK
<1> DEFINE Goal == /\ \A e \in published' : Kept(e)'
                   /\ \A w \in Workers :
                         \A e \in dispatcher'[w].batch \ dispatcher'[w].unconfirmed :
                            Kept(e)'
<1>3. ASSUME published' = published,
             \A w \in Workers :
                dispatcher'[w] = dispatcher[w]
                \/ dispatcher'[w].batch \subseteq dispatcher'[w].unconfirmed
      PROVE  Goal
  BY <1>1, <1>3 DEF EventsKept
<1>4. ASSUME NEW w \in Workers, ConnectDispatcher(w) \/ SelectBatch(w) \/ DispatcherFails(w)
                                \/ Crash(w)
      PROVE  Goal
  <2>1. published' = published
    BY <1>4 DEF ConnectDispatcher, SelectBatch, DispatcherFails, Crash
  <2>2. \A v \in Workers : dispatcher'[v] = dispatcher[v]
                           \/ dispatcher'[v].batch \subseteq dispatcher'[v].unconfirmed
    BY <1>2, <1>4 DEF ConnectDispatcher, SelectBatch, DispatcherFails, Crash,
                      SetDispatcher, Offline
  <2> QED
    BY <1>3, <2>1, <2>2
<1>5. ASSUME NEW w \in Workers, BrokerAccepts(w) PROVE Goal
  <2>1. PICK x \in dispatcher[w].unconfirmed :
          /\ dispatcher' = [dispatcher EXCEPT ![w].unconfirmed = @ \ {x}]
          /\ ready' = [ready EXCEPT ![[event |-> x, retries |-> 0]] = @ + 1]
    BY <1>5 DEF BrokerAccepts
  <2>2. x \in Events
    BY <1>2 DEF Dispatcher
  <2>3. delayed' = delayed /\ published' = published
    BY <1>5 DEF BrokerAccepts
  <2>4. Kept(x)'
    <3> DEFINE n == [event |-> x, retries |-> 0]
    <3>1. n \in Message /\ n.event = x
      BY <2>2, NewMessage
    <3>2. ready' = [ready EXCEPT ![n] = @ + 1]
      BY <2>1
    <3> HIDE DEF n
    <3>3. ready'[n] + delayed'[n] > 0
      BY <2>3, <3>1, <3>2 DEF TypeOK
    <3> QED
      BY <3>1, <3>3 DEF Waiting, Kept
  <2>5. /\ \A v \in Workers : v # w => dispatcher'[v] = dispatcher[v]
        /\ dispatcher'[w].batch = dispatcher[w].batch
        /\ dispatcher'[w].unconfirmed = dispatcher[w].unconfirmed \ {x}
    BY <1>2, <2>1 DEF Dispatcher
  <2> QED
    BY <1>1, <2>3, <2>4, <2>5 DEF EventsKept
<1>6. ASSUME NEW w \in Workers, MarkPublished(w) PROVE Goal
  <2>1. dispatcher[w].batch \cap published = {} /\ dispatcher[w].unconfirmed = {}
    BY <1>6 DEF BatchesLocked, MarkPublished, Confirmed
  <2>2. /\ published' = published \cup dispatcher[w].batch
        /\ dispatcher' = [dispatcher EXCEPT ![w] =
                [stage |-> "idle", batch |-> {}, unconfirmed |-> {}]]
    BY <1>6, <2>1 DEF MarkPublished, SetDispatcher
  <2> QED
    BY <1>1, <1>2, <2>1, <2>2 DEF EventsKept
<1>7. ASSUME UNCHANGED <<published, dispatcher>> PROVE Goal
  BY <1>1, <1>7 DEF EventsKept
<1>8. ASSUME NEW w \in Workers, Receive(w) \/ ConsumerDisconnects(w)
      PROVE  UNCHANGED <<published, dispatcher>>
  BY <1>8 DEF Receive, ConnectConsumer, Deliver, ConsumerDisconnects, publishing
<1>9. ASSUME NEW w \in Workers, NEW k \in Slot, Handle(w, k) \/ RepublishRefused(w, k)
      PROVE  UNCHANGED <<published, dispatcher>>
  BY <1>9 DEF Handle, StartHandling, SendMail, CommitReceipt, HandlerFails,
              RejectEvent, Republish, RepublishRefused, Finish, publishing
<1>10. DelayExpires \/ Rest \/ UNCHANGED vars \/ (\E e \in Events : Record(e))
         => UNCHANGED <<published, dispatcher>>
  BY DEF DelayExpires, Rest, Record, vars, publishing
<1> HIDE DEF Goal
<1>11. Goal
  BY <1>4, <1>5, <1>6, <1>7, <1>8, <1>9, <1>10 DEF Next, Dispatch
<1> QED
  BY <1>11 DEF Goal

\* A delivery is done once its receipt is written, and republished once its new
\* copy is confirmed.
LEMMA StepKeepsStages ==
    ASSUME ConstantsFit, IInv, [Next]_vars, TypeOK', NEW w \in Workers, NEW k \in Slot
    PROVE  /\ InStage(w, k, {"done"})' => EventOf(w, k)' \in receipts'
           /\ InStage(w, k, {"republished"})' => Kept(EventOf(w, k))'
<1> USE DEF IInv
<1>1. \A e : Kept(e) => Kept(e)'
  BY StepKeeps
<1>2. receipts \subseteq receipts'
  BY DEF Next, Record, Dispatch, ConnectDispatcher, SelectBatch, BrokerAccepts,
         MarkPublished, DispatcherFails, Receive, ConnectConsumer, Deliver, Handle,
         StartHandling, SendMail, CommitReceipt, HandlerFails, RejectEvent, Republish,
         RepublishRefused, Finish, ConsumerDisconnects, Crash, DelayExpires, Rest,
         vars, effects
<1> DEFINE Goal == /\ InStage(w, k, {"done"})' => EventOf(w, k)' \in receipts'
                   /\ InStage(w, k, {"republished"})' => Kept(EventOf(w, k))'
<1>3. ASSUME \/ delivery'[w][k] = Free
             \/ delivery'[w][k].stage \notin {"done", "republished"}
             \/ /\ delivery[w][k] # Free
                /\ delivery'[w][k].stage = delivery[w][k].stage
                /\ delivery'[w][k].message = delivery[w][k].message
      PROVE  Goal
  <2>1. CASE delivery'[w][k] = Free \/ delivery'[w][k].stage \notin {"done", "republished"}
    BY <2>1 DEF InStage
  <2>2. CASE /\ delivery[w][k] # Free
             /\ delivery'[w][k].stage = delivery[w][k].stage
             /\ delivery'[w][k].message = delivery[w][k].message
    <3>1. EventOf(w, k)' = EventOf(w, k)
      BY <2>2 DEF EventOf
    <3>2. InStage(w, k, {"done"})' => EventOf(w, k)' \in receipts'
      BY <1>2, <2>2, <3>1 DEF InStage, EventsKept
    <3>3. InStage(w, k, {"republished"})' => Kept(EventOf(w, k))
      BY <2>2 DEF InStage, EventsKept
    <3>4. Kept(EventOf(w, k)) => Kept(EventOf(w, k))'
      <4> DEFINE e == EventOf(w, k)
      <4>1. e' = e
        BY <3>1
      <4>2. Kept(e) => \A x : x = e => Kept(x)'
        BY <1>1
      <4> QED
        BY <4>1, <4>2 DEF Kept
    <3> QED
      BY <3>2, <3>3, <3>4
  <2> QED
    BY <1>3, <2>1, <2>2
<1> HIDE DEF Goal
<1>4. ASSUME delivery' = delivery PROVE Goal
  BY <1>3, <1>4
<1>5. ASSUME NEW v \in Workers, NEW j \in Slot, v # w \/ j # k,
             Handle(v, j) \/ RepublishRefused(v, j) \/ Deliver(v, j)
      PROVE  Goal
  <2>1. delivery'[w][k] = delivery[w][k]
    BY <1>5 DEF Handle, StartHandling, SendMail, CommitReceipt, HandlerFails,
                RejectEvent, Republish, RepublishRefused, Finish, Deliver, SetStage, TypeOK
  <2> QED
    BY <1>3, <2>1
<1>6. ASSUME Handle(w, k) \/ RepublishRefused(w, k) PROVE Goal
  <2>1. CASE Finish(w, k)
    <3>1. delivery'[w][k] = Free
      BY <2>1 DEF Finish, TypeOK
    <3> QED
      BY <1>3, <3>1
  <2>2. CASE Republish(w, k)
    <3>1. delivery'[w][k].stage = "republished"
      BY <2>2, StageChange DEF Republish, InStage, Stage
    <3> QED
      BY <2>2, <3>1, RepublishKeeps DEF Goal, InStage
  <2>3. CASE StartHandling(w, k)
    <3>1. CASE EventOf(w, k) \in receipts
      <4>1. delivery[w][k] # Free /\ SetStage(w, k, "done") /\ "done" \in Stage
        BY <2>3, <3>1 DEF StartHandling, InStage, Stage
      <4>2. delivery'[w][k].stage = "done" /\ delivery'[w][k].message = delivery[w][k].message
        BY <4>1, StageChange
      <4> QED
        BY <1>2, <3>1, <4>2 DEF Goal, InStage, EventOf
    <3>2. CASE EventOf(w, k) \notin receipts
      <4>1. delivery[w][k] # Free /\ SetStage(w, k, "handling") /\ "handling" \in Stage
        BY <2>3, <3>2 DEF StartHandling, InStage, Stage
      <4> QED
        BY <1>3, <4>1, StageChange
    <3> QED
      BY <3>1, <3>2
  <2>4. CASE CommitReceipt(w, k)
    <3>1. delivery'[w][k].stage = "done" /\ delivery'[w][k].message = delivery[w][k].message
      BY <2>4, StageChange DEF CommitReceipt, InStage, Stage
    <3>2. EventOf(w, k) \in receipts'
      BY <2>4 DEF CommitReceipt
    <3> QED
      BY <3>1, <3>2 DEF Goal, InStage, EventOf
  <2>5. CASE SendMail(w, k) \/ HandlerFails(w, k) \/ RejectEvent(w, k) \/ RepublishRefused(w, k)
    <3>1. PICK stage \in Stage \ {"done", "republished"} : SetStage(w, k, stage)
      BY <2>5 DEF SendMail, HandlerFails, RejectEvent, RepublishRefused, Stage
    <3>2. delivery[w][k] # Free
      BY <2>5 DEF SendMail, HandlerFails, RejectEvent, RepublishRefused, InStage
    <3>3. delivery'[w][k].stage = stage
      BY <3>1, <3>2, StageChange
    <3> QED
      BY <1>3, <3>3
  <2> QED
    BY <1>6, <2>1, <2>2, <2>3, <2>4, <2>5 DEF Handle
<1>7. ASSUME Deliver(w, k) PROVE Goal
  <2>1. delivery'[w][k].stage = "received"
    BY <1>7, DeliverMoves
  <2> QED
    BY <1>3, <2>1
<1>8. ASSUME NEW v \in Workers, ConsumerDisconnects(v) \/ Crash(v) PROVE Goal
  BY <1>3, <1>8, FaultOfWorker
<1>9. ASSUME NEW v \in Workers, Dispatch(v) \/ DispatcherFails(v) \/ ConnectConsumer(v)
      PROVE  Goal
  <2>1. delivery' = delivery
    BY <1>9 DEF Dispatch, ConnectDispatcher, SelectBatch, BrokerAccepts, MarkPublished,
                DispatcherFails, ConnectConsumer, consuming
  <2> QED
    BY <1>4, <2>1
<1>10. ASSUME DelayExpires \/ Rest \/ UNCHANGED vars \/ (\E e \in Events : Record(e))
       PROVE  Goal
  <2>1. delivery' = delivery
    BY <1>10 DEF DelayExpires, Rest, Record, vars, consuming
  <2> QED
    BY <1>4, <2>1
<1>11. Goal
  BY <1>5, <1>6, <1>7, <1>8, <1>9, <1>10 DEF Next, Receive
<1> QED
  BY <1>11 DEF Goal

-----------------------------------------------------------------------------
(* Theorems.                                                               *)

\* Every reachable state satisfies the inductive invariant: types, attempts,
\* locked batches, kept events and handling under the lock.
THEOREM Invariance ==
    ASSUME ConstantsFit
    PROVE  Spec => []IInv
<1>1. Init => IInv
  <2> SUFFICES ASSUME Init PROVE IInv
    OBVIOUS
  <2>1. TypeOK
    BY DEF Init, TypeOK, Dispatcher, Offline, Undeclared, Events, Message
  <2>2. AttemptsLeft /\ BatchesLocked /\ EventsKept /\ HandledOnce
    BY DEF Init, AttemptsLeft, BatchesLocked, EventsKept, HandledOnce, Offline, InStage
  <2> QED
    BY <2>1, <2>2 DEF IInv
<1>2. IInv /\ [Next]_vars => IInv'
  <2> SUFFICES ASSUME IInv, [Next]_vars PROVE IInv'
    OBVIOUS
  <2>1. TypeOK' /\ AttemptsLeft'
    BY StepTyped
  <2>2. EventsKept'
    BY <2>1, StepKeepsPublished, StepKeepsStages DEF EventsKept
  <2> QED
    BY <2>1, <2>2, StepKeepsBatches, StepKeepsHandling DEF IInv
<1> QED
  BY <1>1, <1>2, PTL DEF Spec

\* A kept event is in the broker or settled.
LEMMA KeptIsAccountedFor ==
    ASSUME ConstantsFit, TypeOK, NEW e, Kept(e)
    PROVE  InBroker(e) \/ Settled(e)
<1>1. Waiting(e) => InBroker(e)
  BY DEF Waiting, InBroker
<1>2. ASSUME NEW w \in Workers, NEW k \in Slot, InHands(w, k, e) PROVE InBroker(e)
  <2> DEFINE m == delivery[w][k].message
  <2>1. m \in Message /\ m.event = e /\ k \in Attached(w, m)
    BY <1>2, DeliveryFields DEF InHands, Attached
  <2> HIDE DEF m
  <2> QED
    BY <2>1 DEF InBroker
<1> QED
  BY <1>1, <1>2 DEF Kept

\* Through crashes, lost connections and refused confirms no committed event is
\* lost, no row is in two batches or published twice, and no message outlives
\* its attempts.
THEOREM OutboxStaysConsistent ==
    ASSUME ConstantsFit
    PROVE  Spec => []OutboxConsistent
<1>1. IInv => OutboxConsistent
  <2> SUFFICES ASSUME IInv PROVE OutboxConsistent
    OBVIOUS
  <2>1. BatchUnpublished
    BY DEF IInv, BatchesLocked, BatchUnpublished
  <2>2. NoEventLost
    BY KeptIsAccountedFor DEF IInv, EventsKept, NoEventLost
  <2> QED
    BY <2>1, <2>2 DEF IInv, OutboxConsistent
<1> QED
  BY <1>1, Invariance, PTL

\* Duplicates of an event never send its mail side by side, nor after its
\* receipt.
THEOREM MailsGoOneAtATime ==
    ASSUME ConstantsFit
    PROVE  Spec => MailsOneAtATime
<1>1. IInv /\ [Next]_vars => [OneMail]_vars
  <2> SUFFICES ASSUME IInv, [Next]_vars PROVE OneMail
    OBVIOUS
  <2>1. ASSUME NEW w \in Workers, NEW k \in Slot, SendMail(w, k) PROVE OneMail
    <3>1. InStage(w, k, {"handling"}) /\ ~InStage(w, k, {"sent"})
      BY <2>1 DEF SendMail, InStage
    <3>2. InStage(w, k, {"handling", "sent"})
      BY <3>1 DEF InStage
    <3>3. EventOf(w, k) \notin receipts
      BY <3>2 DEF IInv, HandledOnce
    <3>4. \A v \in Workers, j \in Slot :
              InStage(v, j, {"sent"}) => EventOf(v, j) # EventOf(w, k)
      <4>1. SUFFICES ASSUME NEW v \in Workers, NEW j \in Slot, InStage(v, j, {"sent"}),
                            EventOf(v, j) = EventOf(w, k)
                     PROVE  FALSE
        OBVIOUS
      <4>2. InStage(v, j, {"handling", "sent"})
        BY <4>1 DEF InStage
      <4>3. v = w /\ j = k
        BY <3>2, <4>1, <4>2 DEF IInv, HandledOnce
      <4> QED
        BY <3>1, <4>1, <4>3
    <3>5. \A e \in Events : mails'[e] # mails[e] => e = EventOf(w, k)
      BY <2>1 DEF SendMail, IInv, TypeOK
    <3> QED
      BY <3>3, <3>4, <3>5 DEF OneMail
  <2>2. ASSUME mails' = mails PROVE OneMail
    BY <2>2 DEF OneMail
  <2>3. (\A w \in Workers, k \in Slot : ~SendMail(w, k)) => mails' = mails
    BY DEF Next, Record, Dispatch, ConnectDispatcher, SelectBatch, BrokerAccepts,
           MarkPublished, DispatcherFails, Receive, ConnectConsumer, Deliver, Handle,
           StartHandling, CommitReceipt, HandlerFails, RejectEvent, Republish,
           RepublishRefused, Finish, ConsumerDisconnects, Crash, DelayExpires, Rest,
           vars, effects
  <2> QED
    BY <2>1, <2>2, <2>3
<1> QED
  BY <1>1, Invariance, PTL DEF Spec, MailsOneAtATime
=============================================================================
