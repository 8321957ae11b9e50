--------------------------- MODULE OutboxPublisher ---------------------------
(***************************************************************************)
(* OutboxKafkaPublisher: processes that poll event_outbox, hand the events *)
(* to a Kafka producer and write the outcome back when the producer calls  *)
(* the delivery report.  The producer (librdkafka) is external: it queues  *)
(* messages in memory, sends them in the background, and calls reports     *)
(* only while the publisher flushes.                                       *)
(*                                                                         *)
(* Events enter the table by the append transaction of the command path,   *)
(* and nothing that runs takes a row out of it again.                      *)
(***************************************************************************)
EXTENDS Naturals, FiniteSets, Bags, BagsExt

CONSTANTS
  Publishers,     \* running publisher processes
  Events,         \* rows event_outbox may get
  CreatedAt,      \* created_at of each event
  Poison,         \* events produce() refuses, e.g. larger than message.max.bytes
  Limit,          \* rows per poll (20)
  QueueSize,      \* messages the producer can hold
  MaxRetries,     \* KAFKA_RETRIES
  MaxRetryCount,  \* largest value of the retry_count column
  MaxCopies,      \* bound: copies of an event in the topic are counted up to it
  MaxRestarts,    \* bound: how often publishers fail or are restarted
  None            \* no event

ASSUME CreatedAtAssumption == CreatedAt \in [Events -> Nat]
ASSUME PoisonAssumption == Poison \subseteq Events
ASSUME SizesAssumption ==
  /\ Limit \in Nat \ {0} /\ QueueSize \in Nat \ {0} /\ MaxCopies \in Nat \ {0}
  /\ MaxRetries \in Nat \ {0} /\ MaxRetryCount \in Nat /\ MaxRestarts \in Nat
  /\ MaxRetries <= MaxRetryCount
ASSUME NoneIsNoEvent == None \notin Events

VARIABLES
  stored,         \* rows of event_outbox
  published,      \* rows with published_at set
  processed,      \* rows with processed_at set: published or dead
  retry_count,    \* column of each row
  copies,         \* copies of each event in the Kafka topic
  at,             \* where each publisher is
  batch,          \* the events it fetched and has not handed over yet
  messages,       \* what its producer holds: messages and reports not yet called
  checking,       \* the event whose failure it has marked and not yet checked
  dying,          \* the event it has found to be dead and not yet given up
  restarts        \* how often publishers failed or were restarted

rows == <<stored, published, processed, retry_count>>
vars == <<rows, copies, at, batch, messages, checking, dying, restarts>>

Places == {"poll", "select", "produce", "refill", "flush"}
Messages == [event: Events, state: {"queued", "delivered", "failed"}]
Message(e, state) == [event |-> e, state |-> state]

Init ==
  /\ stored = {}
  /\ published = {}
  /\ processed = {}
  /\ retry_count = [e \in Events |-> 0]
  /\ copies = [e \in Events |-> 0]
  /\ at = [p \in Publishers |-> "poll"]
  /\ batch = [p \in Publishers |-> {}]
  /\ messages = [p \in Publishers |-> EmptyBag]
  /\ checking = [p \in Publishers |-> None]
  /\ dying = [p \in Publishers |-> None]
  /\ restarts = 0

Goto(p, place) == at' = [at EXCEPT ![p] = place]

\* An append transaction commits the row.
Append(e) ==
  /\ e \in Events \ stored
  /\ stored' = stored \cup {e}
  /\ UNCHANGED <<published, processed, retry_count, copies, at, batch, messages,
                 checking, dying, restarts>>

(***************************************************************************)
(* get_unpublished_events: the oldest unprocessed rows nobody else has     *)
(* locked.  The locks end with the transaction, before the rows are used.  *)
(***************************************************************************)
LockedByOthers(p) == UNION {batch[q] : q \in {q \in Publishers \ {p} : at[q] = "select"}}

\* Mutant: the query asks for published_at instead of processed_at.
UnpublishedRows == stored \ published

Unprocessed == stored \ processed

\* The first rows of the set in the order of created_at, as many as the limit.
IsOldest(chosen, candidates) ==
  /\ chosen \subseteq candidates
  /\ \/ chosen = candidates /\ Cardinality(chosen) <= Limit
     \/ Cardinality(chosen) = Limit
  /\ \A e \in chosen, f \in candidates \ chosen : CreatedAt[e] <= CreatedAt[f]

Poll(p) ==
  /\ at[p] = "poll"
  /\ \E chosen \in SUBSET (Unprocessed \ LockedByOthers(p)) :
       /\ chosen # {}
       /\ IsOldest(chosen, Unprocessed \ LockedByOthers(p))
       /\ batch' = [batch EXCEPT ![p] = chosen]
  /\ Goto(p, "select")
  /\ UNCHANGED <<rows, copies, messages, checking, dying, restarts>>

ReleaseLocks(p) ==
  /\ at[p] = "select"
  /\ Goto(p, "produce")
  /\ UNCHANGED <<rows, copies, batch, messages, checking, dying, restarts>>

(***************************************************************************)
(* The loop over the batch.                                                *)
(***************************************************************************)
IsNext(p, e) == e \in batch[p] /\ \A f \in batch[p] : CreatedAt[e] <= CreatedAt[f]

HasRoom(p) == BagCardinality(messages[p]) < QueueSize

Taken(p, e) == batch' = [batch EXCEPT ![p] = @ \ {e}]

Produce(p) ==
  /\ at[p] = "produce"
  /\ HasRoom(p)
  /\ \E e \in batch[p] \ Poison :
       /\ IsNext(p, e)
       /\ messages' = [messages EXCEPT ![p] = BagAdd(@, Message(e, "queued"))]
       /\ Taken(p, e)
  /\ UNCHANGED <<rows, copies, at, checking, dying, restarts>>

\* Mutant: a column without a limit.
MarksWithoutLimit(e) == retry_count' = [retry_count EXCEPT ![e] = @ + 1]

\* mark_as_failed: retry_count + 1, unless the column overflows.
Marks(e) ==
  /\ retry_count[e] < MaxRetryCount
  /\ retry_count' = [retry_count EXCEPT ![e] = @ + 1]

\* Any error of produce() but a full buffer: marked as failed, nothing else.
ProduceRefused(p) ==
  /\ at[p] = "produce"
  /\ \E e \in batch[p] \cap Poison : IsNext(p, e) /\ Marks(e) /\ Taken(p, e)
  /\ UNCHANGED <<stored, published, processed, copies, at, messages, checking,
                 dying, restarts>>

\* BufferError: flush, then try the same event again.
BufferFull(p) ==
  /\ at[p] = "produce"
  /\ ~HasRoom(p)
  /\ \E e \in batch[p] \ Poison : IsNext(p, e)
  /\ Goto(p, "refill")
  /\ UNCHANGED <<rows, copies, batch, messages, checking, dying, restarts>>

BatchDone(p) ==
  /\ at[p] = "produce"
  /\ batch[p] = {}
  /\ Goto(p, "flush")
  /\ UNCHANGED <<rows, copies, batch, messages, checking, dying, restarts>>

(***************************************************************************)
(* flush(timeout=10): calls the delivery reports that have arrived, and    *)
(* returns when the producer is empty or the time is over.                 *)
(***************************************************************************)
InReport(p) == checking[p] # None \/ dying[p] # None

Flushing(p) == at[p] \in {"refill", "flush"} /\ ~InReport(p)

Reported(p, e, state) ==
  /\ Flushing(p)
  /\ BagIn(Message(e, state), messages[p])
  /\ messages' = [messages EXCEPT ![p] = BagRemove(@, Message(e, state))]

\* mark_as_published, idempotent: a published row keeps its times.
ReportDelivered(p) ==
  /\ \E e \in Events :
       /\ Reported(p, e, "delivered")
       /\ published' = published \cup {e}
       /\ processed' = processed \cup IF e \in published THEN {} ELSE {e}
  /\ UNCHANGED <<stored, retry_count, copies, at, batch, checking, dying,
                 restarts>>

ReportFailed(p) ==
  /\ \E e \in Events :
       /\ Reported(p, e, "failed")
       /\ Marks(e)
       /\ checking' = [checking EXCEPT ![p] = e]
  /\ UNCHANGED <<stored, published, processed, copies, at, batch, dying,
                 restarts>>

\* The second half of a failed report reads the row again: an event is dead after
\* KAFKA_RETRIES failures.
Checks(p, isDead) ==
  /\ checking[p] # None
  /\ dying' = IF isDead THEN [dying EXCEPT ![p] = checking[p]] ELSE dying
  /\ checking' = [checking EXCEPT ![p] = None]
  /\ UNCHANGED <<rows, copies, at, batch, messages, restarts>>

\* Mutants: an event is dead one failure early, and never.
CheckDeadEarly(p) == Checks(p, retry_count[checking[p]] + 1 >= MaxRetries)

CheckDeadNever(p) == Checks(p, FALSE)

CheckDead(p) == Checks(p, retry_count[checking[p]] >= MaxRetries)

\* A statement of its own sets processed_at, whatever the row holds by now.
GiveUp(p) ==
  /\ dying[p] # None
  /\ processed' = processed \cup {dying[p]}
  /\ dying' = [dying EXCEPT ![p] = None]
  /\ UNCHANGED <<stored, published, retry_count, copies, at, batch, messages,
                 checking, restarts>>

\* The flush of the whole batch ends: sleep, and poll again.
FlushEnds(p) ==
  /\ at[p] = "flush"
  /\ ~InReport(p)
  /\ \A m \in BagToSet(messages[p]) : m.state = "queued"
  /\ Goto(p, "poll")
  /\ UNCHANGED <<rows, copies, batch, messages, checking, dying, restarts>>

(***************************************************************************)
(* An exception leaves publish_events: start() drops the producer with     *)
(* everything it holds, and makes a new one.                               *)
(***************************************************************************)
NewProducer(p) ==
  /\ Goto(p, "poll")
  /\ batch' = [batch EXCEPT ![p] = {}]
  /\ messages' = [messages EXCEPT ![p] = EmptyBag]
  /\ checking' = [checking EXCEPT ![p] = None]
  /\ dying' = [dying EXCEPT ![p] = None]

\* The flush after a BufferError made room, or the second BufferError escapes.
RefillEnds(p) ==
  /\ at[p] = "refill"
  /\ ~InReport(p)
  /\ \A m \in BagToSet(messages[p]) : m.state = "queued"
  /\ IF HasRoom(p)
     THEN Goto(p, "produce") /\ UNCHANGED <<batch, messages, checking, dying>>
     ELSE NewProducer(p)
  /\ UNCHANGED <<rows, copies, restarts>>

\* retry_count is at the limit of its column: the UPDATE raises.
Overflows(p) ==
  /\ \/ at[p] = "produce" /\ \E e \in batch[p] \cap Poison :
                                IsNext(p, e) /\ retry_count[e] = MaxRetryCount
     \/ Flushing(p) /\ \E e \in Events : /\ BagIn(Message(e, "failed"), messages[p])
                                         /\ retry_count[e] = MaxRetryCount
  /\ NewProducer(p)
  /\ UNCHANGED <<rows, copies, restarts>>

\* The database fails a query, or the process dies and is started again.
Restart(p) ==
  /\ restarts < MaxRestarts
  /\ restarts' = restarts + 1
  /\ NewProducer(p)
  /\ UNCHANGED <<rows, copies>>

(***************************************************************************)
(* The producer's background thread and the broker (external).  A message  *)
(* may reach the topic although its report says it failed; one on its way  *)
(* when a producer is dropped is taken to arrive just before.              *)
(***************************************************************************)
Settle(p, e) ==
  /\ BagIn(Message(e, "queued"), messages[p])
  /\ \E state \in {"delivered", "failed"}, n \in {0, 1} :
       /\ state = "delivered" => n = 1
       /\ copies' = [copies EXCEPT ![e] = IF @ < MaxCopies THEN @ + n ELSE @]
       /\ messages' = [messages EXCEPT ![p] =
                         BagAdd(BagRemove(@, Message(e, "queued")), Message(e, state))]
  /\ UNCHANGED <<rows, at, batch, checking, dying, restarts>>

Step(p) ==
  \/ Poll(p) \/ ReleaseLocks(p)
  \/ Produce(p) \/ ProduceRefused(p) \/ BufferFull(p) \/ BatchDone(p)
  \/ ReportDelivered(p) \/ ReportFailed(p) \/ CheckDead(p) \/ GiveUp(p)
  \/ FlushEnds(p) \/ RefillEnds(p) \/ Overflows(p)

Next ==
  \/ \E e \in Events : Append(e)
  \/ \E p \in Publishers : Step(p) \/ Restart(p) \/ (\E e \in Events : Settle(p, e))

Spec == Init /\ [][Next]_vars

(***************************************************************************)
(* A publisher keeps running; a message that is queued again and again is  *)
(* in the end sent or given up: the broker is not unreachable for ever and *)
(* the producer times messages out (message.timeout.ms).                   *)
(***************************************************************************)
Fairness ==
  \A p \in Publishers :
    /\ WF_vars(Step(p))
    /\ \A e \in Events : SF_vars(Settle(p, e))

FairSpec == Spec /\ Fairness

(***************************************************************************)
(* Properties.                                                             *)
(***************************************************************************)
\* The values the table, the publishers and their producers can hold.
TypeOK ==
  /\ stored \subseteq Events
  /\ published \subseteq stored
  /\ processed \subseteq stored
  /\ retry_count \in [Events -> 0 .. MaxRetryCount]
  /\ copies \in [Events -> 0 .. MaxCopies]
  /\ at \in [Publishers -> Places]
  /\ batch \in [Publishers -> SUBSET stored]
  /\ DOMAIN messages = Publishers
  /\ \A p \in Publishers : IsABag(messages[p]) /\ BagToSet(messages[p]) \subseteq Messages
  /\ checking \in [Publishers -> stored \cup {None}]
  /\ dying \in [Publishers -> stored \cup {None}]
  /\ restarts \in 0 .. MaxRestarts

\* No event leaves the queue of the outbox in silence: a published row is in the
\* topic, and a processed one is published or failed KAFKA_RETRIES times,
\* whatever reports are lost or late and whichever publishers fail meanwhile.
NothingLost ==
  /\ \A e \in published : e \in processed /\ copies[e] > 0
  /\ \A e \in processed : e \in published \/ retry_count[e] >= MaxRetries

\* What a publisher still holds of an event.
InFlight(e) ==
  \E p \in Publishers :
    e \in batch[p] \/ \E m \in BagToSet(messages[p]) : m.event = e

\* Duplicates end: once an event is processed and no publisher holds it any more,
\* nobody takes it up again, not even an event that was given up as dead.
SettledIsFinal == [][\A e \in processed : ~InFlight(e) => ~InFlight(e)']_vars

\* Every stored event is in the end published or dead, although reports are lost
\* with every producer that is replaced.
EveryEventSettled == \A e \in Events : e \in stored ~> e \in processed

(***************************************************************************)
(* What the code says of itself and does not do.                           *)
(***************************************************************************)
\* OutboxKafkaPublisher (outbox_publisher.py:33): "Publishes ALL domain events":
\* an event Kafka accepts is in the end published or dead.
HealthyEventsSettled == \A e \in Events \ Poison : e \in stored ~> e \in processed

=============================================================================
