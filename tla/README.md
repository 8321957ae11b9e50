# A verification project for the wallet service

The wallet service keeps the money of the users of a booking platform. It is a
Django application built as CQRS with event sourcing: commands append events to
`event_store`, the same transaction writes an outbox row for Kafka, and a
projector turns the events into `wallet_read_model`, which all queries read.
These TLA+ modules model its concurrent parts - the command path, the outbox
publisher, the RabbitMQ consumer, the Kafka consumer and the key cache of the JWT
verifier - and compose the RabbitMQ consumer with the command path it calls. TLC
checks them on small instances, and TLAPS proves for every size that the command path is
one atomic account per wallet (legal histories, truthful answers, no overdraft but for the
rounding of amounts, views that are the events), that no event and no command vanishes between the queues, how often
a payment can be charged, and how long a replaced key is trusted.

Paths below are relative to the repository; Python sources are under `src/`.

## 1. Inventory

| Component | State it keeps | Operations | Interacts with | Hard part | What makes it correct |
|---|---|---|---|---|---|
| Wallet aggregate (`domain/apps/wallet/aggregate.py`, `events.py`) | status, version, uncommitted events of one load | create, deposit, withdraw, pay_with_wallet, refund, adjustment, suspend, activate, close; `when_*` on rehydration | loaded and saved by the repository | decides on a state others are changing | every stored event was legal for the stream before it |
| Command services, handler, views (`application/wallet`, `apis/wallet`) | none between requests | one method per command; error translation | repository, queries | an error after the commit looks like a failure | answers agree with what was stored |
| Event store (`infrastructure/repos/event_store_repo.py`, `wallet_command_repo.py`) | `event_store`, unique (aggregate_id, aggregate_version) | load, append | outbox, projector, inside one transaction | races between load and append, crash inside the transaction | versions unique, no stale decision stored |
| Outbox, write side (`infrastructure/repos/outbox/orm_repository.py`) | `event_outbox`, unique (aggregate_id, aggregate_version) | save | append, publisher | MAX + 1 without a lock | mirrors the event store in stream order |
| Projector and runner (`infrastructure/projectors/wallet/projector.py`) | `wallet_read_model`, `projection_state` | apply_from_event, project; rounds every amount to four decimals | append (only under `settings.DEBUG`), rebuild | racing debits, failure after the inserts, amounts rounded here and stored as they came | the views are the rounded events; no balance below zero |
| `rebuild_wallet_projection` | one transaction over the read model | disable, delete, replay, enable | appends, readers | appends and reads while it runs; failure half way; replay order | views are those of a prefix of each stream |
| Outbox publisher (`messaging/kafka/outbox_publisher.py`) | published_at, processed_at, retry_count, the producer's queue | poll, produce, delivery report, mark | outbox table, Kafka | lost and late reports, crash, two publishers, poison events | nothing leaves the table unpublished unless it failed often enough |
| RabbitMQ command consumer (`messaging/rabbitMQ`) | deduplication cache per process | callback: deduplicate, translate, pay or refund, ack | command handler, broker | crash before the ack, redelivery, swallowed errors | a payment request is executed once |
| Kafka event consumer (`messaging/kafka/consumer.py`) | offsets, deduplication cache | poll, deduplicate, dispatch, commit | Kafka | marks before it processes; commits past failures | no event is committed unattempted; offsets never go back |
| Queries (`wallet_query_repo.py`, `wallet_query_services.py`) | none | by id, by user, balance | read model | reads what the projector left | - |
| Event bus, handlers (`messaging/event_bus.py`, `messaging/wallet`) | registry | subscribe, publish | Kafka consumer; handlers that log | errors swallowed, but not those of the dispatcher around it | a failing handler does not fail the event |
| Authentication (`wallet_service/auth`, `middleware`) | cached public key, its age, a lock | fetch, verify | user service | key rotation, slow or failing fetches, many requests at expiry | a replaced key is trusted for one lifetime; one fetch per lifetime; nobody waits for ever |
| Admin pages (`infrastructure/apps/*/admin.py`) | none | none that can run: neither installed nor routed (section 6) | - | - | - |
| Settings, unused models and commands | - | - | - | - | - |

The hazards this code is exposed to are listed, each at its line and with the
properties that would catch it, under `hazards` in `PROJECT.json`.

## 2. Modules

| Module | Models | Kind |
|---|---|---|
| `WalletAggregate` | commands, events, rehydration and the decisions of the aggregate | operators |
| `WalletProjector` | the row of `wallet_read_model`: which events the projector accepts, how it rounds their amounts and what they leave | operators |
| `WalletCommandPath` | workers, the three tables, the projection lock and the rebuild | state machine |
| `WalletAccount` | what a wallet promises its owner: one atomic account | abstract specification |
| `WalletReadModel` | view against events; the refinement of `WalletAccount` by the command path | properties, `INSTANCE` |
| `WalletInvariant` | the inductive invariants of the tables (`IInv`) and of the answers (`AnswerInv`) | invariant |
| `ReadModelInvariant` | the inductive invariant of the views and of the rebuild (`ReadModelInv`) | invariant |
| `WalletCommandPath_proofs` | theorems about histories, outbox and answers | proofs |
| `WalletReadModel_proofs` | sums of rows; theorems about the views, the rebuild and the account | proofs |
| `OutboxPublisher` | publisher processes, the published columns of `event_outbox`, the producer and its reports | state machine |
| `OutboxPublisher_proofs` | its invariant and theorems | proofs |
| `DedupCache` | `is_duplicate` of both consumers and the cache behind it | operators |
| `DedupCache_proofs` | what remembering, culling and touching do to a cache, and when nothing is forgotten | lemmas |
| `CommandConsumer` | RabbitMQ consumer processes, their queue and their deduplication caches | state machine |
| `CommandConsumer_proofs` | its invariant and theorems | proofs |
| `BookingPayments` | the RabbitMQ consumers and the command path they call, with HTTP workers beside them; its refinement of `CommandConsumer` | composition, `INSTANCE` |
| `BookingPayments_proofs` | the composition implements the command path and the command consumer, and what follows | proofs |
| `KafkaConsumer` | the processes of a consumer group on one partition, their offsets and caches | state machine |
| `KafkaConsumer_proofs` | its invariant and theorems | proofs |
| `KeyCache` | the requests of one worker around the cached public key | state machine |
| `KeyCache_proofs` | its invariant and theorems | proofs |
| `MCWallet`, `MCOutbox`, `MCConsumer`, `MCPayments`, `MCKafka`, `MCKeys` | request sets, clocks and symmetry for TLC | instances |

`WalletAggregate` <- `WalletProjector` <- `WalletCommandPath` <- `WalletReadModel`,
`WalletInvariant` <- `ReadModelInvariant` <- `MCWallet`; `WalletReadModel` takes `WalletAccount` by
`INSTANCE`, and `WalletReadModel` <- `BookingPayments`, which takes `CommandConsumer`
by `INSTANCE`. `DedupCache` <- `CommandConsumer`, `KafkaConsumer`. The publisher starts
where the command path ends, with a committed outbox row (`Append`), and the Kafka
consumer where the publisher ends, with a message in the topic (`Produce`). The command
consumer ends where the command path starts, with a call of the wallet command handler:
one step in `CommandConsumer` (`Execute`, `ExecuteFails`), the whole command path in
`BookingPayments`.

### How the command path corresponds to the code

A *worker* is a process that executes commands one at a time: a uvicorn worker
behind the command views, or the RabbitMQ consumer, which calls the same handler.
`pc[p]` is the next step of worker `p`:

| pc | Step | Code |
|---|---|---|
| `idle` | `Receive`, `RefuseAmount` | view, amount checks of the service |
| `load` | `Create`, `LoadMissing`, `LoadRefused`, `LoadIdempotent`, `LoadAndEmit`, `LoadFails` | `_load_wallet`, the aggregate's method |
| `insert_event` | `InsertEvent`, `InsertConflict` | `EventStore.objects.create` |
| `read_slot` | `ReadSlot` | the `MAX(aggregate_version)` of `DjangoOutBoxORMRepository.save` |
| `insert_outbox` | `InsertOutbox` | `EventOutbox.objects.create` |
| `project` | `Project`, `ProjectRejected` | `apply_from_event`, only under DEBUG |
| `commit` | `Commit`, `CommitUnacknowledged` | end of `@transaction.atomic` |
| `fetch` | `FetchView`, `FetchFails` | `_safe_fetch_view` |

`TransactionFails` is a database error anywhere between the first INSERT and the
commit; `Crash` the death of the process at any step. The rebuild has its own
counter `rb_pc` (`select`, `replay`) and runs as `RebuildBegin`, `RebuildSelect`,
`RebuildReplay` (one event), `RebuildCommit`, `RebuildAborts`, `RebuildCrashes`.

PostgreSQL runs at READ COMMITTED. The model keeps what a transaction wrote in the
variables of its worker (`row`, `slot`, `view`) until `Commit` moves it to the
tables, so other workers read committed rows only and a rollback forgets it.
An INSERT of a unique key that another transaction holds uncommitted waits (the
guard of `InsertEvent`) and fails when that transaction commits (`InsertConflict`).
`projection_state` is a row lock (`proj_lock`), held to the end of the transaction.

Two facts about the code shape the model. `aggregate.version` is incremented by
`_apply` and again by `append`, so the versions of a stream are 2, 4, 6, ...
(`VersionStep`). And Django drops `FOR UPDATE` from an aggregate query, so the
`MAX` of the outbox takes no lock; the event row has to serialise the writers.

Abstractions: currency, reference and booking ids, payload formats and timestamps
other than `created_at` do not appear, because no decision depends on them.
`created_at` is the number of commits so far plus the worker's `ClockOffset`.

Amounts have two units. The aggregate checks and stores an amount as the client sent it,
with any number of decimals; `_quantize` rounds it to four, half to even, before the
projector compares or adds it. A stored amount is therefore a number of small units and a
balance a number of large ones, `QuantizeExp` of the small in each; `Quantize` is the
rounding, `Booked` what an event stores and `Delta` what it adds to the balance, which is
nothing for a small amount. Amounts that are not finite are left out.

The row of `projection_state` exists from the start. Branches that cannot run have
no action: the retries of the outbox repository (`OutboxNeverCollides` proves that
they are dead) and the `ValueError` for a stream that does not start with a creation.

### The outbox publisher

`at[p]` is the place of publisher `p` in `publish_events`:

| at | Step | Code |
|---|---|---|
| `poll`, `select` | `Poll`, `ReleaseLocks` | `get_unpublished_events`: the locks last only while `at` is `select` |
| `produce` | `Produce`, `ProduceRefused`, `BufferFull`, `BatchDone` | the loop over the batch and its except clauses |
| `refill` | `RefillEnds`, and the reports | `flush` after a `BufferError`, the second `produce` |
| `flush` | `ReportDelivered`, `ReportFailed`, `CheckDead`, `GiveUp`, `FlushEnds` | the last `flush`, which calls `_delivery_report` |

A failed report is three statements on the table, so it is three actions. `NewProducer` is
what `start` does after an exception: everything the old producer held is lost.
`Overflows` is the exception of `mark_as_failed` when `retry_count` is at the limit of
its column, `Restart` a database error or a restart of the process. `Settle` is
librdkafka and the broker: a queued message is delivered or given up, and one that is
given up may be in the topic all the same. `messages[p]` is a bag, because the same
event can be queued twice by one publisher whose report is late.

`Poison` are events `produce()` refuses: an adjustment has a free-text reason and
nothing limits it, the producer refuses messages above `message.max.bytes`.

Rows enter the table by the append transaction and nothing that runs deletes or resets
one: the actions of `outbox/admin.py` that would are never loaded (section 6).

### The command consumer

`at[c]` is the place of consumer `c` in `callback`: `received` (`IgnoreDuplicate`,
`Mark`), `translate` (`Reject`, `Translate`), `find` (`FindWallet`, `WalletMissing`),
`pay` (`Execute`, `ExecuteFails`), `ack` (`Ack`), then `consuming`, or `offline` until
`Reconnect`. `unacked[c]` is the broker's view and `working[c]` the process's: they
differ after `LoseConnection`, which a running callback does not notice until its ack
raises. `cache[c]` is Django's default cache, since the settings define none: it lives
in the process, keeps 300 entries and drops the least recent third when it is full. Its
timeout of 7 days is left out: an expired entry is a special case of a restart, which
empties the cache. A message put back is redelivered first; with two consumers that is
an approximation of RabbitMQ, and no property depends on the order.

`outcome[m]` notes how handling `m` ended. The two handlers are the same but for the
command they call and share their actions; an event committed whose answer then fails
counts as executed.

### Consumers and command path together

In `BookingPayments` a consumer process is a worker of the command path. `FindWallet` of
the consumer becomes `Call`: the wallet that `by_user_id` finds for the client receives
the next call for the message as a request, and the steps of the command path follow
(`HandlerStep`, `HandlerFails`) until the handler returns (`Returns`), whatever came of
the call. `NotFound` covers no wallet, several wallets (`HasOneWallet`), an error of the
query and an amount the service refuses: all are logged and acknowledged. `Restart` takes
the open transaction of the process with it (`Crash`). `Serve` is a uvicorn worker.

The counters of `CommandConsumer` have no variables here: `Executed` and `ExecutedHere`
count the events in `event_store` by the requests that made them. `HandlerOnce` is the
refinement mapping: a consumer is at `ack` as soon as its `COMMIT` has succeeded, and a
command with an event counts as executed from then on, although its handler has the view
still to read and may yet fail or die. `ConsumerSpec` says that every step then is a step
of `CommandConsumer`: a command is charged by one atomic step at most per delivery, and
what is proved and checked there holds of the real handler.

### The Kafka consumer

`at[c]` is the place of process `c` in `start`: `polling` (`Join`, `Assign`, `Revoke`,
`Poll`), `received` (`DecodeFails`, `IgnoreDuplicate`, `DuplicateCommitFails`, `Mark`),
`dispatch` (`Dispatch`, `DispatchFails`), `commit` (`Commit`, `CommitFails`), or `down`
until `Start`. `owner`, `members` and `committed` are the coordinator's; `position[c]` is
how far the process has read. They differ after `SessionExpires`, which a process does
not notice: it polls and dispatches on with what it holds, and its commit is refused.
What ends a process is what lies outside the inner try: an error of `poll`, a key, header
or value that is not UTF-8, the commit of a duplicate. A message that is not JSON and one
whose `event_type` nobody handles are dispatched to nothing and committed; they are
ordinary events of the model. `Payments` fail in `handle_wallet_payment_made`, which logs
an `action_id` that the event does not have, after the event bus has run its handlers;
`Malformed` fail before, in `from_dict`.

### The key cache

`at[r]` is where request `r` is in `get_public_key`: `waiting` for the lock, `fetching`
while the user service has not answered, `responded` with the answer on its way, then an
answer of the middleware. `now[r]` is the local variable of that name: read before the
lock is waited for, and stored as the time of the fetch. Coroutines of one event loop
interleave only at an `await`, so the check and the answer of a cached key are one step
(`UseCached`), as are storing, releasing and answering (`FetchSucceeds`). The middleware
runs the verifier with `async_to_sync`, which under ASGI brings every request of a worker
to its main loop. `time.time()` is taken to be a clock that never goes back.

## 3. Runs

| Run | Properties | Shows |
|---|---|---|
| `lifecycle_race` | `LegalHistory`, `OutboxMirrorsStore`, `OutboxSlotFree`, `CloseIsFinal`, `IInv`, `AnswerInv`, `AccountSpec` | two creations of one id, suspend, activate, close, a deposit above the projector's limit, DEBUG: stale decisions stay out, event and outbox rows agree, a confirmed close is final, and every commit is one legal step of the account, those of the lifecycle included |
| `rebuild_debug` | `ReadModelMatchesStore`, `ReadModelInv`, `LedgerSolvent`, `AccountSpec`, `EveryRequestAnswered` | a rebuild beside projecting appends, two of them on one wallet and one on another, with amounts rounded up and down: the views are always the events, credits and debits are legal steps of the account, no more is spent than there is but for the rounding, and the chain of a writer that waits for a key, its holder for the projection lock and that for the rebuild always comes to an end |
| `rebuild_stale` | `ReadModelIsPrefix`, `ReadModelInv` | without DEBUG and with one clock ahead of the other, two rebuilds, which replay a refund and a debit in either order and may abort on an overdraft: the views are those of a prefix |
| `two_publishers` | `TypeOK`, `NothingLost`, `SettledIsFinal` | a full buffer, a refused event, late, lost and false reports, two restarts: nothing leaves the outbox in silence, duplicates end |
| `one_publisher` | `EveryEventSettled` | with producers replaced twice, every event is in the end published or dead |
| `consumers` | `TypeOK`, `NothingDropped`, `ExecutedOncePerProcess`, `ExecutionsBounded`, `EveryCommandSettled` | commands sent twice, a lost connection, a dead process, a malformed message without an id: none vanishes, all leave the queue; one is executed at most once per process, and per time it was sent or put back |
| `booking_payments` | `TypeOK`, `LedgerSolvent`, `AnswersAreTrue`, `ConsumerSpec`, `PaymentsSettled` | two consumers execute one payment, redelivered after a lost connection or a dead process, beside an HTTP worker on the same wallet, DEBUG: no overdraft but for the rounding of one payment, answers agree with the store, the handler is atomic, nothing waits for ever |
| `kafka_consumers` | `TypeOK`, `NothingSkipped`, `DispatchedOncePerProcess`, `CommittedNeverRewinds`, `EveryEventAttempted` | an event that fails, one that cannot be parsed, one that cannot be decoded; an expired session, a rebalance, a failed commit, a killed process: nothing is passed over unseen, offsets never go back, a failing event does not stop the partition |
| `key_cache` | `TypeOK`, `KeyIsRecent`, `NoHerd`, `KeyNeverRegresses`, `EveryVerificationEnds` | three requests, slow, failed and cancelled fetches, a replaced key: it is trusted for one lifetime, fetched once per lifetime, and everybody is answered |
| `claim_funds_checked` | `LedgerSolvent` | violated: outside DEBUG a withdrawal without funds is stored |
| `claim_all_published` | `HealthyEventsSettled` | violated: an event `produce()` refuses starves the events after it |
| `claim_retry` | `FailedIsNotCommitted` | violated: a failed payment event is passed over and committed by the next |

Bounds. Two workers are enough for every conflict the code has: a key, a lock and a
balance are each contended by a holder and a waiter. Request sets have four to
six requests, chosen so that every branch fires in some run; those of `rebuild_debug` have
two writers of one wallet, so that one waits for the unique key of the other while that
one waits for the projection lock. `MaxAmount` is 3 units of a balance, so
that an amount above the projector's limit and one below both occur. `QuantizeExp` is 4,
the smallest unit that has amounts below, at and above the half; in `rebuild_debug` 6 is
credited as 2 units and 10 debited as 2, so the stored events sum to -4, exactly
what `LedgerSolvent` tolerates. In `booking_payments` it is 8, and a payment of 15 takes
the whole deposit of 16. `MaxRebuilds`
bounds how often the rebuild is started: 2 where one may abort and the next
succeed. Workers are symmetric in `lifecycle_race` only; in `rebuild_stale` the clock of
one is ahead (`Skewed`) by more than a run takes, so that its events are replayed after
all others. Requests are
finite, so the system may stop: deadlock checking is off, and waiting for ever is
what `EveryRequestAnswered` excludes: from every state on, each request that was received
is answered in the end.

In the publisher two events, a queue of two and `MaxRetries` 2 below a
`MaxRetryCount` of 3 or 4 reach a full buffer, a dead event, a mark after death and the
overflow; `MaxCopies` only caps a counter that is compared with zero. A publisher that dies
between marking a failure and asking whether the event is dead has spent a retry for
nothing. `MaxRestarts` is 2 for the publishers, and `MaxRetryCount` 4 leaves room for both
deaths above `MaxRetries`; the column itself leaves room for 32,767. With 3 the events of
`one_publisher` can use the column up and starve. `MaxRestarts`
bounds how often processes die, `MaxLost` how often connections break, `MaxPublished`
how often the booking service sends a message: one of each is enough to redeliver a
command to a process that handles or remembers it and to one that does not.
`CacheSize` is 3, the smallest cache that culls, and runs have at most three ids, so that
"at most once per process" can hold. That no cache outgrows its limit while it culls is
proved (`ConsumerTypeCorrect`, `KafkaTypeCorrect`).
Publishers are symmetric in their safety run; runs with liveness use no symmetry.

In `booking_payments` `MaxFaults` allows one lost connection or one dead process: either
puts the message back while a first execution of it is at any of its steps, so it is
executed twice at most, by two processes at once or one after the other. The wallet is
opened and filled with the amount of one payment, so a second one is an overdraft. In
`kafka_consumers` the partition has three messages of four events, repeated or not, and
one session expires: enough for a stalled process with an old offset beside a new owner.
In `key_cache` three requests are a fetching one, one waiting for it and one that comes
later; a lifetime of 2 ticks in 3 makes a key expire and be fetched again, and `MaxKeys`
2 lets it be replaced at any time between.

Fairness. Weak fairness of each worker's `Progress` and of `RebuildProgress`: a
process that has a request or a rebuild under way keeps executing it. Nothing is
assumed of arrivals, of the start of a rebuild, of errors and of crashes. Publishers
and consumers keep running (weak fairness of `Step` and `Progress`; Kubernetes starts
them again). `Settle` is strongly fair for each event, because a new producer takes the
queued message away: it says that the broker is not unreachable for ever and that
librdkafka times messages out. Kafka's coordinator hands out a free partition (`Assign`)
and processes are started again; rebalances, expired sessions and errors are not assumed.
A verification goes on when it can, and a fetch ends, because its client has a timeout
of 5 s; `Verification` leaves open how, and requests and ticks are not assumed. In the
composition the processes run (`PaymentsFairness`) and nothing is assumed of failures.

Mutants. For every property of a passing run `PROJECT.json` names a *mutant*: an
operator beside the definition it replaces, which changes it the way a plausible
bug would (a dropped constraint, a missing rollback, a lock not taken). Under the
same configuration TLC finds the property violated. Mutants are used nowhere else.

## 4. Proofs

Every theorem holds for every value of the constants that satisfies the named `ASSUME`s of
the modules it extends: any number of workers, consumers, wallets and requests, any
bounds on faults. Some need more, and say so:

| Hypothesis | Used by | Why |
|---|---|---|
| `Debug` | the balance and the account | only under `settings.DEBUG` is an append projected in its own transaction, and only the projector checks funds; `claim_funds_checked` refutes `LedgerSolvent` without it |
| `InOrder`: `EqualClocks` or no rebuild | `AccountSpec` | a rebuild sorts by `created_at`, a clock of the workers; with clocks that differ an activation may be replayed before the suspension it follows, and the account then changes its status without an operation. `Shows` asks for the status of the last lifecycle event under `InOrder`, and otherwise for that of some lifecycle event of the same rows |
| `HasRoom(Commands)`, `HasRoom(Events)` | once per process | there are no more ids than the cache has entries (300): the cache drops its least recent third when it is full, and with it its promise |
| `IsFiniteSet(Consumers)` | `ExecutionsBounded` | its bound is their number |

### The command path: `WalletCommandPath_proofs`

| Theorem | States |
|---|---|
| `Invariant` | `Spec => []IInv` |
| `TypeCorrect` | `Spec => []TypeOK`; no balance is negative |
| `HistoryIsLegal` | `Spec => []LegalHistory` |
| `OutboxIsStore` | `Spec => []OutboxMirrorsStore` |
| `OutboxNeverCollides` | `Spec => []OutboxSlotFree` |
| `AnswerInvariant` | `Spec => []AnswerInv` |
| `AnswersTellTheTruth` | `Spec => []AnswersAreTrue` |
| `ClosedStaysClosed` | `Spec => []CloseIsFinal` |

`LegalHistory` is not inductive: it says nothing about an event that is decided and
not yet stored. `IInv` adds that versions are 2, 4, 6, ... without a gap
(`StreamsComplete`), that every decided row continues the stream it was decided on
and was legal for it (`DecisionsHold`), that the key of an open transaction is its
own and not yet stored (`KeysHeld`), and that its outbox version is the place of
its event in the stream (`SlotsRead`). The heart of the argument is
`DecisionSurvivesCommit`: because streams have no gaps, a commit by another worker
can only add a row at or above the row a worker has decided on, so the prefix the
decision was made on never changes; if the rows collide, the unique key refuses it.
The lemmas follow the actions, one step lemma each, and `Inductive` collects them.

An answer is given long after what it speaks of. `AnswerInv` follows a request from the
inbox through one worker to its answer: it is nowhere twice (`HeldOnce`), nothing of it is
stored before its commit (`Served`), the row that is stored for it is the one it asked for
(`RowsAsAsked`), and a worker that reads the view back has succeeded for good: after a
close the stream ends in a closed wallet, and by `IInv` nothing can follow.

### The read model: `WalletReadModel_proofs`

| Theorem | States | Hypotheses |
|---|---|---|
| `ReadModelInvariant` | `Spec => []ReadModelInv` | none |
| `LedgerIsSolvent` | `Spec => []LedgerSolvent` | `Debug` |
| `ViewsArePrefixes` | `Spec => []ReadModelIsPrefix` | none |
| `ViewsMatchStore` | `Spec => []ReadModelMatchesStore` | none |
| `ImplementsAccount` | `Spec => AccountSpec` | `Debug`, `InOrder` |

`ReadModelInv` says of every view which rows it is the projection of: all rows of the
wallet under `DEBUG`, those of a prefix without it. A rebuild computes its views from rows
it selected some time ago, so `Replaying` says the same of the view under construction
and the rows replayed so far, and `LockHeld` why under `DEBUG` no row was added meanwhile:
whoever projects holds the row of `projection_state`, and the rebuild holds it from before
its `SELECT` to its commit. `TimesOrdered` makes a replay by `created_at` one by version
when the clocks agree. The owner and the balance of a view need no clocks: a replay in
another order adds up to the same or is refused. Its status does, and without them it is
that of some lifecycle event of the prefix. So `ViewsArePrefixes` and `ViewsMatchStore` hold
for any clocks, and `LedgerIsSolvent` with them: under `DEBUG` the rounded amounts of a
wallet add up to its balance, which is never negative, and `BookedIsNear` and
`LedgerIsNear` show that the stored amounts are off by half a unit of the balance for
each event at most. The tolerance is needed: 1.00004 is paid from a balance of 1.0000.

The balance is a sum over a set of rows, `MapThenSumSet`, a fold that is defined by
recursion. The first part of the module proves what is needed of it: there is exactly one
function that adds the amount of each row, and the fold is that function (`SumExists`,
`RecursionIsSum`), for rounded and for stored amounts (`SumOfDeltas`, `SumOfBookings`).
The provers cannot instantiate an induction rule with an operator; the
proofs take a smallest set for which the claim fails instead, which `MinimalSet` provides,
and remove a row from it.

For `ImplementsAccount` a step shows in the abstract account only when a commit adds a
row; all others stutter, those of a rebuild included, because the views they leave are the
ones they found. `WalletAccount` checks funds and status in the step in which it
changes them: what the command path decided in other transactions is shown to hold still,
by `DecisionsHold` for the status and by `ViewsHeld` for the funds.

### The outbox publisher: `OutboxPublisher_proofs`

It proves `PublisherTypeCorrect`, `NoEventLost` (`Spec => []NothingLost`) and
`SettledStaysSettled` (`Spec => SettledIsFinal`). `NothingLost` needs that a report of a
delivery is true when it is called (`ReportsAreTrue`), that what was found dead still is
when it is given up (`DyingIsDead`), and that producers hold messages of stored rows only
(`MessagesKnown`). For `SettledIsFinal`, `TakesUpUnprocessed`
shows that what a publisher holds after a step it held before, or has polled.

### The command consumer: `CommandConsumer_proofs`, `DedupCache_proofs`

`ConsumerTypeCorrect` and `NoCommandDropped` (`Spec => []NothingDropped`). A duplicate is
acknowledged unseen, so the invariant adds that whatever a process remembers was handled
to an end, or is what it works on (`MarkedIsHandled`). It is the death of the cache with
its process that makes this inductive: with a cache that outlives the process (the mutant
`RestartKeepsCache`) a command is lost.

`ProcessExecutesOnce` (`[]ExecutedOncePerProcess`) is the other side of the cache, that it
keeps what it has seen. `OnceInv` adds that a process remembers what it is executing or
has executed, and has not executed it before. A cache is never full when an id is new to
it, if it has room for all (`RoomForOneMore`): its entries are distinct, so their number
is at most that of the ids, less the new one. `ExecutionsAreBounded`
(`[]ExecutionsBounded`) counts: an execution uses up one copy of the message, in the
queue or with a consumer, and copies come only from the sender and from a connection or
process that ended (`PaidPerDelivery`); and with an id, who has executed it is one of the
processes that live, or has died (`PaidPerProcess`). The first count needs no cache at all
and is a theorem of its own, `ExecutionsPerDelivery`.

### Consumers and command path: `BookingPayments_proofs`

| Theorem | States | Hypotheses |
|---|---|---|
| `PaymentsUseCommandPath` | `PaymentsSpec => Spec` | none |
| `PaymentsHistoryLegal`, `PaymentsTypeCorrect`, `PaymentsAnswersTrue` | what follows for histories, types and answers | none |
| `PaymentsSolvent` | `PaymentsSpec => []LedgerSolvent` | `Debug` |
| `PaymentsImplementAccount` | `PaymentsSpec => AccountSpec` | `Debug`, `InOrder` |
| `PaymentsInvariant` | `PaymentsSpec => []PaymentsInv` | none |
| `PaymentsImplementConsumer` | `PaymentsSpec => ConsumerSpec` | none |
| `NoPaymentDropped` | `NothingDropped` of the composition | none |
| `ChargesPerDelivery` | at most one event per payment for each time its message was sent or put back | finite consumers |
| `ProcessChargesOnce`, `ChargesAreBounded` | `ExecutedOncePerProcess` and `ExecutionsBounded`, counted in `event_store` | `HasRoom`; finite consumers |

The composition is shown to implement both its halves. As far as the tables go every step
of it is a step or a stutter of the command path. As far as the messages go every step is
one of `CommandConsumer`, under the mapping `HandlerOnce`: the commit is `Execute`, a
handler that ends without one is `ExecuteFails`, and all other steps of a handler stutter.
`CallInv` relates the two: a callback is in the handler exactly while its process
executes one of its calls, and a call belongs to one process (`called`). With `AnswerInv`,
by which nothing of a request is stored before its commit, the number of stored
events is then the number of executions; with the invariant of `CommandConsumer` read
through the mapping this makes `PaymentsInv`. What is proved of `CommandConsumer` then
holds of the real handler, with its failures and deaths between any two of its steps.
Two assumptions are of this module: the constants satisfy those of `CommandConsumer`, and
calls are `pay_with_wallet` or `refund` (`CallsAssumption`), the two methods the handlers
in `messaging/rabbitMQ/command_handlers` call. A lifecycle command would succeed without
an event.

### The Kafka consumer: `KafkaConsumer_proofs`

`KafkaTypeCorrect`, `NoEventSkipped` (`Spec => []NothingSkipped`), `OffsetsGrow`
(`Spec => CommittedNeverRewinds`) and `ProcessDispatchesOnce`
(`Spec => []DispatchedOncePerProcess`). The invariant says of every process that what it
remembers was attempted, or is what it works on, and that everything before its position
was attempted, save what it works on now: a commit, even of a duplicate that was never
handled here, then covers attempted events only. For the offsets, the owner of the
partition has read at least as far as is committed, because it started there and only the
owner can commit. That a process dispatches an event once is the argument of the command
consumer again.

### The key cache: `KeyCache_proofs`

`KeyTypeCorrect`, `KeyTrustEnds` (`Spec => []KeyIsRecent`), `OneFetchPerLifetime`
(`Spec => NoHerd`) and `CacheNeverRegresses` (`Spec => KeyNeverRegresses`). The argument
is the date of the fetch: the key that is cached was in use when or after `lastFetch`,
since `now` is read before the fetch; so a request that finds the key fresh began less
than a lifetime after it was in use. The lock makes every response younger than what is
cached.

### Model-checked only

The liveness properties (`EveryRequestAnswered`, `EveryEventSettled`,
`EveryCommandSettled`, `PaymentsSettled`, `EveryEventAttempted`,
`EveryVerificationEnds`): fairness and `ENABLED` are out of the prover's reach. And what
the `claim_` runs refute, which is false.

## 5. Where the code and its comments disagree

Three disagreements have a run each and are quoted under `findings`: nothing checks funds
outside DEBUG (`claim_funds_checked`), an event the producer refuses is marked until its
retry count overflows and then starves the events after it (`claim_all_published`), and a
Kafka event whose dispatch fails, as that of every payment does, is passed over and
committed by the next one instead of being retried (`claim_retry`).

Others were met while modelling. The modules contain them, and no run is spent on them:

- `aggregate.py:288` leaves the zero-balance check of a closing wallet to the application
  service, and `close_wallet` makes none: wallets are closed with money in them.
- `consumer.py:77` keeps message ids for 7 days, but in a cache that drops its least
  recent third at 300 entries (`Culled`): under load a duplicate is executed again,
  without any failure.
- `wallet_query_repo.py:77` calls two wallets of a user a violation of a business rule;
  `Create` never looks for the first, as `create_wallet` does not. Afterwards every booking
  command of that user ends as a missing wallet (`HasOneWallet`) and is acknowledged.
- `commands.py:153` says an adjustment "Can be negative"; `EventAmount` is its absolute
  value, so a negative one credits.
- `rebuild_wallet_projection.py:37` replays "in order", by a clock of the workers. When
  the clocks differ, a suspension and the activation after it, stored by two workers, may be
  replayed the other way round and leave an active wallet suspended in the view; owner and
  balance are right in any order (`ReadModelIsPrefix`, checked with such clocks).
- `projector.py:146` checks funds in amounts rounded to four decimals (line 31), and
  `aggregate.py:205` emits them as they came: 1.00004 is paid from a balance of 1.0000, and
  a deposit of 0.00004 is stored and adds nothing. `LedgerSolvent` says how far the stored
  events can go below zero for it.
- `command_views.py:101` answers a missing wallet with 404, but the except clause before
  it is for a superclass and answers 400.
- `domain/outbox/repositories.py:28` wants the poll "concurrency-safe"; the locks end in
  `ReleaseLocks`, so two publishers work on the same event. `SettledIsFinal` says what
  is left of the promise.
- `outbox_publisher.py:61` marks an event "as dead after max retries", but only in the
  delivery report; `ProduceRefused` never gets there.
- `consumer.py:106` ignores duplicates, but not those redelivered to a new process, whose
  cache is empty. `ExecutionsBounded` says how often a command can be executed.
- `consumer.py:137` says "Command processed" of payments that met a database error: the
  handler logs the error and returns (`ExecuteFails` with the outcome `error`).

## 6. Plan

1. Done: the command path with its account, invariant and proofs; the outbox publisher
   and the command consumer with theirs; the Kafka consumer and the key cache with
   theirs; the composition of consumers and command path.
2. Done: every invariant and every action property that a run checks is a theorem, and
   both refinements, `AccountSpec` and `ConsumerSpec`, are proved.
3. Left for proofs: what a cache that is too small still guarantees (how many other
   messages lie between two executions of one by a process).

Not modelled: the handlers of the event bus (they only log), the user service client and
the query endpoints (they only read), the verification of a signature (library code, with
either answer), the two direct Kafka producers and other code without callers, and settings.
The admin pages are code without callers too. `settings.py:46-63` installs neither
`django.contrib.admin` nor its companions `auth` and `sessions`, `urls.py` routes no
admin site and nothing imports the modules, so the actions of `outbox/admin.py` that reset
and delete rows of the outbox cannot run, and `OutboxPublisher` has no step for them. A
deployment that installs the admin would need them: a replay can cross a publisher that is
about to mark the same row. The deployment starts no Kafka consumer, and the default of its
`KAFKA_GROUP_ID` is the id of the booking service; the module models the program as it
runs when it is started. Within the modules: Kafka partitions are independent and one is
modelled; the entries of caches do not expire (a restart forgets more); PostgreSQL and
the brokers keep what they have confirmed.
