-------------------------- MODULE WalletCommandPath --------------------------
(***************************************************************************)
(* The command side of the wallet service, from the HTTP view to the       *)
(* commit: a worker (a uvicorn process, or the RabbitMQ consumer) receives *)
(* a request, rehydrates the aggregate from event_store, decides, and      *)
(* appends the event in one PostgreSQL transaction that also inserts the   *)
(* outbox row and, when settings.DEBUG is set, updates wallet_read_model   *)
(* under the row lock of projection_state.  Then it reads the view back    *)
(* and answers.  rebuild_wallet_projection runs beside the workers.        *)
(*                                                                         *)
(* The database is READ COMMITTED: a SELECT sees committed rows only, an   *)
(* INSERT of a unique key waits for the transaction that holds the same    *)
(* key uncommitted, and a rollback undoes every write of its transaction.  *)
(* The writes a transaction has made so far are kept in the variables of   *)
(* its worker (row, slot, view) until Commit moves them to the tables.     *)
(***************************************************************************)
EXTENDS WalletProjector, FiniteSets

CONSTANTS
  Workers,       \* processes that execute commands
  Wallets,       \* wallet ids
  Users,         \* user ids
  Requests,      \* the requests clients send: [id, type, wallet, user, amount]
  Debug,         \* settings.DEBUG
  ClockOffset,   \* how far the clock of each worker is from true time
  MaxRebuilds,   \* bound: how often rebuild_wallet_projection is started
  None           \* no request, no row, no lock holder

ASSUME RequestsAssumption ==
  \A c \in Requests : /\ c.type \in CommandTypes
                      /\ c.wallet \in Wallets
                      /\ c.user \in Users
                      /\ c.amount \in Int
ASSUME NoneAssumption == None \notin Requests \cup Workers
ASSUME ClockAssumption == ClockOffset \in [Workers -> Int]
ASSUME DebugAssumption == Debug \in BOOLEAN
ASSUME MaxRebuildsAssumption == MaxRebuilds \in Nat
ASSUME RebuildIsNoWorker == "rebuild" \notin Workers \cup {None}

VARIABLES
  inbox,         \* requests not yet received
  reply,         \* the answer each request got ("none" before it has one)
  event_store,   \* committed rows of event_store
  outbox,        \* committed rows of event_outbox
  read_model,    \* committed wallet_read_model: a view per wallet
  proj_version,  \* committed projection_state.version
  proj_lock,     \* holder of the row lock of projection_state
  pc,            \* the next step of each worker
  request,       \* the request each worker executes
  row,           \* the event_store row its transaction holds
  slot,          \* the outbox version its transaction read or holds
  view,          \* the read-model row its transaction holds
  rb_pc,         \* the next step of rebuild_wallet_projection
  rb_model,      \* the read model as rebuilt so far, uncommitted
  rb_todo,       \* the rows rebuild still has to replay
  rebuilds       \* how often rebuild was started

tables == <<event_store, outbox, read_model, proj_version>>
local == <<request, row, slot, view>>
rebuild == <<rb_pc, rb_model, rb_todo, rebuilds>>
vars == <<inbox, reply, tables, proj_lock, pc, local, rebuild>>

Rows(w) == {r \in event_store : r.wallet = w}
Keys(rows) == {<<r.wallet, r.version>> : r \in rows}

\* Steps between the first INSERT and COMMIT: the worker holds its event row.
TxSteps == {"read_slot", "insert_outbox", "project", "commit"}
Steps == {"idle", "load", "insert_event", "fetch"} \cup TxSteps

\* The answer a client sees: every one but "ok" is a WalletDomainError or is turned
\* into one, so its status is 400.  "lost" stands for a connection cut by a crash.
Outcomes == {"ok", "invalid", "not_found", "closed", "suspended", "conflict",
             "rejected", "failed", "no_view", "lost"}

Init ==
  /\ inbox = Requests
  /\ reply = [c \in Requests |-> "none"]
  /\ event_store = {}
  /\ outbox = {}
  /\ read_model = [w \in Wallets |-> NoView]
  /\ proj_version = 1
  /\ proj_lock = None
  /\ pc = [p \in Workers |-> "idle"]
  /\ request = [p \in Workers |-> None]
  /\ row = [p \in Workers |-> None]
  /\ slot = [p \in Workers |-> 0]
  /\ view = [p \in Workers |-> NoView]
  /\ rb_pc = "idle"
  /\ rb_model = [w \in Wallets |-> NoView]
  /\ rb_todo = {}
  /\ rebuilds = 0

(***************************************************************************)
(* Building blocks of the steps.                                           *)
(***************************************************************************)
Goto(p, step) == pc' = [pc EXCEPT ![p] = step]

\* The worker is free again; what its transaction had not committed is gone.
Forget(p) ==
  /\ Goto(p, "idle")
  /\ request' = [request EXCEPT ![p] = None]
  /\ row' = [row EXCEPT ![p] = None]
  /\ slot' = [slot EXCEPT ![p] = 0]
  /\ view' = [view EXCEPT ![p] = NoView]

\* Mutant: the projection lock belongs to the session and outlives the transaction.
UnlockNever(p) == UNCHANGED proj_lock

Unlock(p) == proj_lock' = IF proj_lock = p THEN None ELSE proj_lock

\* The request ends with an answer; an open transaction is rolled back.
Answer(p, outcome) ==
  /\ reply' = [reply EXCEPT ![request[p]] = outcome]
  /\ Forget(p)
  /\ Unlock(p)
  /\ UNCHANGED <<inbox, tables, rebuild>>

(***************************************************************************)
(* A request reaches a worker.  Amounts are checked before any query.      *)
(***************************************************************************)
Receive(p, c) ==
  /\ pc[p] = "idle"
  /\ c \in inbox
  /\ AmountAccepted(c.type, c.amount)
  /\ inbox' = inbox \ {c}
  /\ request' = [request EXCEPT ![p] = c]
  /\ Goto(p, "load")
  /\ UNCHANGED <<reply, tables, proj_lock, row, slot, view, rebuild>>

RefuseAmount(p, c) ==
  /\ pc[p] = "idle"
  /\ c \in inbox
  /\ ~AmountAccepted(c.type, c.amount)
  /\ inbox' = inbox \ {c}
  /\ reply' = [reply EXCEPT ![c] = "invalid"]
  /\ UNCHANGED <<tables, proj_lock, pc, local, rebuild>>

(***************************************************************************)
(* Load and decide.  The decision depends on the SELECT alone, so the two  *)
(* are one step; the INSERT that follows is another.  Applying the event   *)
(* has already incremented aggregate.version when save reads it as the     *)
(* expected version, and append increments it once more: the new row has   *)
(* the loaded version plus 2.                                              *)
(***************************************************************************)
VersionStep == 2

LatestVersion(rows) ==
  IF rows = {} THEN 0 ELSE (CHOOSE r \in rows : IsLast(r, rows)).version

\* The user_id of a later event is its wallet's owner, which nothing reads back.
NewRow(c, loaded) ==
  [ wallet |-> c.wallet, version |-> loaded + VersionStep,
    kind |-> EventOf[c.type], amount |-> EventAmount(c.type, c.amount),
    user |-> IF c.type = "create" THEN c.user ELSE NoView.user,
    request |-> c, at |-> 0 ]

Emit(p, rows) ==
  /\ row' = [row EXCEPT ![p] = NewRow(request[p], LatestVersion(rows))]
  /\ Goto(p, "insert_event")
  /\ UNCHANGED <<inbox, reply, tables, proj_lock, request, slot, view, rebuild>>

Loads(p) == pc[p] = "load" /\ request[p].type # "create"
LoadedRows(p) == Rows(request[p].wallet)
LoadedStatus(p) == StatusOf(LoadedRows(p))

\* The factory starts from a fresh aggregate: nothing is loaded.
Create(p) ==
  /\ pc[p] = "load"
  /\ request[p].type = "create"
  /\ Emit(p, {})

LoadMissing(p) ==
  /\ Loads(p)
  /\ LoadedRows(p) = {}
  /\ Answer(p, "not_found")

LoadRefused(p) ==
  /\ Loads(p)
  /\ \/ /\ RaisesClosed(request[p].type, LoadedStatus(p))
        /\ Answer(p, "closed")
     \/ /\ RaisesSuspended(request[p].type, LoadedStatus(p))
        /\ Answer(p, "suspended")

\* An idempotent command saves nothing and succeeds.
LoadIdempotent(p) ==
  /\ Loads(p)
  /\ IsIdempotent(request[p].type, LoadedStatus(p))
  /\ Goto(p, "fetch")
  /\ UNCHANGED <<inbox, reply, tables, proj_lock, local, rebuild>>

LoadAndEmit(p) ==
  /\ Loads(p)
  /\ LoadedRows(p) # {}
  /\ Emits(request[p].type, LoadedStatus(p))
  /\ Emit(p, LoadedRows(p))

\* Any error of the SELECT is reported as a missing wallet.
LoadFails(p) ==
  /\ Loads(p)
  /\ Answer(p, "not_found")

(***************************************************************************)
(* The append transaction.  INSERT INTO event_store waits while another    *)
(* transaction holds the same (aggregate_id, aggregate_version) and raises *)
(* IntegrityError, hence OptimisticConcurrencyError, when it is committed. *)
(* created_at is the inserting process's clock; true time advances with    *)
(* every commit, so a row loaded by its successor is older than it.        *)
(***************************************************************************)
KeyOf(p) == <<row[p].wallet, row[p].version>>

Holds(q, key) == pc[q] \in TxSteps /\ KeyOf(q) = key

\* Mutants of InsertEvent: the unique constraint dropped, or checked against
\* committed rows only (a SELECT instead of the constraint).
InsertEventUnconstrained(p) ==
  /\ pc[p] = "insert_event"
  /\ row' = [row EXCEPT ![p].at = Cardinality(event_store) + ClockOffset[p]]
  /\ Goto(p, "read_slot")
  /\ UNCHANGED <<inbox, reply, tables, proj_lock, request, slot, view, rebuild>>

InsertEventWithoutWait(p) ==
  /\ pc[p] = "insert_event"
  /\ KeyOf(p) \notin Keys(event_store)
  /\ InsertEventUnconstrained(p)

InsertEvent(p) ==
  /\ pc[p] = "insert_event"
  /\ KeyOf(p) \notin Keys(event_store)
  /\ \A q \in Workers : ~Holds(q, KeyOf(p))
  /\ row' = [row EXCEPT ![p].at = Cardinality(event_store) + ClockOffset[p]]
  /\ Goto(p, "read_slot")
  /\ UNCHANGED <<inbox, reply, tables, proj_lock, request, slot, view, rebuild>>

InsertConflict(p) ==
  /\ pc[p] = "insert_event"
  /\ KeyOf(p) \in Keys(event_store)
  /\ Answer(p, "conflict")

(***************************************************************************)
(* The outbox row takes the next version of its own, MAX + 1.  The MAX is  *)
(* an aggregate, for which Django drops the FOR UPDATE: the read takes no  *)
(* lock.  The retries on IntegrityError are unreachable, because the event *)
(* row already serialises the writers of a wallet (OutboxSlotFree), and    *)
(* have no action.                                                         *)
(***************************************************************************)
OutboxRows(w) == {o \in outbox : o.wallet = w}

\* Mutant of ReadSlot: the version read is taken, not the next one.
ReadSlotTaken(p) ==
  /\ pc[p] = "read_slot"
  /\ slot' = [slot EXCEPT ![p] = LatestVersion(OutboxRows(row[p].wallet))]
  /\ Goto(p, "insert_outbox")
  /\ UNCHANGED <<inbox, reply, tables, proj_lock, request, row, view, rebuild>>

ReadSlot(p) ==
  /\ pc[p] = "read_slot"
  /\ slot' = [slot EXCEPT ![p] = LatestVersion(OutboxRows(row[p].wallet)) + 1]
  /\ Goto(p, "insert_outbox")
  /\ UNCHANGED <<inbox, reply, tables, proj_lock, request, row, view, rebuild>>

InsertOutbox(p) ==
  /\ pc[p] = "insert_outbox"
  /\ Goto(p, IF Debug THEN "project" ELSE "commit")
  /\ UNCHANGED <<inbox, reply, tables, proj_lock, local, rebuild>>

(***************************************************************************)
(* DEBUG: apply_from_event waits for the row lock of projection_state and  *)
(* keeps it until the transaction ends.  Any error of the projector        *)
(* (insufficient funds included) undoes the whole append.                  *)
(***************************************************************************)
ProjectionEnabled == proj_version = 1

Project(p) ==
  /\ pc[p] = "project"
  /\ proj_lock = None
  /\ ProjectionEnabled => Accepts(read_model[row[p].wallet], row[p])
  /\ proj_lock' = p
  /\ view' = [view EXCEPT ![p] =
                 IF ProjectionEnabled
                 THEN Projected(read_model[row[p].wallet], row[p])
                 ELSE read_model[row[p].wallet]]
  /\ Goto(p, "commit")
  /\ UNCHANGED <<inbox, reply, tables, request, row, slot, rebuild>>

\* Mutant of ProjectRejected: the error is caught around the projection only.
ProjectRejectedButStored(p) ==
  /\ pc[p] = "project"
  /\ proj_lock = None
  /\ ProjectionEnabled
  /\ ~Accepts(read_model[row[p].wallet], row[p])
  /\ event_store' = event_store \cup {row[p]}
  /\ reply' = [reply EXCEPT ![request[p]] = "rejected"]
  /\ Forget(p)
  /\ UNCHANGED <<inbox, outbox, read_model, proj_version, proj_lock, rebuild>>

ProjectRejected(p) ==
  /\ pc[p] = "project"
  /\ proj_lock = None
  /\ ProjectionEnabled
  /\ ~Accepts(read_model[row[p].wallet], row[p])
  /\ Answer(p, "rejected")

OutboxRow(r, version) ==
  [wallet |-> r.wallet, version |-> version, kind |-> r.kind, request |-> r.request]

\* The tables after the transaction of p commits.
Durable(p) ==
  /\ event_store' = event_store \cup {row[p]}
  /\ outbox' = outbox \cup {OutboxRow(row[p], slot[p])}
  /\ read_model' = IF Debug THEN [read_model EXCEPT ![row[p].wallet] = view[p]]
                   ELSE read_model
  /\ Unlock(p)
  /\ UNCHANGED <<inbox, proj_version, rebuild>>

Commit(p) ==
  /\ pc[p] = "commit"
  /\ Durable(p)
  /\ Goto(p, "fetch")
  /\ row' = [row EXCEPT ![p] = None]
  /\ slot' = [slot EXCEPT ![p] = 0]
  /\ view' = [view EXCEPT ![p] = NoView]
  /\ UNCHANGED <<reply, request>>

\* The commit reaches the database and its acknowledgement is lost.
CommitUnacknowledged(p) ==
  /\ pc[p] = "commit"
  /\ Durable(p)
  /\ Forget(p)
  /\ reply' = [reply EXCEPT ![request[p]] = "failed"]

\* Mutant of TransactionFails: append without transaction.atomic.
TransactionFailsHalfway(p) ==
  /\ pc[p] \in {"insert_event"} \cup TxSteps
  /\ event_store' = event_store \cup IF pc[p] \in TxSteps THEN {row[p]} ELSE {}
  /\ reply' = [reply EXCEPT ![request[p]] = "failed"]
  /\ Forget(p)
  /\ Unlock(p)
  /\ UNCHANGED <<inbox, outbox, read_model, proj_version, rebuild>>

\* A database error anywhere in the transaction.
TransactionFails(p) ==
  /\ pc[p] \in {"insert_event"} \cup TxSteps
  /\ Answer(p, "failed")

(***************************************************************************)
(* The handler reads the view back (_safe_fetch_view) and answers.         *)
(***************************************************************************)
FetchView(p) ==
  /\ pc[p] = "fetch"
  /\ Answer(p, IF read_model[request[p].wallet].status = "none" THEN "no_view" ELSE "ok")

FetchFails(p) ==
  /\ pc[p] = "fetch"
  /\ Answer(p, "no_view")

\* The process dies: PostgreSQL aborts its transaction, the client gets no answer.
Crash(p) ==
  /\ pc[p] # "idle"
  /\ Answer(p, "lost")

(***************************************************************************)
(* manage.py rebuild_wallet_projection, one transaction: disable the       *)
(* projection (which takes the row lock), delete every view, SELECT the    *)
(* events, replay them by created_at, enable the projection again.         *)
(***************************************************************************)
EmptyModel == [w \in Wallets |-> NoView]

\* Mutant of RebuildBegin: the projection is not disabled first.
RebuildBeginUnlocked ==
  /\ rb_pc = "idle"
  /\ rebuilds < MaxRebuilds
  /\ rb_pc' = "select"
  /\ rebuilds' = rebuilds + 1
  /\ UNCHANGED <<inbox, reply, tables, proj_lock, pc, local, rb_model, rb_todo>>

RebuildBegin ==
  /\ rb_pc = "idle"
  /\ rebuilds < MaxRebuilds
  /\ proj_lock = None
  /\ proj_lock' = "rebuild"
  /\ rb_pc' = "select"
  /\ rebuilds' = rebuilds + 1
  /\ UNCHANGED <<inbox, reply, tables, pc, local, rb_model, rb_todo>>

\* Mutant of RebuildSelect: the views are deleted in a transaction of their own.
RebuildSelectVisibly ==
  /\ rb_pc = "select"
  /\ rb_pc' = "replay"
  /\ read_model' = EmptyModel
  /\ rb_model' = EmptyModel
  /\ rb_todo' = event_store
  /\ UNCHANGED <<inbox, reply, event_store, outbox, proj_version, proj_lock,
                 pc, local, rebuilds>>

RebuildSelect ==
  /\ rb_pc = "select"
  /\ rb_pc' = "replay"
  /\ rb_model' = EmptyModel
  /\ rb_todo' = event_store
  /\ UNCHANGED <<inbox, reply, tables, proj_lock, pc, local, rebuilds>>

\* order_by("created_at"); rows of the same instant come in any order.
IsOldest(r) == r \in rb_todo /\ \A s \in rb_todo : r.at <= s.at

RebuildReplay ==
  /\ rb_pc = "replay"
  /\ \E r \in rb_todo :
       /\ IsOldest(r)
       /\ Accepts(rb_model[r.wallet], r)
       /\ rb_model' = [rb_model EXCEPT ![r.wallet] = Projected(@, r)]
       /\ rb_todo' = rb_todo \ {r}
  /\ UNCHANGED <<inbox, reply, tables, proj_lock, pc, local, rb_pc, rebuilds>>

\* Mutant of RebuildOver: disable and enable are session locks, not row locks.
RebuildOverLocked ==
  /\ rb_pc' = "idle"
  /\ rb_model' = EmptyModel
  /\ rb_todo' = {}
  /\ UNCHANGED <<inbox, reply, event_store, outbox, proj_lock, pc, local, rebuilds>>

\* The transaction of the rebuild is over and its row lock released.
RebuildOver ==
  /\ rb_pc' = "idle"
  /\ rb_model' = EmptyModel
  /\ rb_todo' = {}
  /\ proj_lock' = None
  /\ UNCHANGED <<inbox, reply, event_store, outbox, pc, local, rebuilds>>

RebuildCommit ==
  /\ rb_pc = "replay"
  /\ rb_todo = {}
  /\ read_model' = rb_model
  /\ proj_version' = 1
  /\ RebuildOver

\* Mutant of RebuildAborts: an event that cannot be projected is skipped.
RebuildSkips ==
  /\ rb_pc = "replay"
  /\ \E r \in rb_todo :
       /\ IsOldest(r)
       /\ ~Accepts(rb_model[r.wallet], r)
       /\ rb_todo' = rb_todo \ {r}
  /\ UNCHANGED <<inbox, reply, tables, proj_lock, pc, local, rb_pc, rb_model, rebuilds>>

\* An event that cannot be projected aborts the command, and with it the rebuild.
RebuildAborts ==
  /\ rb_pc = "replay"
  /\ \E r \in rb_todo : IsOldest(r) /\ ~Accepts(rb_model[r.wallet], r)
  /\ RebuildOver
  /\ UNCHANGED <<read_model, proj_version>>

RebuildCrashes ==
  /\ rb_pc # "idle"
  /\ RebuildOver
  /\ UNCHANGED <<read_model, proj_version>>

(***************************************************************************)
(* The specification.  A worker keeps executing the request it has; no     *)
(* fairness on arrivals, errors, crashes or the start of a rebuild.        *)
(***************************************************************************)
Progress(p) ==
  \/ Create(p) \/ LoadMissing(p) \/ LoadRefused(p) \/ LoadIdempotent(p) \/ LoadAndEmit(p)
  \/ InsertEvent(p) \/ InsertConflict(p) \/ ReadSlot(p) \/ InsertOutbox(p)
  \/ Project(p) \/ ProjectRejected(p) \/ Commit(p) \/ FetchView(p)

Failure(p) ==
  \/ LoadFails(p) \/ TransactionFails(p) \/ CommitUnacknowledged(p)
  \/ FetchFails(p) \/ Crash(p)

Arrival(p) == \E c \in Requests : Receive(p, c) \/ RefuseAmount(p, c)

RebuildProgress == RebuildSelect \/ RebuildReplay \/ RebuildCommit \/ RebuildAborts

Next ==
  \/ \E p \in Workers : Arrival(p) \/ Progress(p) \/ Failure(p)
  \/ RebuildBegin \/ RebuildProgress \/ RebuildCrashes

Spec == Init /\ [][Next]_vars

Fairness ==
  /\ \A p \in Workers : WF_vars(Progress(p))
  /\ WF_vars(RebuildProgress)

FairSpec == Spec /\ Fairness

(***************************************************************************)
(* Properties.                                                             *)
(***************************************************************************)
EventRows ==
  [ wallet: Wallets, version: Nat, kind: EventKinds, amount: Nat,
    user: Users \cup {NoView.user}, request: Requests, at: Int ]
OutboxRowsType ==
  [wallet: Wallets, version: Nat, kind: EventKinds, request: Requests]
Views == [user: Users \cup {NoView.user}, status: Statuses, balance: Nat]

\* The values the tables, the workers and the rebuild can hold.  No balance is
\* negative, in a view or about to be one: check_wallet_balance_non_negative.
TypeOK ==
  /\ inbox \subseteq Requests
  /\ reply \in [Requests -> Outcomes \cup {"none"}]
  /\ event_store \subseteq EventRows /\ IsFiniteSet(event_store)
  /\ outbox \subseteq OutboxRowsType
  /\ read_model \in [Wallets -> Views]
  /\ proj_version \in Nat
  /\ proj_lock \in Workers \cup {None, "rebuild"}
  /\ pc \in [Workers -> Steps]
  /\ request \in [Workers -> Requests \cup {None}]
  /\ row \in [Workers -> EventRows \cup {None}]
  /\ slot \in [Workers -> Nat]
  /\ view \in [Workers -> Views]
  /\ rb_pc \in {"idle", "select", "replay"}
  /\ rb_model \in [Wallets -> Views]
  /\ rb_todo \subseteq EventRows
  /\ rebuilds \in 0 .. MaxRebuilds

\* Rows of a wallet before a version.
Before(w, version) == {r \in Rows(w) : r.version < version}

\* No two stored events share an (aggregate_id, aggregate_version), and every
\* one was legal for the stream that precedes it: a wallet is created once and
\* first, moves money only while active, and nothing follows its closing.  Each
\* event was decided on an aggregate loaded earlier, while other workers
\* appended; the unique constraint of event_store is what keeps a stale decision
\* out, whatever was in flight.
VersionsUnique ==
  \A r, s \in event_store : r.wallet = s.wallet /\ r.version = s.version => r = s

EventsLegal ==
  \A r \in event_store : Legal(r.kind, StatusOf(Before(r.wallet, r.version)))

LegalHistory == VersionsUnique /\ EventsLegal

\* The outbox holds exactly the stored events, numbered 1, 2, 3... per wallet in
\* the order of the stream although its MAX + 1 is read without a lock: no event
\* is stored unpublished, published unstored, or numbered out of order.
OutboxMirrorsStore ==
  outbox = {OutboxRow(r, r.version \div VersionStep) : r \in event_store}

\* A wallet has at most one open append transaction, and the outbox version that
\* one read is still free: the retries of DjangoOutBoxORMRepository.save on a
\* taken version never run.
OutboxSlotFree ==
  \A p \in Workers : pc[p] \in TxSteps =>
    /\ pc[p] # "read_slot" => \A o \in OutboxRows(row[p].wallet) : o.version # slot[p]
    /\ \A q \in Workers \ {p} : pc[q] \in TxSteps => row[q].wallet # row[p].wallet

Refusals == {"invalid", "not_found", "closed", "suspended", "conflict", "rejected"}
Stored(c) == \E r \in event_store : r.request = c

\* An answer never lies about the store: a refused request left no event, and
\* one answered with success left one unless it was an idempotent command.
AnswersAreTrue ==
  \A c \in Requests :
    /\ reply[c] \in Refusals => ~Stored(c)
    /\ reply[c] = "ok" => Stored(c) \/ c.type \in LifecycleCommands

\* Once a close was answered with success its wallet is closed, and stays so
\* whatever was in flight: no later request of the wallet stores an event.
CloseIsFinal ==
  \A c \in Requests :
    reply[c] = "ok" /\ c.type = "close" => StatusOf(Rows(c.wallet)) = "closed"

\* Every request a worker received is answered: again and again there is none without
\* its answer, which is never taken back.  No transaction waits for ever on a unique
\* key or on the lock of projection_state, nor on a key whose holder waits for the lock
\* that a rebuild has.
EveryRequestAnswered == []<>(\A c \in Requests : c \in inbox \/ reply[c] # "none")

=============================================================================
