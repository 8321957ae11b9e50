--------------------------- MODULE BookingPayments ---------------------------
(***************************************************************************)
(* The RabbitMQ consumer together with the command path it calls: the      *)
(* composition of CommandConsumer and WalletCommandPath.  A consumer       *)
(* process is a worker of the command path.  Its callback finds the wallet *)
(* of the client in the read model, executes the command with the wallet   *)
(* command handler - step by step, while other consumers execute a copy of *)
(* the same message and uvicorn workers serve HTTP requests for the same   *)
(* wallet - and acknowledges the message whatever came of it.              *)
(*                                                                         *)
(* Each call of the handler is a request of the command path: the n-th     *)
(* call for message m has the id <<m, n>>.                                 *)
(***************************************************************************)
EXTENDS WalletReadModel

CONSTANTS
  Consumers, Commands, Malformed, Unnamed, CacheSize, MaxPublished, MaxLost, MaxRestarts,
                  \* as in CommandConsumer
  MaxFaults,      \* bound: how often connections are lost and processes die, together
  Client          \* the user each command names

ASSUME ConsumersAreWorkers == Consumers \subseteq Workers
ASSUME ClientAssumption == Client \in [Commands -> Users]

VARIABLES
  queue, published, unacked, at, working, cache, outcome, lost, restarts,
                  \* as in CommandConsumer
  called          \* history: the calls made by the present process of each consumer

wallet == vars
consumer == <<queue, published, unacked, at, working, cache, outcome, lost, restarts, called>>

(***************************************************************************)
(* What CommandConsumer counts, read off event_store.                      *)
(***************************************************************************)
Calls(m) == {r \in Requests : r.id[1] = m}

Charges(calls) == Cardinality({e \in event_store : e.request \in calls})

Executed == [m \in Commands |-> Charges(Calls(m))]

ExecutedHere == [c \in Consumers |-> [m \in Commands |-> Charges(Calls(m) \cap called[c])]]

Protocol ==
  INSTANCE CommandConsumer WITH executed <- Executed, executedHere <- ExecutedHere

ASSUME ProtocolAssumption ==
  /\ Protocol!CacheSizeAssumption /\ Protocol!CommandsAssumption
  /\ Protocol!BoundsAssumption /\ Protocol!NoneIsNoCommand
\* The two message handlers call pay_with_wallet and refund.
ASSUME CallsAssumption ==
  \A m \in Commands : \A r \in Calls(m) : r.type \in {"pay_with_wallet", "refund"}

PaymentsInit ==
  /\ Init
  /\ called = [c \in Consumers |-> {}]
  /\ Protocol!Init

(***************************************************************************)
(* Steps outside the command path.                                         *)
(***************************************************************************)
Publish ==
  /\ UNCHANGED <<wallet, called>>
  /\ \E m \in Commands : Protocol!Publish(m)

ProtocolStep(c) ==
  /\ UNCHANGED <<wallet, called>>
  /\ \/ Protocol!Deliver(c) \/ Protocol!IgnoreDuplicate(c) \/ Protocol!Mark(c)
     \/ Protocol!Reject(c) \/ Protocol!Translate(c) \/ Protocol!Ack(c)
     \/ Protocol!Reconnect(c)

FaultsLeft == lost + restarts < MaxFaults

LoseConnection(c) ==
  /\ FaultsLeft
  /\ UNCHANGED <<wallet, called>>
  /\ Protocol!LoseConnection(c)

(***************************************************************************)
(* RequestPaymentHandler, RequestRefundHandler: they log how the command   *)
(* ended, whatever it was, and return.                                     *)
(***************************************************************************)
\* Mutant of Returns: a call that failed for a technical reason is made again.
ReturnsOrRetries(c, way) ==
  /\ outcome' = [outcome EXCEPT ![working[c]] = @ \cup {way}]
  /\ at' = [at EXCEPT ![c] = IF way = "error" THEN "find" ELSE "ack"]
  /\ UNCHANGED <<queue, published, unacked, working, cache, lost, restarts, called>>

Returns(c, way) ==
  /\ outcome' = [outcome EXCEPT ![working[c]] = @ \cup {way}]
  /\ at' = [at EXCEPT ![c] = "ack"]
  /\ UNCHANGED <<queue, published, unacked, working, cache, lost, restarts, called>>

WalletsOf(user) ==
  {w \in Wallets : read_model[w].status # "none" /\ read_model[w].user = user}

HasOneWallet(user) == Cardinality(WalletsOf(user)) = 1

\* by_user_id wants exactly one view of the client: none, several and an error of the
\* query are all reported as a missing wallet.  An amount that the service refuses
\* before any query ends in the same way, and shares this step.
NotFound(c) ==
  /\ at[c] = "find"
  /\ UNCHANGED wallet
  /\ Returns(c, IF HasOneWallet(Client[working[c]]) THEN "error" ELSE "refused")

\* r is the next call of the handler for the message of c.
NextCall(c, r) ==
  /\ r.id[2] = 1 + Cardinality({s.id[2] : s \in Calls(working[c]) \ inbox})
  /\ WalletsOf(Client[working[c]]) = {r.wallet}

Call(c) ==
  \E r \in Calls(working[c]) :
    /\ NextCall(c, r)
    /\ Receive(c, r)
    /\ called' = [called EXCEPT ![c] = @ \cup {r}]
    /\ Protocol!FindWallet(c)

\* How the call r ended, after the step that ended it.
Ending(r) ==
  IF \E e \in event_store' : e.request = r THEN "executed"
  ELSE IF reply'[r] \in Refusals THEN "refused"
  ELSE "error"

\* After a step of the command path the handler goes on, or returns.
Continues(c) ==
  IF pc'[c] = "idle" THEN Returns(c, Ending(request[c])) ELSE UNCHANGED consumer

HandlerStep(c) == at[c] = "pay" /\ Progress(c) /\ Continues(c)

HandlerFails(c) ==
  /\ at[c] = "pay"
  /\ LoadFails(c) \/ TransactionFails(c) \/ CommitUnacknowledged(c) \/ FetchFails(c)
  /\ Continues(c)

\* The process dies: its transaction is aborted and its message put back.
Restart(c) ==
  /\ FaultsLeft
  /\ IF pc[c] = "idle" THEN UNCHANGED wallet ELSE Crash(c)
  /\ called' = [called EXCEPT ![c] = {}]
  /\ Protocol!Restart(c)

(***************************************************************************)
(* The uvicorn workers, beside the consumers.                              *)
(***************************************************************************)
HttpWorkers == Workers \ Consumers
HttpRequests == Requests \ UNION {Calls(m) : m \in Commands}

Serve(p) ==
  /\ UNCHANGED consumer
  /\ \/ \E r \in HttpRequests : Receive(p, r) \/ RefuseAmount(p, r)
     \/ Progress(p)
     \/ Failure(p)

ConsumerProgress(c) == ProtocolStep(c) \/ NotFound(c) \/ Call(c) \/ HandlerStep(c)

PaymentsNext ==
  \/ Publish
  \/ \E c \in Consumers :
       ConsumerProgress(c) \/ HandlerFails(c) \/ LoseConnection(c) \/ Restart(c)
  \/ \E p \in HttpWorkers : Serve(p)

payments == <<wallet, consumer>>

PaymentsSpec == PaymentsInit /\ [][PaymentsNext]_payments

\* As in the two components: processes run.
PaymentsFairness ==
  /\ \A c \in Consumers : WF_payments(ConsumerProgress(c))
  /\ \A p \in HttpWorkers : WF_payments(UNCHANGED consumer /\ Progress(p))

PaymentsFairSpec == PaymentsSpec /\ PaymentsFairness

(***************************************************************************)
(* Properties.                                                             *)
(***************************************************************************)
\* CommandConsumer takes a call of the handler for one step that commits one event or
\* none and is then acknowledged.  The handler, which commits in one step and reads
\* the view and answers in others, with failures and crashes between them, does just
\* that: the step is its COMMIT, and a call that committed never charges again.
HandlerOnce ==
  INSTANCE CommandConsumer WITH
    executed <- Executed,
    executedHere <- ExecutedHere,
    at <- [c \in Consumers |-> IF at[c] = "pay" /\ pc[c] = "fetch" THEN "ack" ELSE at[c]],
    outcome <- [m \in Commands |->
                  outcome[m] \cup IF Executed[m] > 0 THEN {"executed"} ELSE {}]

ConsumerSpec == HandlerOnce!Spec

\* Every command leaves the queue although its handler waits for keys and for the
\* projection lock, which other consumers, HTTP workers and dead processes hold.
PaymentsSettled == \A m \in Commands : published[m] > 0 ~> ~Protocol!HeldByBroker(m)

===============================================================================
