--------------------------- MODULE CommandConsumer ---------------------------
(***************************************************************************)
(* The RabbitMQ consumer: processes that take payment and refund commands  *)
(* of the booking service from one queue, execute them with the wallet     *)
(* command handler and acknowledge them.                                   *)
(*                                                                         *)
(* RabbitMQ is external: it delivers one message at a time to a consumer   *)
(* (prefetch_count=1), and puts a message back when the connection it was  *)
(* delivered on is lost.  Each process remembers the message ids it saw in *)
(* a DedupCache (Unnamed are those without a message_id).  What the wallet *)
(* command handler does with a command is module WalletCommandPath; here   *)
(* it commits one event, refuses the command, or fails.                    *)
(***************************************************************************)
EXTENDS Naturals, FiniteSets, DedupCache

CONSTANTS
  Consumers,      \* consumer processes
  Commands,       \* messages the booking service sends
  Malformed,      \* those without a command_name, or with a payload the ACL refuses
  MaxPublished,   \* bound: how often the same message is sent
  MaxLost,        \* bound: how often a connection is lost
  MaxRestarts,    \* bound: how often consumer processes die
  None            \* no message

ASSUME CommandsAssumption == Malformed \subseteq Commands /\ Unnamed \subseteq Commands
ASSUME BoundsAssumption ==
  MaxPublished \in Nat \ {0} /\ MaxLost \in Nat /\ MaxRestarts \in Nat
ASSUME NoneIsNoCommand == None \notin Commands

VARIABLES
  queue,          \* messages ready in the queue, the next one first
  published,      \* how often each message was sent
  unacked,        \* what the broker has delivered to each consumer and not settled
  at,             \* where each consumer is
  working,        \* the message its callback works on
  cache,          \* message ids its process remembers, the most recent first
  executed,       \* events committed for each command
  executedHere,   \* those committed by the present process of each consumer
  outcome,        \* the ways in which handling each command has ended
  lost,           \* how often connections were lost
  restarts        \* how often processes died

broker == <<queue, published, unacked>>
effects == <<executed, executedHere, outcome>>
faults == <<lost, restarts>>
vars == <<broker, at, working, cache, effects, faults>>

Places == {"consuming", "received", "translate", "find", "pay", "ack", "offline"}
Outcomes == {"executed", "refused", "error", "rejected", "processed"}

Init ==
  /\ queue = <<>>
  /\ published = [m \in Commands |-> 0]
  /\ unacked = [c \in Consumers |-> None]
  /\ at = [c \in Consumers |-> "consuming"]
  /\ working = [c \in Consumers |-> None]
  /\ cache = [c \in Consumers |-> <<>>]
  /\ executed = [m \in Commands |-> 0]
  /\ executedHere = [c \in Consumers |-> [m \in Commands |-> 0]]
  /\ outcome = [m \in Commands |-> {}]
  /\ lost = 0
  /\ restarts = 0

Goto(c, place) == at' = [at EXCEPT ![c] = place]

\* Handling m has ended in these ways.
Ends(m, ways) == outcome' = [outcome EXCEPT ![m] = @ \cup ways]

(***************************************************************************)
(* The broker.                                                             *)
(***************************************************************************)
\* The booking service sends a message, or sends it again.
Publish(m) ==
  /\ published[m] < MaxPublished
  /\ published' = [published EXCEPT ![m] = @ + 1]
  /\ queue' = Append(queue, m)
  /\ UNCHANGED <<unacked, at, working, cache, effects, faults>>

\* The first message of the queue goes to a consumer that waits for one.
Deliver(c) ==
  /\ at[c] = "consuming"
  /\ queue # <<>>
  /\ unacked' = [unacked EXCEPT ![c] = Head(queue)]
  /\ working' = [working EXCEPT ![c] = Head(queue)]
  /\ queue' = Tail(queue)
  /\ Goto(c, "received")
  /\ UNCHANGED <<published, cache, effects, faults>>

\* What is delivered to c and not settled goes back to the front of the queue.
Requeue(c) ==
  /\ queue' = IF unacked[c] = None THEN queue ELSE <<unacked[c]>> \o queue
  /\ unacked' = [unacked EXCEPT ![c] = None]
  /\ UNCHANGED published

\* The connection of c breaks; a callback that is running does not notice.
LoseConnection(c) ==
  /\ lost < MaxLost
  /\ at[c] # "offline"
  /\ lost' = lost + 1
  /\ Requeue(c)
  /\ at' = [at EXCEPT ![c] = IF @ = "consuming" THEN "offline" ELSE @]
  /\ UNCHANGED <<working, cache, effects, restarts>>

\* The callback settles its message (ack, or nack without requeue).  On a lost
\* connection that raises: the message is back in the queue, and c reconnects.
Settle(c) ==
  /\ unacked' = [unacked EXCEPT ![c] = None]
  /\ working' = [working EXCEPT ![c] = None]
  /\ Goto(c, IF unacked[c] = None THEN "offline" ELSE "consuming")
  /\ UNCHANGED <<queue, published>>

(***************************************************************************)
(* callback.                                                               *)
(***************************************************************************)
IgnoreDuplicate(c) ==
  /\ at[c] = "received"
  /\ Known(cache[c], working[c])
  /\ cache' = [cache EXCEPT ![c] = Touch(@, working[c])]
  /\ Settle(c)
  /\ UNCHANGED <<effects, faults>>

\* Mutant: the message is looked up and not marked.
MarkNothing(c) ==
  /\ at[c] = "received"
  /\ ~Known(cache[c], working[c])
  /\ Goto(c, "translate")
  /\ UNCHANGED <<broker, working, cache, effects, faults>>

\* The message is marked as processed before it is.
Mark(c) ==
  /\ at[c] = "received"
  /\ ~Known(cache[c], working[c])
  /\ cache' = [cache EXCEPT ![c] = Remember(@, working[c])]
  /\ Goto(c, "translate")
  /\ UNCHANGED <<broker, working, effects, faults>>

\* Mutant: nack with requeue=True.
RejectRequeues(c) ==
  /\ at[c] = "translate"
  /\ working[c] \in Malformed
  /\ Ends(working[c], {"rejected"})
  /\ Requeue(c)
  /\ working' = [working EXCEPT ![c] = None]
  /\ Goto(c, "consuming")
  /\ UNCHANGED <<cache, executed, executedHere, faults>>

\* Any exception before the handler: nack with requeue=False.
Reject(c) ==
  /\ at[c] = "translate"
  /\ working[c] \in Malformed
  /\ Ends(working[c], {"rejected"})
  /\ Settle(c)
  /\ UNCHANGED <<cache, executed, executedHere, faults>>

Translate(c) ==
  /\ at[c] = "translate"
  /\ working[c] \notin Malformed
  /\ Goto(c, "find")
  /\ UNCHANGED <<broker, working, cache, effects, faults>>

FindWallet(c) ==
  /\ at[c] = "find"
  /\ Goto(c, "pay")
  /\ UNCHANGED <<broker, working, cache, effects, faults>>

\* get_wallet_by_user reports every failure as a missing wallet; the handler logs it.
WalletMissing(c) ==
  /\ at[c] = "find"
  /\ \E way \in {"refused", "error"} : Ends(working[c], {way})
  /\ Goto(c, "ack")
  /\ UNCHANGED <<broker, working, cache, executed, executedHere, faults>>

\* pay_with_wallet or refund commits its event, whatever it answers afterwards.
Execute(c) ==
  /\ at[c] = "pay"
  /\ executed' = [executed EXCEPT ![working[c]] = @ + 1]
  /\ executedHere' = [executedHere EXCEPT ![c][working[c]] = @ + 1]
  /\ Ends(working[c], {"executed"})
  /\ Goto(c, "ack")
  /\ UNCHANGED <<broker, working, cache, faults>>

\* It commits nothing: a domain rule refuses it, or it fails.  The handler logs it.
ExecuteFails(c) ==
  /\ at[c] = "pay"
  /\ \E way \in {"refused", "error"} : Ends(working[c], {way})
  /\ Goto(c, "ack")
  /\ UNCHANGED <<broker, working, cache, executed, executedHere, faults>>

\* Mutant of Ack: the message is put back after it was handled.
AckRequeues(c) ==
  /\ at[c] = "ack"
  /\ Ends(working[c], {})
  /\ Requeue(c)
  /\ working' = [working EXCEPT ![c] = None]
  /\ Goto(c, "consuming")
  /\ UNCHANGED <<cache, executed, executedHere, faults>>

\* "Command processed", unless the ack raises.
Ack(c) ==
  /\ at[c] = "ack"
  /\ Ends(working[c], IF unacked[c] = None THEN {} ELSE {"processed"})
  /\ Settle(c)
  /\ UNCHANGED <<cache, executed, executedHere, faults>>

\* start_consumer connects again after any exception.
Reconnect(c) ==
  /\ at[c] = "offline"
  /\ Goto(c, "consuming")
  /\ UNCHANGED <<broker, working, cache, effects, faults>>

\* Mutant: a cache that outlives the process, e.g. in Redis.
RestartKeepsCache(c) ==
  /\ restarts < MaxRestarts
  /\ restarts' = restarts + 1
  /\ Requeue(c)
  /\ working' = [working EXCEPT ![c] = None]
  /\ executedHere' = [executedHere EXCEPT ![c] = [m \in Commands |-> 0]]
  /\ Goto(c, "offline")
  /\ UNCHANGED <<cache, executed, outcome, lost>>

\* The process dies, and its memory with it; a new one takes its place.
Restart(c) ==
  /\ restarts < MaxRestarts
  /\ restarts' = restarts + 1
  /\ Requeue(c)
  /\ working' = [working EXCEPT ![c] = None]
  /\ cache' = [cache EXCEPT ![c] = <<>>]
  /\ executedHere' = [executedHere EXCEPT ![c] = [m \in Commands |-> 0]]
  /\ Goto(c, "offline")
  /\ UNCHANGED <<executed, outcome, lost>>

Progress(c) ==
  \/ Deliver(c) \/ IgnoreDuplicate(c) \/ Mark(c) \/ Reject(c) \/ Translate(c)
  \/ FindWallet(c) \/ WalletMissing(c) \/ Execute(c) \/ ExecuteFails(c)
  \/ Ack(c) \/ Reconnect(c)

Next ==
  \/ \E m \in Commands : Publish(m)
  \/ \E c \in Consumers : Progress(c) \/ LoseConnection(c) \/ Restart(c)

Spec == Init /\ [][Next]_vars

\* A consumer process runs; the broker delivers what is ready.
Fairness == \A c \in Consumers : WF_vars(Progress(c))

FairSpec == Spec /\ Fairness

(***************************************************************************)
(* Properties.                                                             *)
(***************************************************************************)
\* Still the broker's: ready, or delivered and not settled.
HeldByBroker(m) == m \in Range(queue) \/ \E c \in Consumers : unacked[c] = m

\* The values the broker and the consumers can hold; the cache keeps to its limit.
TypeOK ==
  /\ queue \in Seq(Commands)
  /\ published \in [Commands -> 0 .. MaxPublished]
  /\ unacked \in [Consumers -> Commands \cup {None}]
  /\ at \in [Consumers -> Places]
  /\ working \in [Consumers -> Commands \cup {None}]
  /\ cache \in [Consumers -> Seq(Commands \ Unnamed)]
  /\ \A c \in Consumers : Len(cache[c]) <= CacheSize
  /\ executed \in [Commands -> Nat]
  /\ executedHere \in [Consumers -> [Commands -> Nat]]
  /\ outcome \in [Commands -> SUBSET Outcomes]
  /\ lost \in 0 .. MaxLost
  /\ restarts \in 0 .. MaxRestarts

\* No command vanishes: one that the broker no longer holds was handled to an end,
\* although it is marked as processed before it is, whatever connections are lost
\* and whichever processes die meanwhile.
NothingDropped ==
  \A m \in Commands : published[m] > 0 => HeldByBroker(m) \/ outcome[m] # {}

\* A process executes a command at most once, however often it is sent or
\* redelivered (while the cache has room for all commands).
ExecutedOncePerProcess ==
  \A c \in Consumers, m \in Commands \ Unnamed : executedHere[c][m] <= 1

\* What a client can be charged: once for each time a command is sent or put back,
\* and, with a message_id, once for each process there ever was.
ExecutionsBounded ==
  \A m \in Commands :
    /\ executed[m] <= published[m] + lost + restarts
    /\ m \notin Unnamed => executed[m] <= Cardinality(Consumers) + restarts

\* The broker gets rid of every command: none is put back for ever.
EveryCommandSettled == \A m \in Commands : published[m] > 0 ~> ~HeldByBroker(m)

=============================================================================
