---------------------------- MODULE KafkaConsumer ----------------------------
(***************************************************************************)
(* KafkaDomainConsumer: processes of one consumer group that read the      *)
(* events of the wallet service from one partition of its topic, dispatch  *)
(* them to the domain event bus and commit their offsets one by one.       *)
(*                                                                         *)
(* Kafka is external.  The coordinator gives the partition to one member   *)
(* and accepts commits only from it; a member whose session has expired    *)
(* does not know, goes on with what it holds, and finds out when it        *)
(* commits or rejoins.  A new owner starts at the committed offset.        *)
(* Partitions are independent, so one is enough.                           *)
(***************************************************************************)
EXTENDS Naturals, DedupCache

CONSTANTS
  Consumers,      \* consumer processes
  Events,         \* events, named by their key: the id of their outbox row
  Payments,       \* those of type wallet.payment_made
  Malformed,      \* those whose payload from_dict refuses
  Undecodable,    \* those whose key, headers or value are not UTF-8
  MaxLog,         \* bound: messages in the partition
  MaxExpired,     \* bound: how often sessions expire or the group rebalances
  MaxErrors,      \* bound: failed commits, errors of poll and killed processes
  None            \* no consumer, no position

ASSUME EventsAssumption ==
  /\ Payments \subseteq Events /\ Malformed \subseteq Events
  /\ Undecodable \subseteq Events /\ Unnamed \subseteq Events
ASSUME BoundsAssumption == MaxLog \in Nat \ {0} /\ MaxExpired \in Nat /\ MaxErrors \in Nat
ASSUME NoneAssumption == None \notin Consumers /\ None \notin Nat

VARIABLES
  log,            \* the partition
  committed,      \* messages before this offset are not read again by a new owner
  owner,          \* to whom the coordinator has given the partition
  members,        \* consumers with a valid session
  at,             \* where each consumer is
  position,       \* messages of the partition it has read, if it holds it in its view
  working,        \* the offset of the message it works on
  cache,          \* the keys its process remembers
  dispatched,     \* how often the present process of each consumer dispatched an event
  outcome,        \* the ways in which handling each event has ended
  expired,        \* how often sessions expired or the group rebalanced
  errors          \* failed commits, errors of poll and killed processes

group == <<committed, owner, members>>
process == <<at, position, working, cache, dispatched>>
faults == <<expired, errors>>
vars == <<log, group, process, outcome, faults>>

Places == {"polling", "received", "dispatch", "commit", "down"}

Init ==
  /\ log = <<>>
  /\ committed = 0
  /\ owner = None
  /\ members = {}
  /\ at = [c \in Consumers |-> "polling"]
  /\ position = [c \in Consumers |-> None]
  /\ working = [c \in Consumers |-> 0]
  /\ cache = [c \in Consumers |-> <<>>]
  /\ dispatched = [c \in Consumers |-> [e \in Events |-> 0]]
  /\ outcome = [e \in Events |-> {}]
  /\ expired = 0
  /\ errors = 0

Goto(c, place) == at' = [at EXCEPT ![c] = place]
Event(c) == log[working[c]]
Ends(e, way) == outcome' = [outcome EXCEPT ![e] = @ \cup {way}]

(***************************************************************************)
(* The broker and the coordinator of the group.                            *)
(***************************************************************************)
\* The outbox publisher delivers an event, or a duplicate of it.
Produce(e) ==
  /\ Len(log) < MaxLog
  /\ log' = Append(log, e)
  /\ UNCHANGED <<group, process, outcome, faults>>

\* A poll joins the group, again if the session has expired.
Join(c) ==
  /\ at[c] = "polling"
  /\ c \notin members
  /\ members' = members \cup {c}
  /\ position' = [position EXCEPT ![c] = None]
  /\ UNCHANGED <<log, committed, owner, at, working, cache, dispatched, outcome, faults>>

\* Mutant: every assignment starts at auto.offset.reset.
AssignFromEarliest(c) ==
  /\ at[c] = "polling"
  /\ owner = None
  /\ c \in members
  /\ owner' = c
  /\ position' = [position EXCEPT ![c] = 0]
  /\ UNCHANGED <<log, committed, members, at, working, cache, dispatched, outcome, faults>>

\* A poll receives the partition and starts at the committed offset.
Assign(c) ==
  /\ at[c] = "polling"
  /\ owner = None
  /\ c \in members
  /\ owner' = c
  /\ position' = [position EXCEPT ![c] = committed]
  /\ UNCHANGED <<log, committed, members, at, working, cache, dispatched, outcome, faults>>

\* A poll of the owner gives the partition back, because members come or go.
Revoke(c) ==
  /\ expired < MaxExpired
  /\ expired' = expired + 1
  /\ at[c] = "polling"
  /\ owner = c
  /\ owner' = None
  /\ position' = [position EXCEPT ![c] = None]
  /\ UNCHANGED <<log, committed, members, at, working, cache, dispatched, outcome, errors>>

\* The coordinator drops c from the group.
Leaves(c) ==
  /\ members' = members \ {c}
  /\ owner' = IF owner = c THEN None ELSE owner
  /\ UNCHANGED committed

\* No heartbeat, or no poll, for too long; c does not notice.
SessionExpires(c) ==
  /\ expired < MaxExpired
  /\ expired' = expired + 1
  /\ c \in members
  /\ Leaves(c)
  /\ UNCHANGED <<log, process, outcome, errors>>

(***************************************************************************)
(* start.                                                                  *)
(***************************************************************************)
\* poll returns the next message c holds, whether or not it is still the owner.
Poll(c) ==
  /\ at[c] = "polling"
  /\ position[c] # None
  /\ position[c] < Len(log)
  /\ position' = [position EXCEPT ![c] = @ + 1]
  /\ working' = [working EXCEPT ![c] = position[c] + 1]
  /\ Goto(c, "received")
  /\ UNCHANGED <<log, group, cache, dispatched, outcome, faults>>

\* Mutant: a cache that outlives the process, e.g. in Redis.
DiesKeepingCache(c) ==
  /\ Leaves(c)
  /\ Goto(c, "down")
  /\ position' = [position EXCEPT ![c] = None]
  /\ dispatched' = [dispatched EXCEPT ![c] = [e \in Events |-> 0]]
  /\ UNCHANGED <<log, working, cache>>

\* The process ends: it leaves the group, and its memory is lost.
Dies(c) ==
  /\ Leaves(c)
  /\ Goto(c, "down")
  /\ position' = [position EXCEPT ![c] = None]
  /\ cache' = [cache EXCEPT ![c] = <<>>]
  /\ dispatched' = [dispatched EXCEPT ![c] = [e \in Events |-> 0]]
  /\ UNCHANGED <<log, working>>

\* poll returns an error, or the process is killed.
Stops(c) ==
  /\ errors < MaxErrors
  /\ errors' = errors + 1
  /\ at[c] # "down"
  /\ Dies(c)
  /\ UNCHANGED <<outcome, expired>>

\* Decoding is outside the inner try.
DecodeFails(c) ==
  /\ at[c] = "received"
  /\ Event(c) \in Undecodable
  /\ Dies(c)
  /\ UNCHANGED <<outcome, faults>>

\* The coordinator accepts a commit of its owner and sets the offset.
Commits(c) == owner = c /\ committed' = working[c]

\* It refuses any other; the commit of an owner may fail too.
CommitRefused(c) ==
  \/ owner # c /\ UNCHANGED errors
  \/ owner = c /\ errors < MaxErrors /\ errors' = errors + 1

IgnoreDuplicate(c) ==
  /\ at[c] = "received"
  /\ Known(cache[c], Event(c))
  /\ cache' = [cache EXCEPT ![c] = Touch(@, Event(c))]
  /\ Commits(c)
  /\ Goto(c, "polling")
  /\ UNCHANGED <<log, owner, members, position, working, dispatched, outcome, faults>>

\* The commit of a duplicate is outside the inner try.
DuplicateCommitFails(c) ==
  /\ at[c] = "received"
  /\ Known(cache[c], Event(c))
  /\ CommitRefused(c)
  /\ Dies(c)
  /\ UNCHANGED <<outcome, expired>>

\* Mutant: the message is looked up and not marked.
MarkNothing(c) ==
  /\ at[c] = "received"
  /\ Event(c) \notin Undecodable
  /\ ~Known(cache[c], Event(c))
  /\ Goto(c, "dispatch")
  /\ UNCHANGED <<log, group, position, working, cache, dispatched, outcome, faults>>

\* The message is marked as processed before it is.
Mark(c) ==
  /\ at[c] = "received"
  /\ Event(c) \notin Undecodable
  /\ ~Known(cache[c], Event(c))
  /\ cache' = [cache EXCEPT ![c] = Remember(@, Event(c))]
  /\ Goto(c, "dispatch")
  /\ UNCHANGED <<log, group, position, working, dispatched, outcome, faults>>

\* handle_wallet_payment_made reads event.action_id, which no event has, after the
\* event bus has run its handlers; from_dict raises before.
Raises(e) == e \in Payments \cup Malformed

\* Counted is a dispatch to the event bus, which swallows what its handlers raise.
Counted(c, e) ==
  dispatched' = IF e \in Malformed THEN dispatched
                ELSE [dispatched EXCEPT ![c][e] = @ + 1]

Dispatch(c) ==
  /\ at[c] = "dispatch"
  /\ ~Raises(Event(c))
  /\ Counted(c, Event(c))
  /\ Ends(Event(c), "handled")
  /\ Goto(c, "commit")
  /\ UNCHANGED <<log, group, position, working, cache, faults>>

\* Mutant: a failure of the dispatch is not caught.
DispatchFailureFatal(c) ==
  /\ at[c] = "dispatch"
  /\ Raises(Event(c))
  /\ Ends(Event(c), "failed")
  /\ Dies(c)
  /\ UNCHANGED faults

\* The failure is logged, the offset not committed, and the loop polls on.
DispatchFails(c) ==
  /\ at[c] = "dispatch"
  /\ Raises(Event(c))
  /\ Counted(c, Event(c))
  /\ Ends(Event(c), "failed")
  /\ Goto(c, "polling")
  /\ UNCHANGED <<log, group, position, working, cache, faults>>

Commit(c) ==
  /\ at[c] = "commit"
  /\ Commits(c)
  /\ Goto(c, "polling")
  /\ UNCHANGED <<log, owner, members, position, working, cache, dispatched, outcome, faults>>

\* A commit that raises is logged as a failure of the event, and the loop polls on.
CommitFails(c) ==
  /\ at[c] = "commit"
  /\ CommitRefused(c)
  /\ Goto(c, "polling")
  /\ UNCHANGED <<log, group, position, working, cache, dispatched, outcome, expired>>

\* A new process takes the place of one that ended.
Start(c) ==
  /\ at[c] = "down"
  /\ Goto(c, "polling")
  /\ UNCHANGED <<log, group, position, working, cache, dispatched, outcome, faults>>

Progress(c) ==
  \/ Join(c) \/ Poll(c) \/ DecodeFails(c)
  \/ IgnoreDuplicate(c) \/ DuplicateCommitFails(c) \/ Mark(c)
  \/ Dispatch(c) \/ DispatchFails(c) \/ Commit(c) \/ CommitFails(c) \/ Start(c)

Next ==
  \/ \E e \in Events : Produce(e)
  \/ \E c \in Consumers :
       Progress(c) \/ Assign(c) \/ Revoke(c) \/ SessionExpires(c) \/ Stops(c)

Spec == Init /\ [][Next]_vars

\* Processes run and are started again; the coordinator hands out a free partition.
Fairness == \A c \in Consumers : WF_vars(Progress(c)) /\ WF_vars(Assign(c))

FairSpec == Spec /\ Fairness

(***************************************************************************)
(* Properties.                                                             *)
(***************************************************************************)
\* The values the partition, the coordinator and the consumers can hold.
TypeOK ==
  /\ log \in Seq(Events) /\ Len(log) <= MaxLog
  /\ committed \in 0 .. Len(log)
  /\ owner \in members \cup {None}
  /\ members \subseteq Consumers
  /\ at \in [Consumers -> Places]
  /\ position \in [Consumers -> 0 .. Len(log) \cup {None}]
  /\ working \in [Consumers -> 0 .. Len(log)]
  /\ cache \in [Consumers -> Seq(Events \ Unnamed)]
  /\ \A c \in Consumers : Len(cache[c]) <= CacheSize
  /\ dispatched \in [Consumers -> [Events -> Nat]]
  /\ outcome \in [Events -> SUBSET {"handled", "failed"}]
  /\ expired \in 0 .. MaxExpired
  /\ errors \in 0 .. MaxErrors

Attempted(i) == i <= Len(log) /\ outcome[log[i]] # {}

\* No event is passed over unseen: what the group will not read again was handled
\* or failed, although events are marked before they are handled and duplicates
\* are committed unread, whichever processes die and sessions expire meanwhile.
NothingSkipped == \A i \in 1 .. committed : Attempted(i)

\* A stalled process that wakes up after its partition has moved on never takes
\* the group back to its old offset.
CommittedNeverRewinds == [][committed' >= committed]_committed

\* A process gives an event to the event bus at most once, however often the
\* publisher repeats it or the group goes back to it (while its cache has room).
DispatchedOncePerProcess ==
  \A c \in Consumers, e \in Events \ Unnamed : dispatched[c][e] <= 1

\* An event that always fails does not stop the partition: whatever lies before an
\* undecodable message, on which every process dies, is in the end handled or has failed.
EveryEventAttempted ==
  \A i \in 1 .. MaxLog :
    i <= Len(log) /\ Range(SubSeq(log, 1, i)) \cap Undecodable = {}
      ~> Attempted(i)

(***************************************************************************)
(* What the code says of itself and does not do.                           *)
(***************************************************************************)
\* start (kafka/consumer.py:97): "Do NOT commit - retry on next poll".
FailedIsNotCommitted == \A i \in 1 .. committed : outcome[log[i]] # {"failed"}

=============================================================================
