------------------------ MODULE CommandConsumer_proofs ------------------------
(***************************************************************************)
(* Proofs about the command consumer, for any number of consumers and      *)
(* commands, any size of the cache and any faults: types, that no command  *)
(* vanishes, and how often one is executed while the caches have room for  *)
(* all ids.                                                                *)
(*                                                                         *)
(* NothingDropped is not inductive: a duplicate is acknowledged because    *)
(* the process remembers its message_id.  The invariant adds that what a   *)
(* process remembers was handled to an end, or is what it works on         *)
(* (MarkedIsHandled), which holds because its memory dies with it.         *)
(***************************************************************************)
EXTENDS CommandConsumer, DedupCache_proofs

\* A consumer works on a message between its delivery and its settlement, and the
\* broker counts no other message as delivered to it.
WorkingOnDelivery ==
  \A c \in Consumers :
    IF at[c] \in {"consuming", "offline"}
    THEN working[c] = None /\ unacked[c] = None
    ELSE working[c] # None /\ unacked[c] \in {working[c], None}

\* The message is marked, and the handler has not returned.
Handling(c, m) == working[c] = m /\ at[c] \in {"translate", "find", "pay"}

MarkedIsHandled ==
  \A c \in Consumers : \A m \in Range(cache[c]) : outcome[m] # {} \/ Handling(c, m)

AckedIsHandled == \A c \in Consumers : at[c] = "ack" => outcome[working[c]] # {}

Inv == TypeOK /\ WorkingOnDelivery /\ MarkedIsHandled /\ AckedIsHandled /\ NothingDropped

(***************************************************************************)
(* What the broker holds.                                                  *)
(***************************************************************************)
\* Putting a message back loses nothing.
LEMMA RequeueKeeps ==
  ASSUME Inv, NEW c \in Consumers, Requeue(c)
  PROVE  /\ queue' \in Seq(Commands)
         /\ unacked' = [unacked EXCEPT ![c] = None]
         /\ published' = published
         /\ \A m \in Commands : HeldByBroker(m) => HeldByBroker(m)'
<1>1. CASE unacked[c] = None
  BY <1>1 DEF Requeue, Inv, TypeOK, HeldByBroker
<1>2. CASE unacked[c] # None
  <2>1. unacked[c] \in Commands /\ queue \in Seq(Commands)
    BY <1>2 DEF Inv, TypeOK
  <2>2. queue' = <<unacked[c]>> \o queue
    BY <1>2 DEF Requeue
  <2>3. queue' \in Seq(Commands) /\ Range(queue') = Range(queue) \cup {unacked[c]}
    BY <2>1, <2>2, RangeOfPush
  <2>4. ASSUME NEW m \in Commands, HeldByBroker(m) PROVE HeldByBroker(m)'
    <3>1. CASE m \in Range(queue') BY <3>1 DEF HeldByBroker
    <3>2. CASE m \notin Range(queue')
      <4>1. PICK d \in Consumers : unacked[d] = m /\ d # c
        BY <3>2, <2>3, <2>4 DEF HeldByBroker
      <4>2. unacked'[d] = m
        BY <4>1 DEF Requeue, Inv, TypeOK
      <4> QED BY <4>2 DEF HeldByBroker
    <3> QED BY <3>1, <3>2
  <2> QED BY <2>3, <2>4 DEF Requeue
<1> QED BY <1>1, <1>2

\* Settling lets go of one message, the one its consumer worked on.
LEMMA SettleKeeps ==
  ASSUME Inv, NEW c \in Consumers, Settle(c), at[c] \notin {"consuming", "offline"}
  PROVE  /\ queue' = queue /\ published' = published
         /\ working[c] \in Commands
         /\ \A m \in Commands : HeldByBroker(m) => HeldByBroker(m)' \/ m = working[c]
         /\ unacked' = [unacked EXCEPT ![c] = None]
         /\ working' = [working EXCEPT ![c] = None]
         /\ at' \in [Consumers -> Places]
         /\ at'[c] \in {"consuming", "offline"}
         /\ \A d \in Consumers \ {c} : at'[d] = at[d]
<1>1. working[c] \in Commands /\ unacked[c] \in {working[c], None}
  BY DEF Inv, TypeOK, WorkingOnDelivery
<1>2. ASSUME NEW m \in Commands, HeldByBroker(m), m # working[c] PROVE HeldByBroker(m)'
  <2>1. CASE m \in Range(queue) BY <2>1 DEF HeldByBroker, Settle
  <2>2. CASE m \notin Range(queue)
    <3>1. PICK d \in Consumers : unacked[d] = m
      BY <2>2, <1>2 DEF HeldByBroker
    <3>2. d # c
      BY <3>1, <1>1, <1>2, NoneIsNoCommand
    <3>3. unacked'[d] = m
      BY <3>1, <3>2 DEF Settle, Inv, TypeOK
    <3> QED BY <3>3 DEF HeldByBroker
  <2> QED BY <2>1, <2>2
<1>3. /\ at' \in [Consumers -> Places]
      /\ at'[c] \in {"consuming", "offline"}
      /\ \A d \in Consumers \ {c} : at'[d] = at[d]
  BY DEF Settle, Goto, Inv, TypeOK, Places
<1> QED BY <1>1, <1>2, <1>3 DEF Settle

\* The invariant after a callback settled a message that was handled to an end.
LEMMA SettledStep ==
  ASSUME Inv, NEW c \in Consumers, Settle(c), at[c] \notin {"consuming", "offline"},
         cache' \in [Consumers -> Seq(Commands \ Unnamed)],
         \A d \in Consumers : Len(cache'[d]) <= CacheSize,
         \A d \in Consumers : Range(cache'[d]) \subseteq Range(cache[d]),
         outcome' \in [Commands -> SUBSET Outcomes],
         \A m \in Commands : outcome[m] \subseteq outcome'[m],
         outcome'[working[c]] # {},
         UNCHANGED <<executed, executedHere, faults>>
  PROVE  Inv'
<1>a. /\ queue' = queue /\ published' = published
      /\ working[c] \in Commands
      /\ \A m \in Commands : HeldByBroker(m) => HeldByBroker(m)' \/ m = working[c]
      /\ unacked' = [unacked EXCEPT ![c] = None]
      /\ working' = [working EXCEPT ![c] = None]
      /\ at' \in [Consumers -> Places]
      /\ at'[c] \in {"consuming", "offline"}
      /\ \A d \in Consumers \ {c} : at'[d] = at[d]
  BY SettleKeeps
<1>1. TypeOK'
  BY <1>a DEF Inv, TypeOK, faults
<1>2. WorkingOnDelivery'
  BY <1>a DEF Inv, TypeOK, WorkingOnDelivery
<1>3. MarkedIsHandled'
  <2> SUFFICES ASSUME NEW d \in Consumers, NEW m \in Range(cache'[d]), outcome'[m] = {}
               PROVE  Handling(d, m)'
    BY DEF MarkedIsHandled
  <2>1. m \in Commands
    BY DEF Range
  <2>2. Handling(d, m)
    BY <2>1 DEF Inv, MarkedIsHandled
  <2>3. d # c
    BY <2>2 DEF Handling
  <2> QED BY <2>2, <2>3, <1>a DEF Handling, Inv, TypeOK
<1>4. AckedIsHandled'
  <2> SUFFICES ASSUME NEW d \in Consumers, at'[d] = "ack" PROVE outcome'[working'[d]] # {}
    BY DEF AckedIsHandled
  <2>1. d # c /\ at[d] = "ack" /\ working'[d] = working[d]
    BY <1>a DEF Inv, TypeOK
  <2>2. working[d] \in Commands
    BY <2>1 DEF Inv, TypeOK, WorkingOnDelivery
  <2> QED BY <2>1, <2>2 DEF Inv, AckedIsHandled
<1>5. NothingDropped'
  BY <1>a DEF Inv, TypeOK, NothingDropped
<1> QED BY <1>1, <1>2, <1>3, <1>4, <1>5 DEF Inv

(***************************************************************************)
(* The steps.                                                              *)
(***************************************************************************)
LEMMA PublishStep ==
  ASSUME Inv, NEW m \in Commands, Publish(m)
  PROVE  Inv'
<1>1. queue' \in Seq(Commands) /\ Range(queue') = Range(queue) \cup {m}
  BY RangeOfAppend DEF Inv, TypeOK, Publish
<1>2. published' \in [Commands -> 0 .. MaxPublished]
  BY BoundsAssumption, CacheSizeAssumption DEF Inv, TypeOK, Publish
<1>3. UNCHANGED <<unacked, at, working, cache, executed, executedHere, outcome, lost, restarts>>
  BY DEF Publish, effects, faults
<1>4. TypeOK'
  BY <1>1, <1>2, <1>3 DEF Inv, TypeOK
<1>5. WorkingOnDelivery' /\ MarkedIsHandled' /\ AckedIsHandled'
  BY <1>3 DEF Inv, WorkingOnDelivery, MarkedIsHandled, AckedIsHandled, Handling
<1>6. NothingDropped'
  <2> SUFFICES ASSUME NEW n \in Commands, published'[n] > 0
               PROVE  HeldByBroker(n)' \/ outcome[n] # {}
    BY <1>3 DEF NothingDropped
  <2>1. CASE n = m
    BY <2>1, <1>1 DEF HeldByBroker
  <2>2. CASE n # m
    BY <2>2, <1>1, <1>3 DEF Publish, Inv, TypeOK, NothingDropped, HeldByBroker
  <2> QED BY <2>1, <2>2
<1> QED BY <1>4, <1>5, <1>6 DEF Inv

\* A delivered message stays with the broker until it is settled.
LEMMA DeliverStep ==
  ASSUME Inv, NEW c \in Consumers, Deliver(c)
  PROVE  Inv'
<1> DEFINE m == Head(queue)
<1>a. /\ m \in Commands /\ queue' \in Seq(Commands)
      /\ Range(queue) = {m} \cup Range(queue')
  BY RangeOfHeadAndTail DEF Deliver, Inv, TypeOK
<1>b. /\ unacked' = [unacked EXCEPT ![c] = m]
      /\ working' = [working EXCEPT ![c] = m]
      /\ at' = [at EXCEPT ![c] = "received"]
      /\ at[c] = "consuming"
      /\ UNCHANGED <<published, cache, executed, executedHere, outcome, lost, restarts>>
  BY DEF Deliver, Goto, effects, faults
<1> HIDE DEF m
<1>1. TypeOK'
  BY <1>a, <1>b DEF Inv, TypeOK, Places
<1>2. WorkingOnDelivery'
  BY <1>a, <1>b, NoneIsNoCommand DEF Inv, TypeOK, WorkingOnDelivery
<1>3. MarkedIsHandled'
  <2>1. \A d \in Consumers : \A n : Handling(d, n) => Handling(d, n)'
    BY <1>b DEF Inv, TypeOK, Handling
  <2> QED BY <2>1, <1>b DEF Inv, MarkedIsHandled
<1>4. AckedIsHandled'
  BY <1>b DEF Inv, TypeOK, AckedIsHandled
<1>5. NothingDropped'
  <2>1. ASSUME NEW n \in Commands, HeldByBroker(n) PROVE HeldByBroker(n)'
    <3>1. CASE n \in Range(queue') BY <3>1 DEF HeldByBroker
    <3>2. CASE n = m
      <4>1. unacked'[c] = n BY <3>2, <1>b DEF Inv, TypeOK
      <4> QED BY <4>1 DEF HeldByBroker
    <3>3. CASE n \notin Range(queue)
      <4>1. PICK d \in Consumers : unacked[d] = n
        BY <3>3, <2>1 DEF HeldByBroker
      <4>2. d # c
        BY <4>1, <1>b, NoneIsNoCommand DEF Inv, WorkingOnDelivery
      <4>3. unacked'[d] = n
        BY <4>1, <4>2, <1>b DEF Inv, TypeOK
      <4> QED BY <4>3 DEF HeldByBroker
    <3> QED BY <3>1, <3>2, <3>3, <1>a
  <2> QED BY <2>1, <1>b DEF Inv, NothingDropped
<1> QED BY <1>1, <1>2, <1>3, <1>4, <1>5 DEF Inv

\* A lost connection puts the message back; the callback goes on.
LEMMA LoseConnectionStep ==
  ASSUME Inv, NEW c \in Consumers, LoseConnection(c)
  PROVE  Inv'
<1>a. /\ queue' \in Seq(Commands)
      /\ unacked' = [unacked EXCEPT ![c] = None]
      /\ published' = published
      /\ \A m \in Commands : HeldByBroker(m) => HeldByBroker(m)'
  BY RequeueKeeps DEF LoseConnection
<1>b. /\ at' = [at EXCEPT ![c] = IF @ = "consuming" THEN "offline" ELSE @]
      /\ UNCHANGED <<working, cache, executed, executedHere, outcome, restarts>>
      /\ lost' = lost + 1 /\ lost < MaxLost
  BY DEF LoseConnection, effects
<1>1. TypeOK'
  BY <1>a, <1>b, BoundsAssumption, CacheSizeAssumption DEF Inv, TypeOK, Places
<1>2. WorkingOnDelivery'
  BY <1>a, <1>b DEF Inv, TypeOK, WorkingOnDelivery
<1>3. MarkedIsHandled'
  <2>1. \A d \in Consumers : \A n : Handling(d, n) => Handling(d, n)'
    BY <1>b DEF Inv, TypeOK, Handling
  <2> QED BY <2>1, <1>b DEF Inv, MarkedIsHandled
<1>4. AckedIsHandled'
  BY <1>b DEF Inv, TypeOK, AckedIsHandled
<1>5. NothingDropped'
  BY <1>a, <1>b DEF Inv, NothingDropped
<1> QED BY <1>1, <1>2, <1>3, <1>4, <1>5 DEF Inv

\* A process that dies takes its cache with it, so it remembers nothing unhandled.
LEMMA RestartStep ==
  ASSUME Inv, NEW c \in Consumers, Restart(c)
  PROVE  Inv'
<1>a. /\ queue' \in Seq(Commands)
      /\ unacked' = [unacked EXCEPT ![c] = None]
      /\ published' = published
      /\ \A m \in Commands : HeldByBroker(m) => HeldByBroker(m)'
  BY RequeueKeeps DEF Restart
<1>b. /\ at' = [at EXCEPT ![c] = "offline"]
      /\ working' = [working EXCEPT ![c] = None]
      /\ cache' = [cache EXCEPT ![c] = <<>>]
      /\ executedHere' = [executedHere EXCEPT ![c] = [m \in Commands |-> 0]]
      /\ UNCHANGED <<executed, outcome, lost>>
      /\ restarts' = restarts + 1 /\ restarts < MaxRestarts
  BY DEF Restart, Goto
<1>c. Range(<<>>) = {}
  BY DEF Range
<1>1. TypeOK'
  <2>1. <<>> \in Seq(Commands \ Unnamed) /\ Len(<<>>) = 0
    OBVIOUS
  <2> QED BY <2>1, <1>a, <1>b, BoundsAssumption, CacheSizeAssumption DEF Inv, TypeOK, Places
<1>2. WorkingOnDelivery'
  BY <1>a, <1>b DEF Inv, TypeOK, WorkingOnDelivery
<1>3. MarkedIsHandled'
  <2>1. \A d \in Consumers : d # c => cache'[d] = cache[d]
    BY <1>b DEF Inv, TypeOK
  <2>2. \A d \in Consumers : d # c => \A n : Handling(d, n) => Handling(d, n)'
    BY <1>b DEF Inv, TypeOK, Handling
  <2>3. cache'[c] = <<>>
    BY <1>b DEF Inv, TypeOK
  <2> QED BY <2>1, <2>2, <2>3, <1>b, <1>c DEF Inv, MarkedIsHandled
<1>4. AckedIsHandled'
  BY <1>b DEF Inv, TypeOK, AckedIsHandled
<1>5. NothingDropped'
  BY <1>a, <1>b DEF Inv, NothingDropped
<1> QED BY <1>1, <1>2, <1>3, <1>4, <1>5 DEF Inv

\* A duplicate that is acknowledged was handled before.
LEMMA IgnoreDuplicateStep ==
  ASSUME Inv, NEW c \in Consumers, IgnoreDuplicate(c)
  PROVE  Inv'
<1>1. /\ at[c] = "received" /\ working[c] \in Range(cache[c]) /\ Settle(c)
      /\ cache' = [cache EXCEPT ![c] = Touch(@, working[c])]
      /\ UNCHANGED <<executed, executedHere, outcome, faults>>
  BY DEF IgnoreDuplicate, Known, effects
<1>2. outcome[working[c]] # {}
  BY <1>1 DEF Inv, MarkedIsHandled, Handling
<1>3. /\ Touch(cache[c], working[c]) \in Seq(Commands \ Unnamed)
      /\ Len(Touch(cache[c], working[c])) = Len(cache[c])
      /\ Range(Touch(cache[c], working[c])) \subseteq Range(cache[c])
  BY <1>1, TouchReorders DEF Inv, TypeOK
<1>4. /\ cache' \in [Consumers -> Seq(Commands \ Unnamed)]
      /\ \A d \in Consumers : Len(cache'[d]) <= CacheSize
      /\ \A d \in Consumers : Range(cache'[d]) \subseteq Range(cache[d])
  BY <1>1, <1>3 DEF Inv, TypeOK
<1> QED BY <1>1, <1>2, <1>4, SettledStep DEF Inv, TypeOK

\* Noting how the handling of a message ends keeps what was noted before.
LEMMA EndsNotes ==
  ASSUME Inv, NEW m \in Commands, NEW ways \in SUBSET Outcomes, Ends(m, ways)
  PROVE  /\ outcome' \in [Commands -> SUBSET Outcomes]
         /\ \A n \in Commands : outcome[n] \subseteq outcome'[n]
         /\ ways \subseteq outcome'[m]
BY DEF Inv, TypeOK, Ends

\* A rejected message was handled to an end.
LEMMA RejectStep ==
  ASSUME Inv, NEW c \in Consumers, Reject(c)
  PROVE  Inv'
<1>1. /\ at[c] = "translate" /\ Settle(c) /\ Ends(working[c], {"rejected"})
      /\ UNCHANGED <<cache, executed, executedHere, faults>>
  BY DEF Reject
<1>2. working[c] \in Commands
  BY <1>1 DEF Inv, TypeOK, WorkingOnDelivery
<1>3. /\ outcome' \in [Commands -> SUBSET Outcomes]
      /\ \A n \in Commands : outcome[n] \subseteq outcome'[n]
      /\ {"rejected"} \subseteq outcome'[working[c]]
  BY <1>1, <1>2, EndsNotes DEF Outcomes
<1> QED BY <1>1, <1>3, SettledStep DEF Inv, TypeOK

\* An acknowledged message was handled to an end.
LEMMA AckStep ==
  ASSUME Inv, NEW c \in Consumers, Ack(c)
  PROVE  Inv'
<1>1. /\ at[c] = "ack" /\ Settle(c)
      /\ Ends(working[c], IF unacked[c] = None THEN {} ELSE {"processed"})
      /\ UNCHANGED <<cache, executed, executedHere, faults>>
  BY DEF Ack
<1>2. working[c] \in Commands /\ outcome[working[c]] # {}
  BY <1>1 DEF Inv, TypeOK, WorkingOnDelivery, AckedIsHandled
<1>3. /\ outcome' \in [Commands -> SUBSET Outcomes]
      /\ \A n \in Commands : outcome[n] \subseteq outcome'[n]
  BY <1>1, <1>2, EndsNotes DEF Outcomes
<1> QED BY <1>1, <1>2, <1>3, SettledStep DEF Inv, TypeOK

\* A message that is marked is being handled.
LEMMA MarkStep ==
  ASSUME Inv, NEW c \in Consumers, Mark(c)
  PROVE  Inv'
<1>a. /\ at[c] = "received"
      /\ cache' = [cache EXCEPT ![c] = Remember(@, working[c])]
      /\ at' = [at EXCEPT ![c] = "translate"]
      /\ UNCHANGED <<queue, published, unacked, working, executed, executedHere, outcome, lost,
                     restarts>>
  BY DEF Mark, Goto, broker, effects, faults
<1>b. working[c] \in Commands
  BY <1>a DEF Inv, TypeOK, WorkingOnDelivery
<1>c. /\ Remember(cache[c], working[c]) \in Seq(Commands \ Unnamed)
      /\ Len(Remember(cache[c], working[c])) <= CacheSize
      /\ Range(Remember(cache[c], working[c])) \subseteq Range(cache[c]) \cup {working[c]}
  BY <1>b, RememberFits DEF Inv, TypeOK
<1>1. TypeOK'
  BY <1>a, <1>c DEF Inv, TypeOK, Places
<1>2. WorkingOnDelivery'
  BY <1>a DEF Inv, TypeOK, WorkingOnDelivery
<1>3. MarkedIsHandled'
  <2> SUFFICES ASSUME NEW d \in Consumers, NEW m \in Range(cache'[d])
               PROVE  outcome[m] # {} \/ Handling(d, m)'
    BY <1>a DEF MarkedIsHandled
  <2>1. CASE d # c
    BY <2>1, <1>a DEF Inv, TypeOK, MarkedIsHandled, Handling
  <2>2. CASE d = c
    <3>1. cache'[c] = Remember(cache[c], working[c]) /\ at'[c] = "translate"
      BY <1>a DEF Inv, TypeOK
    <3>2. CASE m = working[c]
      BY <2>2, <3>1, <3>2, <1>a DEF Handling
    <3>3. CASE m \in Range(cache[c])
      BY <3>3, <1>a DEF Inv, MarkedIsHandled, Handling
    <3> QED BY <2>2, <3>1, <3>2, <3>3, <1>c
  <2> QED BY <2>1, <2>2
<1>4. AckedIsHandled'
  BY <1>a DEF Inv, TypeOK, AckedIsHandled
<1>5. NothingDropped'
  BY <1>a DEF Inv, NothingDropped, HeldByBroker
<1> QED BY <1>1, <1>2, <1>3, <1>4, <1>5 DEF Inv

\* A callback that moves on to its next place keeps the broker as it is.
LEMMA MoveStep ==
  ASSUME Inv, NEW c \in Consumers, Translate(c) \/ FindWallet(c) \/ Reconnect(c)
  PROVE  Inv'
<1>a. /\ \/ at[c] \in {"translate", "find"} /\ at' = [at EXCEPT ![c] = "find"]
         \/ at[c] \in {"translate", "find"} /\ at' = [at EXCEPT ![c] = "pay"]
         \/ at[c] = "offline" /\ at' = [at EXCEPT ![c] = "consuming"]
      /\ UNCHANGED <<queue, published, unacked, working, cache, executed, executedHere, outcome,
                     lost, restarts>>
  BY DEF Translate, FindWallet, Reconnect, Goto, broker, effects, faults
<1>1. TypeOK'
  BY <1>a DEF Inv, TypeOK, Places
<1>2. WorkingOnDelivery'
  BY <1>a DEF Inv, TypeOK, WorkingOnDelivery
<1>3. MarkedIsHandled'
  <2> SUFFICES ASSUME NEW d \in Consumers, NEW m \in Range(cache'[d])
               PROVE  outcome'[m] # {} \/ Handling(d, m)'
    BY DEF MarkedIsHandled
  <2>1. outcome[m] # {} \/ Handling(d, m)
    BY <1>a DEF Inv, MarkedIsHandled
  <2>2. Handling(d, m) => Handling(d, m)'
    BY <1>a DEF Inv, TypeOK, Handling
  <2> QED BY <2>1, <2>2, <1>a
<1>4. AckedIsHandled'
  BY <1>a DEF Inv, TypeOK, AckedIsHandled
<1>5. NothingDropped'
  BY <1>a DEF Inv, NothingDropped, HeldByBroker
<1> QED BY <1>1, <1>2, <1>3, <1>4, <1>5 DEF Inv

\* A handler that returns has noted how it ended.
LEMMA HandledStep ==
  ASSUME Inv, NEW c \in Consumers, WalletMissing(c) \/ Execute(c) \/ ExecuteFails(c)
  PROVE  Inv'
<1> DEFINE m == working[c]
<1>a. /\ at[c] \in {"find", "pay"}
      /\ at' = [at EXCEPT ![c] = "ack"]
      /\ UNCHANGED <<queue, published, unacked, working, cache, lost, restarts>>
  BY DEF WalletMissing, Execute, ExecuteFails, Goto, broker, faults
<1>b. m \in Commands
  BY <1>a DEF Inv, TypeOK, WorkingOnDelivery
<1>c. PICK way \in Outcomes : Ends(m, {way})
  BY DEF WalletMissing, Execute, ExecuteFails, Outcomes
<1>d. /\ outcome' \in [Commands -> SUBSET Outcomes]
      /\ \A n \in Commands : outcome[n] \subseteq outcome'[n]
      /\ outcome'[m] # {}
  BY <1>b, <1>c, EndsNotes
<1>e. executed' \in [Commands -> Nat] /\ executedHere' \in [Consumers -> [Commands -> Nat]]
  <2>1. CASE Execute(c)
    <3>1. executed' = [executed EXCEPT ![m] = @ + 1]
      BY <2>1 DEF Execute
    <3>2. executedHere' = [executedHere EXCEPT ![c][m] = @ + 1]
      BY <2>1 DEF Execute
    <3>3. executed' \in [Commands -> Nat]
      BY <3>1, <1>b DEF Inv, TypeOK
    <3>4. executedHere' \in [Consumers -> [Commands -> Nat]]
      BY <3>2, <1>b DEF Inv, TypeOK
    <3> QED BY <3>3, <3>4
  <2>2. CASE UNCHANGED <<executed, executedHere>>
    BY <2>2 DEF Inv, TypeOK
  <2> QED BY <2>1, <2>2 DEF WalletMissing, ExecuteFails
<1>1. TypeOK'
  BY <1>a, <1>d, <1>e DEF Inv, TypeOK, Places
<1>2. WorkingOnDelivery'
  BY <1>a DEF Inv, TypeOK, WorkingOnDelivery
<1>3. MarkedIsHandled'
  <2> SUFFICES ASSUME NEW d \in Consumers, NEW n \in Range(cache[d]), outcome'[n] = {}
               PROVE  Handling(d, n)'
    BY <1>a DEF MarkedIsHandled
  <2>1. n \in Commands
    BY DEF Range, Inv, TypeOK
  <2>2. Handling(d, n)
    BY <2>1, <1>d DEF Inv, MarkedIsHandled
  <2>3. d # c
    BY <2>2, <1>d DEF Handling
  <2> QED BY <2>2, <2>3, <1>a DEF Handling, Inv, TypeOK
<1>4. AckedIsHandled'
  <2> SUFFICES ASSUME NEW d \in Consumers, at'[d] = "ack" PROVE outcome'[working[d]] # {}
    BY <1>a DEF AckedIsHandled
  <2>1. CASE d = c BY <2>1, <1>d
  <2>2. CASE d # c
    <3>1. at[d] = "ack" BY <2>2, <1>a DEF Inv, TypeOK
    <3>2. working[d] \in Commands BY <3>1 DEF Inv, TypeOK, WorkingOnDelivery
    <3> QED BY <3>1, <3>2, <1>d DEF Inv, AckedIsHandled
  <2> QED BY <2>1, <2>2
<1>5. NothingDropped'
  BY <1>a, <1>d DEF Inv, TypeOK, NothingDropped, HeldByBroker
<1> QED BY <1>1, <1>2, <1>3, <1>4, <1>5 DEF Inv

\* The invariant holds in the initial state.
LEMMA InitInv == Init => Inv
<1> SUFFICES ASSUME Init PROVE Inv
  OBVIOUS
<1>1. <<>> \in Seq(Commands) /\ <<>> \in Seq(Commands \ Unnamed) /\ Len(<<>>) = 0
  OBVIOUS
<1>2. TypeOK
  BY <1>1, BoundsAssumption, CacheSizeAssumption DEF Init, TypeOK, Places
<1>3. Range(<<>>) = {}
  BY DEF Range
<1>4. WorkingOnDelivery /\ MarkedIsHandled /\ AckedIsHandled /\ NothingDropped
  BY <1>3 DEF Init, WorkingOnDelivery, MarkedIsHandled, AckedIsHandled, NothingDropped
<1> QED BY <1>2, <1>4 DEF Inv

\* Every step keeps the invariant.
LEMMA Inductive == Inv /\ [Next]_vars => Inv'
<1> SUFFICES ASSUME Inv, [Next]_vars PROVE Inv'
  OBVIOUS
<1>1. ASSUME NEW m \in Commands, Publish(m) PROVE Inv'
  BY <1>1, PublishStep
<1>2. ASSUME NEW c \in Consumers, Progress(c) PROVE Inv'
  BY <1>2, DeliverStep, IgnoreDuplicateStep, MarkStep, RejectStep, MoveStep, HandledStep, AckStep
     DEF Progress
<1>3. ASSUME NEW c \in Consumers, LoseConnection(c) \/ Restart(c) PROVE Inv'
  BY <1>3, LoseConnectionStep, RestartStep
<1>4. CASE UNCHANGED vars
  <2>1. UNCHANGED <<queue, published, unacked, at, working, cache, executed, executedHere,
                    outcome, lost, restarts>>
    BY <1>4 DEF vars, broker, effects, faults
  <2>2. TypeOK' BY <2>1 DEF Inv, TypeOK
  <2>3. WorkingOnDelivery' /\ MarkedIsHandled' /\ AckedIsHandled'
    BY <2>1 DEF Inv, WorkingOnDelivery, MarkedIsHandled, AckedIsHandled, Handling
  <2>4. NothingDropped' BY <2>1 DEF Inv, NothingDropped, HeldByBroker
  <2> QED BY <2>2, <2>3, <2>4 DEF Inv
<1> QED BY <1>1, <1>2, <1>3, <1>4 DEF Next

(***************************************************************************)
(* Theorems.                                                               *)
(***************************************************************************)
\* The inductive invariant of the consumers holds in every reachable state.
THEOREM ConsumerInvariant == Spec => []Inv
BY InitInv, Inductive, PTL DEF Spec

\* The consumers only hold what they should, and no cache outgrows its limit.
THEOREM ConsumerTypeCorrect == Spec => []TypeOK
<1>1. Inv => TypeOK BY DEF Inv
<1> QED BY <1>1, ConsumerInvariant, PTL

\* No command vanishes, for any number of consumers and whatever fails.
THEOREM NoCommandDropped == Spec => []NothingDropped
<1>1. Inv => NothingDropped BY DEF Inv
<1> QED BY <1>1, ConsumerInvariant, PTL

(***************************************************************************)
(* Executions.  While the cache has room for all commands, what a process  *)
(* executes or has executed is in its cache; it executes one command at a  *)
(* time, and a command it has not executed before.                         *)
(***************************************************************************)
ExecutesOnce(c) ==
  /\ Distinct(cache[c])
  /\ \A m \in Commands \ Unnamed :
       /\ executedHere[c][m] <= 1
       /\ executedHere[c][m] > 0 => m \in Range(cache[c])
       /\ Handling(c, m) => m \in Range(cache[c]) /\ executedHere[c][m] = 0

OnceInv == \A c \in Consumers : ExecutesOnce(c)

LEMMA OnceKept ==
  ASSUME NEW c \in Consumers, ExecutesOnce(c),
         cache'[c] = cache[c], executedHere'[c] = executedHere[c],
         \A m : Handling(c, m)' => Handling(c, m)
  PROVE  ExecutesOnce(c)'
BY DEF ExecutesOnce

\* A consumer leaves the others alone.
LEMMA OneMoves ==
  ASSUME Inv, NEW c \in Consumers, Progress(c) \/ LoseConnection(c) \/ Restart(c),
         NEW d \in Consumers \ {c}
  PROVE  /\ cache'[d] = cache[d] /\ executedHere'[d] = executedHere[d]
         /\ at'[d] = at[d] /\ working'[d] = working[d]
<1> USE DEF Inv, TypeOK, Goto, effects, faults, broker
<1>1. CASE Deliver(c) \/ Mark(c) \/ Translate(c) \/ FindWallet(c) \/ Reconnect(c)
  BY <1>1 DEF Deliver, Mark, Translate, FindWallet, Reconnect
<1>2. CASE IgnoreDuplicate(c) \/ Reject(c) \/ Ack(c)
  BY <1>2 DEF IgnoreDuplicate, Reject, Ack, Settle
<1>3. CASE WalletMissing(c) \/ Execute(c) \/ ExecuteFails(c)
  BY <1>3 DEF WalletMissing, Execute, ExecuteFails
<1>4. CASE LoseConnection(c) \/ Restart(c)
  BY <1>4 DEF LoseConnection, Restart
<1> QED BY <1>1, <1>2, <1>3, <1>4 DEF Progress

LEMMA OnceMarkStep ==
  ASSUME Inv, HasRoom(Commands), NEW c \in Consumers, ExecutesOnce(c), Mark(c)
  PROVE  ExecutesOnce(c)'
<1> DEFINE m == working[c]
<1>1. /\ at[c] = "received" /\ m \in Commands /\ cache[c] \in Seq(Commands \ Unnamed)
      /\ ~Known(cache[c], m)
      /\ cache'[c] = Remember(cache[c], m) /\ at'[c] = "translate"
      /\ working'[c] = m /\ executedHere'[c] = executedHere[c]
  BY DEF Mark, Goto, broker, effects, Inv, TypeOK, WorkingOnDelivery
<1>2. \A n : Handling(c, n)' <=> n = m
  BY <1>1 DEF Handling
<1> HIDE DEF m
<1>3. CASE m \in Unnamed
  BY <1>1, <1>2, <1>3 DEF Remember, ExecutesOnce
<1>4. CASE m \notin Unnamed
  <2>1. m \notin Range(cache[c])
    BY <1>1, <1>4 DEF Known
  <2>2. Range(cache'[c]) = Range(cache[c]) \cup {m} /\ Distinct(cache'[c])
    BY <1>1, <1>4, <2>1, RememberKeepsAll DEF ExecutesOnce
  <2>3. executedHere[c][m] = 0
    BY <1>1, <1>4, <2>1 DEF ExecutesOnce, Inv, TypeOK
  <2> QED BY <1>1, <1>2, <2>2, <2>3 DEF ExecutesOnce
<1> QED BY <1>3, <1>4

LEMMA OnceStep ==
  ASSUME Inv, HasRoom(Commands), OnceInv, [Next]_vars
  PROVE  OnceInv'
<1> USE DEF OnceInv
<1>1. CASE (\E m \in Commands : Publish(m)) \/ UNCHANGED vars
  <2>1. UNCHANGED <<cache, executedHere, at, working>>
    BY <1>1 DEF Publish, vars, effects
  <2> QED BY <2>1, OnceKept DEF Handling
<1>2. ASSUME NEW c \in Consumers, Progress(c) \/ LoseConnection(c) \/ Restart(c)
      PROVE  OnceInv'
  <2>1. ASSUME NEW d \in Consumers \ {c} PROVE ExecutesOnce(d)'
    BY <1>2, OneMoves, OnceKept DEF Handling
  <2> SUFFICES ExecutesOnce(c)'
    BY <2>1
  <2>2. CASE Deliver(c) \/ Translate(c) \/ FindWallet(c) \/ Reconnect(c) \/ WalletMissing(c)
             \/ ExecuteFails(c) \/ LoseConnection(c)
    <3>1. cache' = cache /\ executedHere' = executedHere
      BY <2>2 DEF Deliver, Translate, FindWallet, Reconnect, WalletMissing, ExecuteFails,
         LoseConnection, effects
    <3>2. \A m : Handling(c, m)' => Handling(c, m)
      BY <2>2 DEF Handling, Deliver, Translate, FindWallet, Reconnect, WalletMissing,
         ExecuteFails, LoseConnection, Goto, Inv, TypeOK
    <3> QED BY <3>1, <3>2, OnceKept
  <2>3. CASE Reject(c) \/ Ack(c)
    <3>1. cache' = cache /\ executedHere' = executedHere
      BY <2>3 DEF Reject, Ack
    <3>2. at'[c] \in {"consuming", "offline"}
      BY <2>3 DEF Reject, Ack, Settle, Goto, Inv, TypeOK
    <3> QED BY <3>1, <3>2, OnceKept DEF Handling
  <2>4. CASE IgnoreDuplicate(c)
    <3>1. /\ working[c] \in Range(cache[c]) /\ cache[c] \in Seq(Commands \ Unnamed)
          /\ cache'[c] = Touch(cache[c], working[c])
          /\ executedHere' = executedHere /\ at'[c] \in {"consuming", "offline"}
      BY <2>4 DEF IgnoreDuplicate, Known, Settle, Goto, effects, Inv, TypeOK
    <3>2. Range(cache'[c]) = Range(cache[c]) /\ Distinct(cache'[c])
      BY <3>1, TouchKeepsAll DEF ExecutesOnce
    <3> QED BY <3>1, <3>2 DEF ExecutesOnce, Handling
  <2>5. CASE Mark(c)
    BY <2>5, OnceMarkStep
  <2>6. CASE Execute(c)
    <3>1. /\ at[c] = "pay" /\ at'[c] = "ack" /\ cache' = cache /\ working[c] \in Commands
          /\ executedHere' = [executedHere EXCEPT ![c][working[c]] = @ + 1]
      BY <2>6 DEF Execute, Goto, Inv, TypeOK, WorkingOnDelivery
    <3>2. working[c] \notin Unnamed =>
            executedHere[c][working[c]] = 0 /\ working[c] \in Range(cache[c])
      BY <3>1 DEF ExecutesOnce, Handling
    <3>3. \A m \in Commands : executedHere'[c][m] =
                                executedHere[c][m] + IF m = working[c] THEN 1 ELSE 0
      BY <3>1 DEF Inv, TypeOK
    <3> QED BY <3>1, <3>2, <3>3 DEF ExecutesOnce, Handling
  <2>7. CASE Restart(c)
    <3>1. cache'[c] = <<>> /\ at'[c] = "offline" /\ \A m \in Commands : executedHere'[c][m] = 0
      BY <2>7 DEF Restart, Goto, Inv, TypeOK
    <3>2. Distinct(<<>>)
      BY DEF Distinct
    <3> QED BY <3>1, <3>2 DEF ExecutesOnce, Handling
  <2> QED BY <1>2, <2>2, <2>3, <2>4, <2>5, <2>6, <2>7 DEF Progress
<1> QED BY <1>1, <1>2 DEF Next

LEMMA OnceInit == Init => OnceInv
BY DEF Init, OnceInv, ExecutesOnce, Distinct, Handling

\* While a cache has room for the ids of all commands, its process executes each of
\* them at most once, however often it is sent, redelivered or put back.
THEOREM ProcessExecutesOnce ==
  ASSUME HasRoom(Commands)
  PROVE  Spec => []ExecutedOncePerProcess
<1>1. Inv /\ OnceInv /\ [Next]_vars => OnceInv'
  BY OnceStep
<1>2. OnceInv => ExecutedOncePerProcess
  BY DEF OnceInv, ExecutesOnce, ExecutedOncePerProcess
<1> QED BY <1>1, <1>2, OnceInit, ConsumerInvariant, PTL DEF Spec

(***************************************************************************)
(* How often a command can be executed in all.                             *)
(***************************************************************************)
Payers(m) == {c \in Consumers : executedHere[c][m] > 0}

\* A process that has executed it lives still, or has died.
PaidPerProcess ==
  \A m \in Commands \ Unnamed : executed[m] <= Cardinality(Payers(m)) + restarts

\* Consumers with a copy of the message that they may yet execute.
Busy(m) ==
  {c \in Consumers : working[c] = m /\ at[c] \in {"received", "translate", "find", "pay"}}

\* Every copy was sent or put back, and is executed once.
PaidPerDelivery ==
  \A m \in Commands :
    executed[m] + Occurrences(queue, m) + Cardinality(Busy(m)) <= published[m] + lost + restarts

LEMMA ConsumersFinite ==
  ASSUME IsFiniteSet(Consumers), NEW S, S \subseteq Consumers, NEW c
  PROVE  /\ Cardinality(S) \in Nat /\ Cardinality(S) <= Cardinality(Consumers)
         /\ Cardinality(Consumers) \in Nat
         /\ Cardinality(S \cup {c}) = Cardinality(S) + IF c \in S THEN 0 ELSE 1
         /\ Cardinality(S \ {c}) = Cardinality(S) - IF c \in S THEN 1 ELSE 0
<1>1. IsFiniteSet(S) /\ Cardinality(S) \in Nat /\ Cardinality(S) <= Cardinality(Consumers)
      /\ Cardinality(Consumers) \in Nat
  BY FS_Subset, FS_CardinalityType
<1>2. Cardinality(S \cup {c}) = Cardinality(S) + IF c \in S THEN 0 ELSE 1
  <2>1. CASE c \in S
    <3>1. S \cup {c} = S
      BY <2>1
    <3>2. PICK k \in Nat : k = Cardinality(S)
      BY <1>1
    <3>3. Cardinality(S \cup {c}) = k /\ k + 0 = k
      BY <3>1, <3>2
    <3> QED BY <2>1, <3>2, <3>3
  <2>2. CASE c \notin S
    BY <1>1, <2>2, FS_AddElement
  <2> QED BY <2>1, <2>2
<1>3. Cardinality(S \ {c}) = Cardinality(S) - IF c \in S THEN 1 ELSE 0
  <2>1. CASE c \in S
    BY <1>1, <2>1, FS_RemoveElement
  <2>2. CASE c \notin S
    <3>1. S \ {c} = S
      BY <2>2
    <3> QED BY <1>1, <2>2, <3>1
  <2> QED BY <2>1, <2>2
<1> QED BY <1>1, <1>2, <1>3

LEMMA PaidPerProcessStep ==
  ASSUME Inv, OnceInv, IsFiniteSet(Consumers), PaidPerProcess, [Next]_vars
  PROVE  PaidPerProcess'
<1> USE DEF Inv, TypeOK
<1>1. CASE UNCHANGED <<executed, executedHere, restarts>>
  BY <1>1 DEF PaidPerProcess, Payers
<1>2. ASSUME NEW c \in Consumers, Execute(c) \/ Restart(c) PROVE PaidPerProcess'
  <2> SUFFICES ASSUME NEW m \in Commands \ Unnamed
               PROVE  executed'[m] <= Cardinality(Payers(m)') + restarts'
    BY DEF PaidPerProcess
  <2>1. executed[m] <= Cardinality(Payers(m)) + restarts
    BY DEF PaidPerProcess
  <2>2. /\ Cardinality(Payers(m)) \in Nat
        /\ Cardinality(Payers(m) \cup {c}) =
             Cardinality(Payers(m)) + IF c \in Payers(m) THEN 0 ELSE 1
        /\ Cardinality(Payers(m) \ {c}) =
             Cardinality(Payers(m)) - IF c \in Payers(m) THEN 1 ELSE 0
    BY ConsumersFinite DEF Payers
  <2>3. CASE Execute(c)
    <3>1. /\ working[c] \in Commands
          /\ executed' = [executed EXCEPT ![working[c]] = @ + 1]
          /\ executedHere' = [executedHere EXCEPT ![c][working[c]] = @ + 1]
          /\ restarts' = restarts
      BY <2>3 DEF Execute, faults, WorkingOnDelivery
    <3>2. CASE m = working[c]
      <4>1. executedHere[c][m] = 0
        BY <2>3, <3>2 DEF Execute, OnceInv, ExecutesOnce, Handling
      <4>2. Payers(m)' = Payers(m) \cup {c} /\ c \notin Payers(m)
        BY <3>1, <3>2, <4>1 DEF Payers
      <4> QED BY <2>1, <2>2, <3>1, <3>2, <4>2
    <3>3. CASE m # working[c]
      <4>1. Payers(m)' = Payers(m) /\ executed'[m] = executed[m]
        BY <3>1, <3>3 DEF Payers
      <4> QED BY <2>1, <3>1, <4>1
    <3> QED BY <3>2, <3>3
  <2>4. CASE Restart(c)
    <3>1. /\ executed' = executed /\ restarts' = restarts + 1
          /\ executedHere' = [executedHere EXCEPT ![c] = [n \in Commands |-> 0]]
      BY <2>4 DEF Restart
    <3>2. Payers(m)' = Payers(m) \ {c}
      BY <3>1 DEF Payers
    <3> QED BY <2>1, <2>2, <3>1, <3>2
  <2> QED BY <1>2, <2>3, <2>4
<1>3. ASSUME NEW c \in Consumers,
             (Progress(c) /\ ~Execute(c)) \/ LoseConnection(c) \/ \E m \in Commands : Publish(m)
      PROVE  UNCHANGED <<executed, executedHere, restarts>>
  BY <1>3 DEF Progress, LoseConnection, Publish, Deliver, IgnoreDuplicate, Mark, Reject,
     Translate, FindWallet, WalletMissing, ExecuteFails, Ack, Reconnect, effects, faults
<1>4. (\E m \in Commands : Publish(m)) \/ UNCHANGED vars
        => UNCHANGED <<executed, executedHere, restarts>>
  BY DEF Publish, vars, effects, faults
<1> QED BY <1>1, <1>2, <1>3, <1>4 DEF Next

\* Putting back what c has not settled adds a copy at most, and none of a message that
\* was not with c.
LEMMA RequeueCounts ==
  ASSUME Inv, NEW c \in Consumers, Requeue(c), NEW m \in Commands
  PROVE  /\ Occurrences(queue, m) \in Nat /\ Occurrences(queue', m) \in Nat
         /\ Occurrences(queue', m) <= Occurrences(queue, m) + 1
<1>1. queue \in Seq(Commands) /\ Occurrences(queue, m) \in Nat
  BY PositionsFinite DEF Inv, TypeOK
<1>2. CASE unacked[c] = None
  BY <1>1, <1>2 DEF Requeue
<1>3. CASE unacked[c] # None
  <2>1. unacked[c] \in Commands /\ queue' = <<unacked[c]>> \o queue
    BY <1>3 DEF Requeue, Inv, TypeOK
  <2>2. Occurrences(<<unacked[c]>> \o queue, m) =
          Occurrences(queue, m) + IF unacked[c] = m THEN 1 ELSE 0
    BY <1>1, <2>1, OccursInPush
  <2> QED BY <1>1, <2>1, <2>2
<1> QED BY <1>2, <1>3

LEMMA PaidPerDeliveryStep ==
  ASSUME Inv, IsFiniteSet(Consumers), PaidPerDelivery, [Next]_vars
  PROVE  PaidPerDelivery'
<1> SUFFICES ASSUME NEW m \in Commands
             PROVE  executed'[m] + Occurrences(queue', m) + Cardinality(Busy(m)')
                      <= published'[m] + lost' + restarts'
  BY DEF PaidPerDelivery
<1>1. /\ executed[m] + Occurrences(queue, m) + Cardinality(Busy(m))
           <= published[m] + lost + restarts
      /\ executed[m] \in Nat /\ published[m] \in Nat /\ lost \in Nat /\ restarts \in Nat
  BY BoundsAssumption DEF PaidPerDelivery, Inv, TypeOK
<1>2. queue \in Seq(Commands) /\ Occurrences(queue, m) \in Nat /\ Cardinality(Busy(m)) \in Nat
  BY PositionsFinite, ConsumersFinite DEF Busy, Inv, TypeOK
<1> DEFINE Paid == executed[m] + Occurrences(queue, m) + Cardinality(Busy(m))
           Paid1 == executed'[m] + Occurrences(queue', m) + Cardinality(Busy(m)')
           Limit == published[m] + lost + restarts
           Limit1 == published'[m] + lost' + restarts'
<1>a. Paid <= Limit /\ Paid \in Nat /\ Limit \in Nat
  <2>1. Paid <= Limit
    BY <1>1
  <2>2. Paid \in Nat
    BY <1>1, <1>2
  <2>3. Limit \in Nat
    BY <1>1
  <2> HIDE DEF Paid, Limit
  <2> QED BY <2>1, <2>2, <2>3
<1>b. ASSUME Paid1 \in Nat, Paid1 <= Paid + 1, Limit1 \in Nat, Limit1 = Limit + 1
      PROVE  Paid1 <= Limit1
  <2> HIDE DEF Paid, Paid1, Limit, Limit1
  <2> QED BY <1>a, <1>b
<1>3. CASE UNCHANGED vars
  <2>1. Busy(m)' = Busy(m) /\ queue' = queue
    BY <1>3 DEF vars, broker, Busy
  <2> QED BY <1>1, <1>3, <2>1 DEF vars, broker, effects, faults
<1>4. ASSUME NEW n \in Commands, Publish(n)
      PROVE  executed'[m] + Occurrences(queue', m) + Cardinality(Busy(m)')
               <= published'[m] + lost' + restarts'
  <2>1. /\ queue' = Append(queue, n) /\ published' = [published EXCEPT ![n] = @ + 1]
        /\ UNCHANGED <<executed, lost, restarts>> /\ Busy(m)' = Busy(m)
    BY <1>4 DEF Publish, effects, faults, Busy
  <2>2. Occurrences(queue', m) = Occurrences(queue, m) + IF n = m THEN 1 ELSE 0
    BY <1>2, <2>1, OccursInAppend
  <2>3. published'[m] = published[m] + IF n = m THEN 1 ELSE 0
    BY <2>1 DEF Inv, TypeOK
  <2>4. CASE n = m
    <3>1. Occurrences(queue', m) = Occurrences(queue, m) + 1 /\ published'[m] = published[m] + 1
      BY <1>1, <1>2, <2>2, <2>3, <2>4
    <3>2. /\ executed'[m] = executed[m] /\ lost' = lost /\ restarts' = restarts
          /\ Cardinality(Busy(m)') = Cardinality(Busy(m))
      BY <2>1
    <3>3. /\ executed'[m] \in Nat /\ published'[m] \in Nat /\ lost' \in Nat /\ restarts' \in Nat
          /\ Occurrences(queue', m) \in Nat /\ Cardinality(Busy(m)') \in Nat
      <4>1. executed'[m] \in Nat
        BY <1>1, <3>2
      <4>2. published'[m] \in Nat
        BY <1>1, <3>1
      <4>3. lost' \in Nat
        BY <1>1, <3>2
      <4>4. restarts' \in Nat
        BY <1>1, <3>2
      <4>5. Occurrences(queue', m) \in Nat
        BY <1>2, <3>1
      <4>6. Cardinality(Busy(m)') \in Nat
        BY <1>2, <3>2
      <4> QED BY <4>1, <4>2, <4>3, <4>4, <4>5, <4>6
    <3>4. executed'[m] + Occurrences(queue', m) + Cardinality(Busy(m)')
            <= executed[m] + Occurrences(queue, m) + Cardinality(Busy(m)) + 1
      <4>1. PICK e \in Nat, o \in Nat, b \in Nat :
              e = executed[m] /\ o = Occurrences(queue, m) /\ b = Cardinality(Busy(m))
        BY <1>1, <1>2
      <4>2. executed'[m] = e /\ Occurrences(queue', m) = o + 1 /\ Cardinality(Busy(m)') = b
        BY <3>1, <3>2, <4>1
      <4>3. e + (o + 1) + b <= e + o + b + 1
        OBVIOUS
      <4> QED BY <4>1, <4>2, <4>3
    <3>5. published'[m] + lost' + restarts' = published[m] + lost + restarts + 1
      BY <1>1, <3>1, <3>2
    <3>6. Paid1 \in Nat /\ Limit1 \in Nat
      BY <3>3
    <3> QED BY <3>4, <3>5, <3>6, <1>b
  <2>5. CASE n # m
    <3>1. Occurrences(queue', m) = Occurrences(queue, m) /\ published'[m] = published[m]
      BY <1>1, <1>2, <2>2, <2>3, <2>5
    <3> QED BY <1>1, <1>2, <2>1, <3>1
  <2> QED BY <2>4, <2>5
<1>5. ASSUME NEW c \in Consumers, Progress(c) \/ LoseConnection(c) \/ Restart(c)
      PROVE  executed'[m] + Occurrences(queue', m) + Cardinality(Busy(m)')
               <= published'[m] + lost' + restarts'
  <2>1. \A d \in Consumers \ {c} : at'[d] = at[d] /\ working'[d] = working[d]
    BY <1>5, OneMoves
  <2>2. /\ Cardinality(Busy(m) \cup {c}) = Cardinality(Busy(m)) + IF c \in Busy(m) THEN 0 ELSE 1
        /\ Cardinality(Busy(m) \ {c}) = Cardinality(Busy(m)) - IF c \in Busy(m) THEN 1 ELSE 0
    BY ConsumersFinite DEF Busy
  <2>3. CASE Deliver(c)
    <3>1. /\ queue # <<>> /\ queue' = Tail(queue) /\ c \notin Busy(m)
          /\ UNCHANGED <<published, executed, lost, restarts>>
      BY <2>3 DEF Deliver, Busy, effects, faults
    <3>2. Occurrences(queue, m) = Occurrences(queue', m) + IF Head(queue) = m THEN 1 ELSE 0
      BY <1>2, <3>1, OccursInTail
    <3>3. Busy(m)' = IF Head(queue) = m THEN Busy(m) \cup {c} ELSE Busy(m)
      BY <2>1, <2>3, <3>1 DEF Deliver, Goto, Busy, Inv, TypeOK
    <3>4. queue' \in Seq(Commands)
      BY <1>2, <3>1
    <3>5. Occurrences(queue', m) \in Nat
      BY <3>4, PositionsFinite
    <3>6. CASE Head(queue) = m
      <4>1. Occurrences(queue, m) = Occurrences(queue', m) + 1
        BY <3>2, <3>6
      <4>2. Cardinality(Busy(m)') = Cardinality(Busy(m)) + 1
        BY <2>2, <3>1, <3>3, <3>6
      <4>3. PICK e \in Nat, o \in Nat, b \in Nat :
              e = executed[m] /\ o = Occurrences(queue', m) /\ b = Cardinality(Busy(m))
        BY <1>1, <1>2, <3>5
      <4>4. Paid = e + (o + 1) + b
        BY <4>1, <4>3
      <4>5. executed'[m] = e /\ Cardinality(Busy(m)') = b + 1
        BY <3>1, <4>2, <4>3
      <4>6. Paid1 = e + o + (b + 1)
        BY <4>3, <4>5
      <4>7. Paid1 = Paid
        BY <4>4, <4>6
      <4>8. Limit1 = Limit
        BY <3>1
      <4>9. Paid1 <= Limit1
        <5> HIDE DEF Paid, Paid1, Limit, Limit1
        <5> QED BY <1>a, <4>7, <4>8
      <4> QED BY <4>9
    <3>7. CASE Head(queue) # m
      BY <1>1, <1>2, <3>1, <3>2, <3>3, <3>5, <3>7
    <3> QED BY <3>6, <3>7
  <2>4. CASE Mark(c) \/ Translate(c) \/ FindWallet(c) \/ Reconnect(c)
    <3>1. UNCHANGED <<queue, published, executed, lost, restarts, working>>
      BY <2>4 DEF Mark, Translate, FindWallet, Reconnect, broker, effects, faults
    <3>2. c \in Busy(m)' <=> c \in Busy(m)
      BY <2>4, <3>1 DEF Mark, Translate, FindWallet, Reconnect, Goto, Busy, Inv, TypeOK
    <3>3. Busy(m)' = Busy(m)
      BY <2>1, <3>2 DEF Busy
    <3> QED BY <1>1, <3>1, <3>3
  <2>5. CASE IgnoreDuplicate(c) \/ Reject(c) \/ Ack(c) \/ WalletMissing(c) \/ ExecuteFails(c)
    <3>1. UNCHANGED <<queue, published, executed, lost, restarts>>
      BY <2>5 DEF IgnoreDuplicate, Reject, Ack, WalletMissing, ExecuteFails, Settle, broker,
         effects, faults
    <3>2. at'[c] \in {"consuming", "offline", "ack"}
      BY <2>5 DEF IgnoreDuplicate, Reject, Ack, WalletMissing, ExecuteFails, Settle, Goto,
         Inv, TypeOK
    <3>3. Busy(m)' = Busy(m) \ {c}
      BY <2>1, <3>2 DEF Busy
    <3>4. Cardinality(Busy(m)') \in Nat /\ Cardinality(Busy(m)') <= Cardinality(Busy(m))
      <4>1. Busy(m)' \subseteq Consumers
        BY DEF Busy
      <4>2. Cardinality(Busy(m)') \in Nat
        BY <4>1, ConsumersFinite
      <4> QED BY <1>2, <2>2, <3>3, <4>2
    <3>5. PICK e \in Nat, o \in Nat, b \in Nat :
            e = executed[m] /\ o = Occurrences(queue, m) /\ b = Cardinality(Busy(m))
      BY <1>1, <1>2
    <3>6. PICK b1 \in Nat : b1 = Cardinality(Busy(m)') /\ b1 <= b
      BY <3>4, <3>5
    <3>7. Paid1 = e + o + b1 /\ Paid = e + o + b
      BY <3>1, <3>5, <3>6
    <3>8. Paid1 \in Nat /\ Paid1 <= Paid
      BY <3>6, <3>7
    <3>9. Limit1 = Limit
      BY <3>1
    <3>10. Paid1 <= Limit1
      <4> HIDE DEF Paid, Paid1, Limit, Limit1
      <4> QED BY <1>a, <3>8, <3>9
    <3> QED BY <3>10
  <2>6. CASE Execute(c)
    <3>1. /\ UNCHANGED <<queue, published, lost, restarts>> /\ at[c] = "pay" /\ at'[c] = "ack"
          /\ executed'[m] = executed[m] + IF m = working[c] THEN 1 ELSE 0
      BY <2>6 DEF Execute, Goto, broker, faults, WorkingOnDelivery,
         Inv, TypeOK
    <3>2. Busy(m)' = Busy(m) \ {c} /\ (m = working[c] <=> c \in Busy(m))
      BY <2>1, <3>1 DEF Busy
    <3>3. Cardinality(Busy(m)') = Cardinality(Busy(m)) - IF m = working[c] THEN 1 ELSE 0
      BY <2>2, <3>2
    <3>4. PICK e \in Nat, o \in Nat, b \in Nat :
            e = executed[m] /\ o = Occurrences(queue, m) /\ b = Cardinality(Busy(m))
      BY <1>1, <1>2
    <3>5. Occurrences(queue', m) = o /\ Paid = e + o + b
      BY <3>1, <3>4
    <3>6. Paid1 = e + o + b
      <4>1. CASE m = working[c]
        <5>1. executed'[m] = e + 1
          BY <3>1, <3>4, <4>1
        <5>2. Cardinality(Busy(m)') = b - 1
          BY <3>3, <3>4, <4>1
        <5>3. Paid1 = (e + 1) + o + (b - 1)
          BY <3>5, <5>1, <5>2
        <5> HIDE DEF Paid1
        <5> QED BY <5>3
      <4>2. CASE m # working[c]
        <5>1. executed'[m] = e
          BY <3>1, <3>4, <4>2
        <5>2. Cardinality(Busy(m)') = b
          BY <3>3, <3>4, <4>2
        <5> QED BY <3>5, <5>1, <5>2
      <4> HIDE DEF Paid1
      <4> QED BY <4>1, <4>2
    <3>7. Paid1 = Paid
      <4> HIDE DEF Paid, Paid1
      <4> QED BY <3>5, <3>6
    <3>8. Limit1 = Limit
      BY <3>1
    <3>9. Paid1 <= Limit1
      <4> HIDE DEF Paid, Paid1, Limit, Limit1
      <4> QED BY <1>a, <3>7, <3>8
    <3> QED BY <3>9
  <2>7. CASE LoseConnection(c) \/ Restart(c)
    <3>1. /\ UNCHANGED <<published, executed>> /\ lost' + restarts' = lost + restarts + 1
          /\ lost' \in Nat /\ restarts' \in Nat
      <4>1. CASE LoseConnection(c)
        BY <1>1, <4>1 DEF LoseConnection, Requeue, effects
      <4>2. CASE Restart(c)
        BY <1>1, <4>2 DEF Restart, Requeue
      <4> QED BY <2>7, <4>1, <4>2
    <3>2. Occurrences(queue', m) \in Nat /\ Occurrences(queue', m) <= Occurrences(queue, m) + 1
      BY <2>7, RequeueCounts DEF LoseConnection, Restart
    <3>3. c \in Busy(m)' => c \in Busy(m)
      BY <2>7 DEF LoseConnection, Restart, Goto, Busy, Inv, TypeOK
    <3>4. Busy(m)' = Busy(m) \/ Busy(m)' = Busy(m) \ {c}
      BY <2>1, <3>3 DEF Busy
    <3>5. Cardinality(Busy(m)') \in Nat /\ Cardinality(Busy(m)') <= Cardinality(Busy(m))
      <4>1. CASE Busy(m)' = Busy(m)
        BY <1>2, <4>1
      <4>2. CASE Busy(m)' = Busy(m) \ {c}
        <5>1. Busy(m)' \subseteq Consumers
          BY DEF Busy
        <5>2. Cardinality(Busy(m)') \in Nat
          BY <5>1, ConsumersFinite
        <5> QED BY <1>2, <2>2, <4>2, <5>2
      <4> QED BY <3>4, <4>1, <4>2
    <3>6. executed'[m] = executed[m] /\ published'[m] = published[m]
      BY <3>1
    <3>7. PICK e \in Nat, o \in Nat, b \in Nat :
            e = executed[m] /\ o = Occurrences(queue, m) /\ b = Cardinality(Busy(m))
      BY <1>1, <1>2
    <3>8. PICK o1 \in Nat, b1 \in Nat : o1 = Occurrences(queue', m) /\ b1 = Cardinality(Busy(m)')
      BY <3>2, <3>5
    <3>9. o1 <= o + 1 /\ b1 <= b
      BY <3>2, <3>5, <3>7, <3>8
    <3>10. e + o1 + b1 \in Nat /\ e + o1 + b1 <= e + o + b + 1
      BY <3>9
    <3>11. Paid1 = e + o1 + b1 /\ Paid = e + o + b
      BY <3>6, <3>7, <3>8
    <3>12. Paid1 \in Nat /\ Paid1 <= Paid + 1
      BY <3>10, <3>11
    <3>13. PICK p \in Nat, l \in Nat, r \in Nat :
             p = published[m] /\ l = lost /\ r = restarts
      BY <1>1
    <3>14. PICK l1 \in Nat, r1 \in Nat : l1 = lost' /\ r1 = restarts'
      BY <3>1
    <3>15. l1 + r1 = l + r + 1
      BY <3>1, <3>13, <3>14
    <3>16. Limit = p + l + r /\ Limit1 = p + l1 + r1
      BY <3>6, <3>13, <3>14
    <3>17. Limit1 \in Nat /\ Limit1 = Limit + 1
      <4> HIDE DEF Limit, Limit1
      <4> QED BY <3>15, <3>16
    <3> QED BY <3>12, <3>17, <1>b
  <2> QED BY <1>5, <2>3, <2>4, <2>5, <2>6, <2>7 DEF Progress
<1> QED BY <1>3, <1>4, <1>5 DEF Next

LEMMA PaidInit ==
  ASSUME Init, IsFiniteSet(Consumers)
  PROVE  PaidPerProcess /\ PaidPerDelivery
<1>1. \A m : Payers(m) \subseteq Consumers /\ Busy(m) = {}
  BY DEF Init, Payers, Busy
<1>2. \A m : Cardinality(Payers(m)) \in Nat
  BY <1>1, ConsumersFinite
<1>3. \A m : Positions(<<>>, m) = {}
  BY DEF Positions
<1>4. \A m : Occurrences(queue, m) = 0 /\ Cardinality(Busy(m)) = 0
  BY <1>1, <1>3, FS_EmptySet DEF Init, Occurrences
<1> QED BY <1>2, <1>4 DEF Init, PaidPerProcess, PaidPerDelivery

\* The first half of ExecutionsBounded, in which caches play no part.
OncePerDelivery == \A m \in Commands : executed[m] <= published[m] + lost + restarts

\* However small the caches are and whatever ids the messages lack, a command is executed
\* at most once for each time it was sent or put back: no step executes one copy twice.
THEOREM ExecutionsPerDelivery ==
  ASSUME IsFiniteSet(Consumers)
  PROVE  Spec => []OncePerDelivery
<1>1. Init => PaidPerDelivery
  BY PaidInit
<1>2. Inv /\ PaidPerDelivery /\ [Next]_vars => PaidPerDelivery'
  BY PaidPerDeliveryStep
<1>3. Inv /\ PaidPerDelivery => OncePerDelivery
  <2> SUFFICES ASSUME Inv, PaidPerDelivery, NEW m \in Commands
               PROVE  executed[m] <= published[m] + lost + restarts
    BY DEF OncePerDelivery
  <2>1. /\ executed[m] \in Nat /\ published[m] \in Nat /\ lost \in Nat /\ restarts \in Nat
        /\ queue \in Seq(Commands)
    BY BoundsAssumption DEF Inv, TypeOK
  <2>2. Occurrences(queue, m) \in Nat /\ Cardinality(Busy(m)) \in Nat
    BY <2>1, PositionsFinite, ConsumersFinite DEF Busy
  <2> QED BY <2>1, <2>2 DEF PaidPerDelivery
<1> QED BY <1>1, <1>2, <1>3, ConsumerInvariant, PTL DEF Spec

\* What a client can be charged for a command: once for each time it is sent or put
\* back, and, with a message_id, once for each process there ever was.
THEOREM ExecutionsAreBounded ==
  ASSUME IsFiniteSet(Consumers), HasRoom(Commands)
  PROVE  Spec => []ExecutionsBounded
<1> DEFINE Once == OnceInv /\ PaidPerProcess
<1>1. Init => Once
  BY OnceInit, PaidInit
<1>2. Inv /\ Once /\ [Next]_vars => Once'
  BY OnceStep, PaidPerProcessStep
<1>3. Inv /\ Once /\ OncePerDelivery => ExecutionsBounded
  <2> SUFFICES ASSUME Inv, Once, NEW m \in Commands \ Unnamed
               PROVE  executed[m] <= Cardinality(Consumers) + restarts
    BY DEF ExecutionsBounded, OncePerDelivery
  <2>1. executed[m] \in Nat /\ restarts \in Nat
    BY BoundsAssumption DEF Inv, TypeOK
  <2>2. /\ Cardinality(Payers(m)) \in Nat /\ Cardinality(Consumers) \in Nat
        /\ Cardinality(Payers(m)) <= Cardinality(Consumers)
    BY ConsumersFinite DEF Payers
  <2> QED BY <2>1, <2>2 DEF PaidPerProcess
<1> QED BY <1>1, <1>2, <1>3, ConsumerInvariant, ExecutionsPerDelivery, PTL DEF Spec

===============================================================================
