----------------------- MODULE OutboxPublisher_proofs -----------------------
(***************************************************************************)
(* Proofs about the outbox publisher, for any number of publishers and     *)
(* events and any sizes: types, that no event is lost in silence, and that *)
(* a settled one is not taken up again.                                    *)
(*                                                                         *)
(* NothingLost is not inductive: a publisher marks an event as published   *)
(* long after the broker took it, on the word of a report, and gives one   *)
(* up on a count it read before.  The invariant adds that a report of a    *)
(* delivery is true when it is called, and that what was found dead is.    *)
(***************************************************************************)
EXTENDS OutboxPublisher, TLAPS

ReportsAreTrue ==
  \A p \in Publishers :
    \A m \in BagToSet(messages[p]) :
      m.state = "delivered" => copies[m.event] > 0

MessagesKnown ==
  \A p \in Publishers : \A m \in BagToSet(messages[p]) : m.event \in stored

DyingIsDead ==
  \A p \in Publishers :
    dying[p] # None => retry_count[dying[p]] >= MaxRetries

Inv == TypeOK /\ NothingLost /\ ReportsAreTrue /\ MessagesKnown /\ DyingIsDead

(***************************************************************************)
(* Bags.                                                                   *)
(***************************************************************************)
\* Adding an element to a bag adds it to the set of the bag's elements.
LEMMA BagAddIs ==
  ASSUME NEW B, IsABag(B), NEW x
  PROVE  IsABag(BagAdd(B, x)) /\ BagToSet(BagAdd(B, x)) = BagToSet(B) \cup {x}
BY DEF BagAdd, IsABag, BagToSet

\* Removing an element from a bag adds nothing to the set of its elements.
LEMMA BagRemoveIs ==
  ASSUME NEW B, IsABag(B), NEW x
  PROVE  IsABag(BagRemove(B, x)) /\ BagToSet(BagRemove(B, x)) \subseteq BagToSet(B)
BY DEF BagRemove, IsABag, BagToSet

\* The empty bag has no element.
LEMMA EmptyBagIs == IsABag(EmptyBag) /\ BagToSet(EmptyBag) = {}
BY DEF EmptyBag, SetToBag, IsABag, BagToSet

(***************************************************************************)
(* Steps that only change what the publisher p holds.                      *)
(***************************************************************************)
\* What p holds after the step are messages that keep the invariant.
Sound(B) ==
  /\ IsABag(B)
  /\ BagToSet(B) \subseteq Messages
  /\ \A m \in BagToSet(B) :
       /\ m.event \in stored
       /\ m.state = "delivered" => copies[m.event] > 0

\* The bags of the producers are sound; Inv says no more of them.
LEMMA HeldIsSound ==
  ASSUME Inv, NEW p \in Publishers
  PROVE  Sound(messages[p])
BY DEF Inv, TypeOK, ReportsAreTrue, MessagesKnown, Sound

\* A report that was called leaves a sound bag.
LEMMA RemovedIsSound ==
  ASSUME NEW B, Sound(B), NEW m
  PROVE  Sound(BagRemove(B, m))
BY BagRemoveIs DEF Sound

\* A message that is queued for a stored event leaves a sound bag.
LEMMA QueuedIsSound ==
  ASSUME NEW B, Sound(B), NEW e \in stored, stored \subseteq Events
  PROVE  Sound(BagAdd(B, Message(e, "queued")))
<1>1. Message(e, "queued") \in Messages
  BY DEF Message, Messages
<1>2. Message(e, "queued").event = e /\ Message(e, "queued").state = "queued"
  BY DEF Message
<1> QED BY <1>1, <1>2, BagAddIs DEF Sound

\* A step that leaves the table and the topic alone, whose new bags are sound and that
\* finds no event dead, keeps the invariant.
LEMMA LocalStep ==
  ASSUME Inv, UNCHANGED <<rows, copies>>,
         at' \in [Publishers -> Places],
         batch' \in [Publishers -> SUBSET stored],
         DOMAIN messages' = Publishers,
         \A p \in Publishers : Sound(messages'[p]),
         checking' \in [Publishers -> stored \cup {None}],
         dying' \in [Publishers -> stored \cup {None}],
         \A p \in Publishers : dying'[p] \in {dying[p], None},
         restarts' \in 0 .. MaxRestarts
  PROVE  Inv'
<1>1. TypeOK' BY DEF Inv, TypeOK, rows, Sound
<1>2. NothingLost'
  BY DEF Inv, NothingLost, rows
<1>3. ReportsAreTrue' /\ MessagesKnown'
  BY DEF Inv, ReportsAreTrue, MessagesKnown, rows, Sound
<1>4. DyingIsDead'
  BY DEF Inv, DyingIsDead, rows
<1> QED BY <1>1, <1>2, <1>3, <1>4 DEF Inv

(***************************************************************************)
(* The steps.                                                              *)
(***************************************************************************)
\* The places of a publisher stay places, wherever it goes.
LEMMA GoesToAPlace ==
  ASSUME Inv, NEW p \in Publishers, NEW place \in Places, Goto(p, place)
  PROVE  at' \in [Publishers -> Places]
BY DEF Inv, TypeOK, Goto

\* A new producer holds nothing, which is sound.
LEMMA NewProducerIsSound ==
  ASSUME Inv, NEW p \in Publishers, NewProducer(p), UNCHANGED <<rows, copies>>,
         restarts' \in 0 .. MaxRestarts
  PROVE  Inv'
<1>1. at' \in [Publishers -> Places]
  BY GoesToAPlace DEF NewProducer, Places
<1>2. /\ batch' \in [Publishers -> SUBSET stored]
      /\ checking' \in [Publishers -> stored \cup {None}]
      /\ dying' \in [Publishers -> stored \cup {None}]
      /\ \A q \in Publishers : dying'[q] \in {dying[q], None}
  BY DEF Inv, TypeOK, NewProducer
<1>3. DOMAIN messages' = Publishers
  BY DEF Inv, TypeOK, NewProducer
<1>4. ASSUME NEW q \in Publishers PROVE Sound(messages'[q])
  <2>1. messages'[q] = IF q = p THEN EmptyBag ELSE messages[q]
    BY DEF Inv, TypeOK, NewProducer
  <2> QED BY <2>1, HeldIsSound, EmptyBagIs DEF Sound
<1> QED BY <1>1, <1>2, <1>3, <1>4, LocalStep

\* Publishers that move on, or take events out of their batch, hold what they held.
LEMMA SameMessages ==
  ASSUME Inv, UNCHANGED <<rows, copies, messages, dying>>,
         at' \in [Publishers -> Places],
         batch' \in [Publishers -> SUBSET stored],
         checking' \in [Publishers -> stored \cup {None}],
         restarts' \in 0 .. MaxRestarts
  PROVE  Inv'
<1>1. DOMAIN messages' = Publishers
  BY DEF Inv, TypeOK
<1>2. \A q \in Publishers : Sound(messages'[q])
  BY HeldIsSound
<1>3. /\ dying' \in [Publishers -> stored \cup {None}]
      /\ \A q \in Publishers : dying'[q] \in {dying[q], None}
  BY DEF Inv, TypeOK
<1> QED BY <1>1, <1>2, <1>3, LocalStep

\* A new row is not published, processed or in flight.
LEMMA AppendStep ==
  ASSUME Inv, NEW e \in Events, Append(e)
  PROVE  Inv'
<1>1. stored' = stored \cup {e} /\ e \notin stored
  BY DEF Append
<1>2. TypeOK' BY <1>1 DEF Inv, TypeOK, Append
<1>3. NothingLost'
  BY DEF Inv, NothingLost, Append
<1>4. ReportsAreTrue' /\ MessagesKnown'
  BY <1>1 DEF Inv, ReportsAreTrue, MessagesKnown, Append
<1>5. DyingIsDead'
  BY <1>1, NoneIsNoEvent DEF Inv, TypeOK, DyingIsDead, Append
<1> QED BY <1>2, <1>3, <1>4, <1>5 DEF Inv

\* A batch holds stored rows.
LEMMA PollStep ==
  ASSUME Inv, NEW p \in Publishers, Poll(p)
  PROVE  Inv'
<1>1. at' \in [Publishers -> Places]
  BY GoesToAPlace DEF Poll, Places
<1>2. batch' \in [Publishers -> SUBSET stored]
  BY DEF Inv, TypeOK, Poll, Unprocessed
<1> QED BY <1>1, <1>2, SameMessages DEF Poll, Inv, TypeOK

\* A publisher that moves on to its next place holds what it held.
LEMMA MoveStep ==
  ASSUME Inv, NEW p \in Publishers,
         ReleaseLocks(p) \/ BufferFull(p) \/ BatchDone(p) \/ FlushEnds(p)
  PROVE  Inv'
<1>1. at' \in [Publishers -> Places]
  BY GoesToAPlace DEF ReleaseLocks, BufferFull, BatchDone, FlushEnds, Places
<1>2. UNCHANGED <<rows, copies, batch, messages, checking, dying, restarts>>
  BY DEF ReleaseLocks, BufferFull, BatchDone, FlushEnds
<1> QED BY <1>1, <1>2, SameMessages DEF Inv, TypeOK

\* A produced message is of a stored row and not delivered yet.
LEMMA ProduceStep ==
  ASSUME Inv, NEW p \in Publishers, Produce(p)
  PROVE  Inv'
<1>1. PICK e \in batch[p] :
        /\ messages' = [messages EXCEPT ![p] = BagAdd(@, Message(e, "queued"))]
        /\ Taken(p, e)
  BY DEF Produce
<1>2. e \in stored /\ stored \subseteq Events
  BY <1>1 DEF Inv, TypeOK
<1>3. batch' \in [Publishers -> SUBSET stored]
  BY <1>1 DEF Inv, TypeOK, Taken
<1>4. DOMAIN messages' = Publishers
  BY <1>1 DEF Inv, TypeOK
<1>5. ASSUME NEW q \in Publishers PROVE Sound(messages'[q])
  <2>1. messages'[q] = IF q = p THEN BagAdd(messages[p], Message(e, "queued")) ELSE messages[q]
    BY <1>1 DEF Inv, TypeOK
  <2> QED BY <2>1, <1>2, HeldIsSound, QueuedIsSound
<1>6. UNCHANGED <<rows, copies, at, checking, dying, restarts>>
  BY DEF Produce
<1>7. \A q \in Publishers : dying'[q] \in {dying[q], None}
  BY <1>6
<1> QED BY <1>3, <1>4, <1>5, <1>6, <1>7, LocalStep DEF Inv, TypeOK

\* A mark changes the retry count of one row and stays within the column.
LEMMA MarksCounts ==
  ASSUME Inv, NEW e \in Events, Marks(e)
  PROVE  /\ retry_count' \in [Events -> 0 .. MaxRetryCount]
         /\ \A f \in Events : retry_count'[f] >= retry_count[f]
BY SizesAssumption DEF Inv, TypeOK, Marks

\* What is dead stays dead while retry counts only grow.
LEMMA MoreFailures ==
  ASSUME Inv,
         UNCHANGED <<stored, published, processed, copies, dying>>,
         retry_count' \in [Events -> 0 .. MaxRetryCount],
         \A f \in Events : retry_count'[f] >= retry_count[f]
  PROVE  NothingLost' /\ DyingIsDead'
<1>1. NothingLost'
  BY SizesAssumption DEF Inv, TypeOK, NothingLost
<1>2. DyingIsDead'
  BY SizesAssumption DEF Inv, TypeOK, DyingIsDead
<1> QED BY <1>1, <1>2

\* A refused event is marked and leaves the batch.
LEMMA ProduceRefusedStep ==
  ASSUME Inv, NEW p \in Publishers, ProduceRefused(p)
  PROVE  Inv'
<1>1. PICK e \in batch[p] : Marks(e) /\ Taken(p, e)
  BY DEF ProduceRefused
<1>2. e \in Events
  BY <1>1 DEF Inv, TypeOK
<1>3. /\ retry_count' \in [Events -> 0 .. MaxRetryCount]
      /\ \A f \in Events : retry_count'[f] >= retry_count[f]
  BY <1>1, <1>2, MarksCounts
<1>4. UNCHANGED <<stored, published, processed, copies, at, messages, checking,
                  dying, restarts>>
  BY DEF ProduceRefused
<1>5. batch' \in [Publishers -> SUBSET stored]
  BY <1>1 DEF Inv, TypeOK, Taken
<1>6. TypeOK' BY <1>3, <1>4, <1>5 DEF Inv, TypeOK
<1>7. NothingLost' /\ DyingIsDead'
  BY <1>3, <1>4, MoreFailures
<1>8. ReportsAreTrue' /\ MessagesKnown'
  BY <1>4 DEF Inv, ReportsAreTrue, MessagesKnown
<1> QED BY <1>6, <1>7, <1>8 DEF Inv

\* A called report leaves sound bags, and was about a stored event; a delivery is in the
\* topic.
LEMMA ReportedIsSound ==
  ASSUME Inv, NEW p \in Publishers, NEW e \in Events, NEW state, Reported(p, e, state)
  PROVE  /\ DOMAIN messages' = Publishers
         /\ \A q \in Publishers : Sound(messages'[q])
         /\ e \in stored
         /\ state = "delivered" => copies[e] > 0
<1> DEFINE m == Message(e, state)
<1>1. m \in BagToSet(messages[p])
  BY DEF Reported, BagIn, BagToSet
<1>2. m.event = e /\ m.state = state
  BY DEF Message
<1>3. DOMAIN messages' = Publishers
  BY DEF Reported, Inv, TypeOK
<1>4. ASSUME NEW q \in Publishers PROVE Sound(messages'[q])
  <2>1. messages'[q] = IF q = p THEN BagRemove(messages[p], m) ELSE messages[q]
    BY DEF Reported, Inv, TypeOK
  <2> QED BY <2>1, HeldIsSound, RemovedIsSound
<1>5. Sound(messages[p])
  BY HeldIsSound
<1> QED BY <1>1, <1>2, <1>3, <1>4, <1>5 DEF Sound

\* A reported delivery happened.
LEMMA ReportDeliveredStep ==
  ASSUME Inv, NEW p \in Publishers, ReportDelivered(p)
  PROVE  Inv'
<1>1. PICK e \in Events :
        /\ Reported(p, e, "delivered")
        /\ published' = published \cup {e}
        /\ processed' = processed \cup IF e \in published THEN {} ELSE {e}
  BY DEF ReportDelivered
<1>2. UNCHANGED <<stored, retry_count, copies, at, batch, checking, dying,
                  restarts>>
  BY DEF ReportDelivered
<1>3. /\ DOMAIN messages' = Publishers
      /\ \A q \in Publishers : Sound(messages'[q])
      /\ e \in stored /\ copies[e] > 0
  BY <1>1, ReportedIsSound
<1>4. TypeOK' BY <1>1, <1>2, <1>3 DEF Inv, TypeOK, Sound
<1>5. NothingLost' /\ DyingIsDead'
  BY <1>1, <1>2, <1>3 DEF Inv, NothingLost, DyingIsDead
<1>6. ReportsAreTrue' /\ MessagesKnown'
  BY <1>2, <1>3 DEF Sound, ReportsAreTrue, MessagesKnown
<1> QED BY <1>4, <1>5, <1>6 DEF Inv

\* A reported failure is marked, and is then checked.
LEMMA ReportFailedStep ==
  ASSUME Inv, NEW p \in Publishers, ReportFailed(p)
  PROVE  Inv'
<1>1. PICK e \in Events :
        /\ Reported(p, e, "failed")
        /\ Marks(e)
        /\ checking' = [checking EXCEPT ![p] = e]
  BY DEF ReportFailed
<1>2. UNCHANGED <<stored, published, processed, copies, at, batch, dying,
                  restarts>>
  BY DEF ReportFailed
<1>3. /\ DOMAIN messages' = Publishers
      /\ \A q \in Publishers : Sound(messages'[q])
      /\ e \in stored
  BY <1>1, ReportedIsSound
<1>4. /\ retry_count' \in [Events -> 0 .. MaxRetryCount]
      /\ \A f \in Events : retry_count'[f] >= retry_count[f]
  BY <1>1, MarksCounts
<1>5. checking' \in [Publishers -> stored \cup {None}]
  BY <1>1, <1>3 DEF Inv, TypeOK
<1>6. TypeOK' BY <1>2, <1>3, <1>4, <1>5 DEF Inv, TypeOK, Sound
<1>7. NothingLost' /\ DyingIsDead'
  BY <1>2, <1>4, MoreFailures
<1>8. ReportsAreTrue' /\ MessagesKnown'
  BY <1>2, <1>3 DEF Sound, ReportsAreTrue, MessagesKnown
<1> QED BY <1>6, <1>7, <1>8 DEF Inv

\* An event is found dead only after its retries.
LEMMA CheckDeadStep ==
  ASSUME Inv, NEW p \in Publishers, CheckDead(p)
  PROVE  Inv'
<1>1. UNCHANGED <<rows, copies, at, batch, messages, restarts>>
  BY DEF CheckDead, Checks
<1>2. TypeOK' BY <1>1 DEF Inv, TypeOK, CheckDead, Checks, rows
<1>3. NothingLost'
  BY <1>1 DEF Inv, NothingLost, rows
<1>4. ReportsAreTrue' /\ MessagesKnown'
  BY <1>1 DEF Inv, ReportsAreTrue, MessagesKnown, rows
<1>5. DyingIsDead'
  BY <1>1 DEF Inv, TypeOK, DyingIsDead, CheckDead, Checks, rows
<1> QED BY <1>2, <1>3, <1>4, <1>5 DEF Inv

\* An event that is given up was found dead, and still is.
LEMMA GiveUpStep ==
  ASSUME Inv, NEW p \in Publishers, GiveUp(p)
  PROVE  Inv'
<1>1. UNCHANGED <<stored, published, retry_count, copies, at, batch, messages,
                  checking, restarts>>
  BY DEF GiveUp
<1>2. TypeOK' BY <1>1 DEF Inv, TypeOK, GiveUp
<1>3. NothingLost'
  BY <1>1 DEF Inv, NothingLost, DyingIsDead, GiveUp
<1>4. ReportsAreTrue' /\ MessagesKnown'
  BY <1>1 DEF Inv, ReportsAreTrue, MessagesKnown
<1>5. DyingIsDead'
  BY <1>1, NoneIsNoEvent DEF Inv, TypeOK, DyingIsDead, GiveUp
<1> QED BY <1>2, <1>3, <1>4, <1>5 DEF Inv

\* A publisher whose producer is replaced holds nothing.
LEMMA ReplacingStep ==
  ASSUME Inv, NEW p \in Publishers, RefillEnds(p) \/ Overflows(p) \/ Restart(p)
  PROVE  Inv'
<1>1. CASE NewProducer(p)
  <2>1. UNCHANGED <<rows, copies>> /\ restarts' \in 0 .. MaxRestarts
    BY SizesAssumption DEF Inv, TypeOK, RefillEnds, Overflows, Restart
  <2> QED BY <1>1, <2>1, NewProducerIsSound
<1>2. CASE /\ Goto(p, "produce")
           /\ UNCHANGED <<batch, messages, checking, dying, rows, copies, restarts>>
  <2>1. at' \in [Publishers -> Places]
    BY <1>2, GoesToAPlace DEF Places
  <2> QED BY <1>2, <2>1, SameMessages DEF Inv, TypeOK
<1> QED BY <1>1, <1>2 DEF RefillEnds, Overflows, Restart

\* The broker takes a message, or gives it up: a delivery is counted before its report
\* exists.
LEMMA SettleStep ==
  ASSUME Inv, NEW p \in Publishers, NEW e \in Events, Settle(p, e)
  PROVE  Inv'
<1>1. PICK state \in {"delivered", "failed"}, n \in {0, 1} :
        /\ state = "delivered" => n = 1
        /\ copies' = [copies EXCEPT ![e] = IF @ < MaxCopies THEN @ + n ELSE @]
        /\ messages' = [messages EXCEPT ![p] =
                          BagAdd(BagRemove(@, Message(e, "queued")), Message(e, state))]
  BY DEF Settle
<1>2. UNCHANGED <<rows, at, batch, checking, dying, restarts>>
  BY DEF Settle
<1>3. /\ copies' \in [Events -> 0 .. MaxCopies]
      /\ \A f \in Events : copies[f] > 0 => copies'[f] > 0
      /\ state = "delivered" => copies'[e] > 0
  BY <1>1, SizesAssumption DEF Inv, TypeOK
<1>4. DOMAIN messages' = Publishers
  BY <1>1 DEF Inv, TypeOK
<1>5. Message(e, "queued") \in BagToSet(messages[p])
  BY DEF Settle, BagIn, BagToSet
<1>6. e \in stored /\ stored' = stored
  BY <1>2, <1>5 DEF Inv, MessagesKnown, Message, rows
<1>7. ASSUME NEW q \in Publishers PROVE Sound(messages[q])'
  <2>1. Sound(messages[q])
    BY HeldIsSound
  <2>2. ASSUME NEW m \in BagToSet(messages[q])
        PROVE  /\ m.event \in stored'
               /\ m.state = "delivered" => copies'[m.event] > 0
    BY <1>3, <1>6, <2>1 DEF Sound, Messages
  <2>3. CASE q # p
    <3>1. messages'[q] = messages[q]
      BY <1>1, <2>3 DEF Inv, TypeOK
    <3> QED BY <3>1, <2>1, <2>2 DEF Sound
  <2>4. CASE q = p
    <3> DEFINE left == BagRemove(messages[p], Message(e, "queued"))
    <3>1. messages'[p] = BagAdd(left, Message(e, state))
      BY <1>1 DEF Inv, TypeOK
    <3>2. IsABag(left) /\ BagToSet(left) \subseteq BagToSet(messages[p])
      BY <2>1, <2>4, BagRemoveIs DEF Sound
    <3> HIDE DEF left
    <3>3. IsABag(messages'[p]) /\ BagToSet(messages'[p]) = BagToSet(left) \cup {Message(e, state)}
      BY <3>1, <3>2, BagAddIs
    <3>4. /\ Message(e, state) \in Messages
          /\ Message(e, state).event = e /\ Message(e, state).state = state
      BY <1>1 DEF Message, Messages
    <3>5. BagToSet(messages'[p]) \subseteq Messages
      BY <3>2, <3>3, <3>4, <2>1, <2>4 DEF Sound
    <3>6. ASSUME NEW m \in BagToSet(messages'[p])
          PROVE  /\ m.event \in stored'
                 /\ m.state = "delivered" => copies'[m.event] > 0
      <4>1. CASE m = Message(e, state)
        BY <4>1, <3>4, <1>3, <1>6
      <4>2. CASE m \in BagToSet(messages[p])
        BY <4>2, <2>2, <2>4
      <4> QED BY <4>1, <4>2, <3>2, <3>3
    <3> QED BY <3>3, <3>5, <3>6, <2>4 DEF Sound
  <2> QED BY <2>3, <2>4
<1>8. TypeOK' BY <1>2, <1>3, <1>4, <1>6, <1>7 DEF Inv, TypeOK, rows, Sound
<1>9. NothingLost'
  BY <1>2, <1>3 DEF Inv, TypeOK, NothingLost, rows
<1>10. DyingIsDead'
  BY <1>2, <1>3 DEF Inv, TypeOK, DyingIsDead, rows
<1>11. ReportsAreTrue' /\ MessagesKnown'
  BY <1>7 DEF Sound, ReportsAreTrue, MessagesKnown
<1> QED BY <1>8, <1>9, <1>10, <1>11 DEF Inv

\* The invariant holds in the initial state.
LEMMA InitInv == Init => Inv
<1> SUFFICES ASSUME Init PROVE Inv
  OBVIOUS
<1>1. TypeOK
  BY SizesAssumption, EmptyBagIs DEF Init, TypeOK, Places
<1>2. NothingLost /\ DyingIsDead
  BY DEF Init, NothingLost, DyingIsDead
<1>3. ReportsAreTrue /\ MessagesKnown
  BY EmptyBagIs DEF Init, ReportsAreTrue, MessagesKnown
<1> QED BY <1>1, <1>2, <1>3 DEF Inv

\* Every step keeps the invariant.
LEMMA Inductive == Inv /\ [Next]_vars => Inv'
<1> SUFFICES ASSUME Inv, [Next]_vars PROVE Inv'
  OBVIOUS
<1>1. ASSUME NEW e \in Events, Append(e) PROVE Inv'
  BY <1>1, AppendStep
<1>2. ASSUME NEW p \in Publishers, Step(p) PROVE Inv'
  BY <1>2, PollStep, MoveStep, ProduceStep, ProduceRefusedStep, ReportDeliveredStep,
     ReportFailedStep, CheckDeadStep, GiveUpStep, ReplacingStep DEF Step
<1>3. ASSUME NEW p \in Publishers, Restart(p) PROVE Inv'
  BY <1>3, ReplacingStep
<1>4. ASSUME NEW p \in Publishers, NEW e \in Events, Settle(p, e) PROVE Inv'
  BY <1>4, SettleStep
<1>5. CASE UNCHANGED vars
  <2>1. /\ DOMAIN messages' = Publishers
        /\ \A p \in Publishers : Sound(messages'[p])
    BY <1>5, HeldIsSound DEF Inv, TypeOK, vars
  <2> QED BY <1>5, <2>1, SameMessages DEF Inv, TypeOK, vars
<1> QED BY <1>1, <1>2, <1>3, <1>4, <1>5 DEF Next

(***************************************************************************)
(* Theorems.                                                               *)
(***************************************************************************)
\* The inductive invariant of the publishers holds in every reachable state.
THEOREM PublisherInvariant == Spec => []Inv
BY InitInv, Inductive, PTL DEF Spec

\* The table, the publishers and their producers only hold what they should:
\* the retry count stays within its column, and every batch is of stored rows.
THEOREM PublisherTypeCorrect == Spec => []TypeOK
<1>1. Inv => TypeOK BY DEF Inv
<1> QED BY <1>1, PublisherInvariant, PTL

\* No event leaves the outbox in silence, for any number of publishers, whichever of
\* them are restarted between a delivery and its report, or between the three
\* statements of a failed one.
THEOREM NoEventLost == Spec => []NothingLost
<1>1. Inv => NothingLost BY DEF Inv
<1> QED BY <1>1, PublisherInvariant, PTL

(***************************************************************************)
(* What a publisher holds after a step it held before, or has just polled. *)
(***************************************************************************)
Holds(p, e) == e \in batch[p] \/ \E m \in BagToSet(messages[p]) : m.event = e

\* A publisher takes up no event but unprocessed ones.
LEMMA TakesUpUnprocessed ==
  ASSUME Inv, Next, NEW p \in Publishers, NEW e, Holds(p, e)'
  PROVE  Holds(p, e) \/ e \notin processed
<1>1. ASSUME NEW f \in Events, Append(f) PROVE Holds(p, e)
  BY <1>1 DEF Append, Holds
<1>2. ASSUME NEW q \in Publishers, Step(q) PROVE Holds(p, e) \/ e \notin processed
  <2>1. CASE Poll(q)
    BY <2>1 DEF Poll, Unprocessed, Holds, Inv, TypeOK
  <2>2. CASE UNCHANGED <<batch, messages>>
    BY <2>2 DEF Holds
  <2>3. CASE Produce(q)
    <3>1. PICK f \in batch[q] :
            /\ messages' = [messages EXCEPT ![q] = BagAdd(@, Message(f, "queued"))]
            /\ Taken(q, f)
      BY <2>3 DEF Produce
    <3>2. CASE p # q
      BY <3>1, <3>2 DEF Taken, Holds, Inv, TypeOK
    <3>3. CASE p = q
      <4>1. batch'[p] \subseteq batch[p]
        BY <3>1, <3>3 DEF Taken, Inv, TypeOK
      <4>2. messages'[p] = BagAdd(messages[p], Message(f, "queued"))
        BY <3>1, <3>3 DEF Inv, TypeOK
      <4>3. BagToSet(messages'[p]) = BagToSet(messages[p]) \cup {Message(f, "queued")}
        BY <4>2, BagAddIs DEF Inv, TypeOK
      <4>4. Message(f, "queued").event = f
        BY DEF Message
      <4> QED BY <4>1, <4>3, <4>4, <3>1, <3>3 DEF Holds
    <3> QED BY <3>2, <3>3
  <2>4. CASE ProduceRefused(q)
    BY <2>4 DEF ProduceRefused, Taken, Holds, Inv, TypeOK
  <2>5. ASSUME NEW f \in Events, NEW state, Reported(q, f, state), UNCHANGED batch
        PROVE  Holds(p, e)
    <3>1. messages'[p] = IF p = q THEN BagRemove(messages[p], Message(f, state)) ELSE messages[p]
      BY <2>5 DEF Reported, Inv, TypeOK
    <3>2. BagToSet(messages'[p]) \subseteq BagToSet(messages[p])
      BY <3>1, BagRemoveIs DEF Inv, TypeOK
    <3> QED BY <2>5, <3>2 DEF Holds
  <2>6. CASE ReportDelivered(q) \/ ReportFailed(q)
    BY <2>5, <2>6 DEF ReportDelivered, ReportFailed
  <2>7. CASE NewProducer(q)
    BY <2>7, EmptyBagIs DEF NewProducer, Holds, Inv, TypeOK
  <2> QED BY <1>2, <2>1, <2>2, <2>3, <2>4, <2>6, <2>7
       DEF Step, ReleaseLocks, BufferFull, BatchDone, CheckDead, Checks, GiveUp, FlushEnds,
           RefillEnds, Overflows
<1>3. ASSUME NEW q \in Publishers, Restart(q) PROVE Holds(p, e)
  BY <1>3, EmptyBagIs DEF Restart, NewProducer, Holds, Inv, TypeOK
<1>4. ASSUME NEW q \in Publishers, NEW f \in Events, Settle(q, f) PROVE Holds(p, e)
  <2>1. PICK state : messages' = [messages EXCEPT ![q] =
                        BagAdd(BagRemove(@, Message(f, "queued")), Message(f, state))]
    BY <1>4 DEF Settle
  <2>2. UNCHANGED batch /\ Message(f, "queued") \in BagToSet(messages[q])
    BY <1>4 DEF Settle, BagIn, BagToSet
  <2>3. CASE p # q
    BY <2>1, <2>2, <2>3 DEF Holds, Inv, TypeOK
  <2>4. CASE p = q
    <3> DEFINE left == BagRemove(messages[p], Message(f, "queued"))
    <3>1. messages'[p] = BagAdd(left, Message(f, state))
      BY <2>1, <2>4 DEF Inv, TypeOK
    <3>2. IsABag(left) /\ BagToSet(left) \subseteq BagToSet(messages[p])
      BY BagRemoveIs DEF Inv, TypeOK
    <3> HIDE DEF left
    <3>3. BagToSet(messages'[p]) = BagToSet(left) \cup {Message(f, state)}
      BY <3>1, <3>2, BagAddIs
    <3>4. Message(f, state).event = f /\ Message(f, "queued").event = f
      BY DEF Message
    <3> QED BY <3>2, <3>3, <3>4, <2>2, <2>4 DEF Holds
  <2> QED BY <2>3, <2>4
<1> QED BY <1>1, <1>2, <1>3, <1>4 DEF Next

\* Duplicates end: a processed event no publisher holds is never taken up again.
THEOREM SettledStaysSettled == Spec => SettledIsFinal
<1> DEFINE A == \A e \in processed : ~InFlight(e) => ~InFlight(e)'
<1>1. Inv /\ [Next]_vars => [A]_vars
  <2> SUFFICES ASSUME Inv, Next, NEW e \in processed, ~InFlight(e), InFlight(e)' PROVE FALSE
    OBVIOUS
  <2>1. PICK p \in Publishers : Holds(p, e)'
    BY DEF InFlight, Holds
  <2>2. Holds(p, e)
    BY <2>1, TakesUpUnprocessed
  <2> QED BY <2>2 DEF InFlight, Holds
<1> QED BY <1>1, PublisherInvariant, PTL DEF Spec, SettledIsFinal

=============================================================================
