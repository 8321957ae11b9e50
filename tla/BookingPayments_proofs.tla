------------------------ MODULE BookingPayments_proofs ------------------------
(***************************************************************************)
(* Both halves of the composition keep their promises.  As far as its      *)
(* tables go, every behaviour of it is one of WalletCommandPath, so what   *)
(* is proved there holds of payments that are redelivered, executed twice  *)
(* at once and cut off by dying consumers.  As far as its messages go, it  *)
(* is one of CommandConsumer, in which the handler is one step: that step  *)
(* is the commit, and a handler that reads the view back is done (AtBar).  *)
(***************************************************************************)
EXTENDS BookingPayments, WalletReadModel_proofs

\* A step of the handler inside a callback is a step of the command path, and so is a
\* call and the death of the process.
LEMMA ConsumerSteps ==
  ASSUME NEW c \in Workers,
         Call(c) \/ HandlerStep(c) \/ HandlerFails(c) \/ Restart(c)
  PROVE  [Next]_vars
<1>1. CASE Call(c)
  BY <1>1 DEF Call, Calls, Next, Arrival
<1>2. CASE HandlerStep(c)
  BY <1>2 DEF HandlerStep, Next
<1>3. CASE HandlerFails(c)
  BY <1>3 DEF HandlerFails, Next, Failure
<1>4. CASE Restart(c)
  <2>1. CASE pc[c] = "idle"
    BY <1>4, <2>1 DEF Restart, wallet
  <2>2. CASE pc[c] # "idle"
    BY <1>4, <2>2 DEF Restart, Next, Failure
  <2> QED BY <2>1, <2>2
<1> QED BY <1>1, <1>2, <1>3, <1>4

\* The other steps of a consumer and of the broker leave the tables alone.
LEMMA ProtocolSteps ==
  ASSUME NEW c \in Consumers,
         Publish \/ ProtocolStep(c) \/ NotFound(c) \/ LoseConnection(c)
  PROVE  UNCHANGED vars
BY DEF Publish, ProtocolStep, NotFound, LoseConnection, wallet

\* Requests that reach an HTTP worker are served by the same steps.
LEMMA HttpSteps ==
  ASSUME NEW p \in HttpWorkers, Serve(p)
  PROVE  [Next]_vars
<1>1. p \in Workers
  BY DEF HttpWorkers
<1>2. CASE \E r \in HttpRequests : Receive(p, r) \/ RefuseAmount(p, r)
  BY <1>1, <1>2 DEF HttpRequests, Arrival, Next
<1>3. CASE Progress(p) \/ Failure(p)
  BY <1>1, <1>3 DEF Next
<1> QED BY <1>2, <1>3 DEF Serve

LEMMA PaymentsStep == [PaymentsNext]_payments => [Next]_vars
<1> SUFFICES ASSUME [PaymentsNext]_payments PROVE [Next]_vars
  OBVIOUS
<1>1. CASE Publish
  BY <1>1 DEF Publish, wallet
<1>2. ASSUME NEW c \in Consumers,
             ConsumerProgress(c) \/ HandlerFails(c) \/ LoseConnection(c) \/ Restart(c)
      PROVE  [Next]_vars
  <2>1. c \in Workers
    BY ConsumersAreWorkers
  <2> QED BY <1>2, <2>1, ConsumerSteps, ProtocolSteps DEF ConsumerProgress
<1>3. ASSUME NEW p \in HttpWorkers, Serve(p) PROVE [Next]_vars
  BY <1>3, HttpSteps
<1>4. CASE UNCHANGED payments
  BY <1>4 DEF payments, wallet
<1> QED BY <1>1, <1>2, <1>3, <1>4 DEF PaymentsNext

\* What the consumers do to the tables, the command path could have done alone.
THEOREM PaymentsUseCommandPath == PaymentsSpec => Spec
<1>1. PaymentsInit => Init
  BY DEF PaymentsInit
<1> QED BY <1>1, PaymentsStep, PTL DEF PaymentsSpec, Spec

\* Whatever is redelivered or dies, the histories that payments leave are legal.
THEOREM PaymentsHistoryLegal == PaymentsSpec => []LegalHistory
BY PaymentsUseCommandPath, HistoryIsLegal, PTL

\* With a payment delivered twice no balance is ever negative.
THEOREM PaymentsTypeCorrect == PaymentsSpec => []TypeOK
BY PaymentsUseCommandPath, TypeCorrect, PTL

\* The handler is told the truth: a payment that was refused stored nothing, and one
\* that succeeded did.
THEOREM PaymentsAnswersTrue == PaymentsSpec => []AnswersAreTrue
BY PaymentsUseCommandPath, AnswersTellTheTruth, PTL

\* Payments executed twice, by two consumers at once or beside withdrawals, never spend
\* what the wallet does not have, but for the rounding of each amount.
THEOREM PaymentsSolvent ==
  ASSUME Debug
  PROVE  PaymentsSpec => []LedgerSolvent
BY PaymentsUseCommandPath, LedgerIsSolvent, PTL

\* Seen from the read model, the composition is the atomic account.
THEOREM PaymentsImplementAccount ==
  ASSUME Debug, InOrder
  PROVE  PaymentsSpec => AccountSpec
BY PaymentsUseCommandPath, ImplementsAccount, PTL

(***************************************************************************)
(* The composition implements the protocol of CommandConsumer, in which    *)
(* the handler is one step.  Consumer is HandlerOnce with the theorems     *)
(* about it, over names for what it substitutes.                           *)
(***************************************************************************)
AtBar == [c \in Consumers |-> IF at[c] = "pay" /\ pc[c] = "fetch" THEN "ack" ELSE at[c]]

OutcomeBar ==
  [m \in Commands |-> outcome[m] \cup IF Executed[m] > 0 THEN {"executed"} ELSE {}]

Consumer ==
  INSTANCE CommandConsumer_proofs WITH
    executed <- Executed, executedHere <- ExecutedHere, at <- AtBar, outcome <- OutcomeBar

\* A callback is in the handler exactly while its process executes one of its calls;
\* a call is made once, by one process, and no HTTP worker serves it.
CallInv ==
  /\ at = [c \in Consumers |-> at[c]]
  /\ outcome = [m \in Commands |-> outcome[m]]
  /\ called \in [Consumers -> SUBSET Requests]
  /\ \A c \in Consumers :
       /\ at[c] = "pay" <=> pc[c] # "idle"
       /\ at[c] = "pay" => request[c] \in Calls(working[c]) \cap called[c]
       /\ called[c] \cap inbox = {}
       /\ \A d \in Consumers \ {c} : called[c] \cap called[d] = {}
  /\ \A p \in HttpWorkers : pc[p] # "idle" => request[p] \in HttpRequests

\* A step of worker p: the others stay where they are, and what it stores is the row
\* it has decided on.
Commits(p) ==
  /\ pc[p] = "commit" /\ pc'[p] \in {"fetch", "idle"}
  /\ event_store' = event_store \cup {row[p]}

Answers(p) == pc[p] = "fetch" /\ pc'[p] = "idle" /\ event_store' = event_store

Works(p) ==
  /\ pc[p] \notin {"idle", "fetch"} /\ event_store' = event_store
  /\ pc'[p] = "fetch" => request[p].type \in LifecycleCommands

LEMMA WorkerMoves ==
  ASSUME TypeOK, NEW p \in Workers, Progress(p) \/ Failure(p)
  PROVE  /\ inbox' = inbox
         /\ pc[p] # "idle"
         /\ pc'[p] # "idle" => request'[p] = request[p]
         /\ \A q \in Workers \ {p} : pc'[q] = pc[q] /\ request'[q] = request[q]
         /\ Commits(p) \/ Answers(p) \/ Works(p)
<1> USE DEF TypeOK, Goto, Forget, tables, local, Commits, Answers, Works
<1>1. CASE Create(p) \/ LoadAndEmit(p)
  BY <1>1 DEF Create, LoadAndEmit, Emit, Loads
<1>2. CASE LoadMissing(p) \/ LoadRefused(p) \/ InsertConflict(p) \/ ProjectRejected(p)
  BY <1>2 DEF LoadMissing, LoadRefused, InsertConflict, ProjectRejected, Answer, Loads
<1>3. CASE LoadIdempotent(p)
  BY <1>3 DEF LoadIdempotent, Loads, IsIdempotent, LifecycleCommands
<1>4. CASE InsertEvent(p) \/ ReadSlot(p) \/ InsertOutbox(p) \/ Project(p)
  BY <1>4 DEF InsertEvent, ReadSlot, InsertOutbox, Project
<1>5. CASE Commit(p) \/ CommitUnacknowledged(p)
  BY <1>5 DEF Commit, CommitUnacknowledged, Durable
<1>6. CASE FetchView(p) \/ FetchFails(p)
  BY <1>6 DEF FetchView, FetchFails, Answer
<1>7. CASE LoadFails(p) \/ TransactionFails(p)
  BY <1>7 DEF LoadFails, TransactionFails, Answer, Loads, TxSteps
<1>8. CASE Crash(p)
  BY <1>8 DEF Crash, Answer
<1> QED BY <1>1, <1>2, <1>3, <1>4, <1>5, <1>6, <1>7, <1>8 DEF Progress, Failure

(***************************************************************************)
(* What the store says the protocol has executed.                          *)
(***************************************************************************)
LEMMA ChargesKept ==
  ASSUME UNCHANGED event_store
  PROVE  /\ Executed' = Executed
         /\ called' = called => ExecutedHere' = ExecutedHere
BY DEF Executed, ExecutedHere, Charges

\* Storing the row of a request charges for that request, and for no other.
LEMMA ChargesGrow ==
  ASSUME IInv, AnswerInv, NEW p \in Workers, Commits(p), NEW calls
  PROVE  /\ Charges(calls) \in Nat
         /\ Charges(calls)' = Charges(calls) + IF request[p] \in calls THEN 1 ELSE 0
<1> DEFINE E == {e \in event_store : e.request \in calls}
<1>1. IsFiniteSet(E) /\ Cardinality(E) \in Nat
  BY FS_Subset, FS_CardinalityType DEF IInv, TypeOK
<1>2. row[p].request = request[p] /\ \A e \in event_store : e.request # request[p]
  BY DEF Commits, AnswerInv, DecisionAsAsked, IsAskedBy, Served, Stored, Decided, TxSteps
<1>3. CASE request[p] \in calls
  <2>1. {e \in event_store' : e.request \in calls} = E \cup {row[p]} /\ row[p] \notin E
    BY <1>2, <1>3 DEF Commits
  <2> HIDE DEF E
  <2>2. Cardinality(E \cup {row[p]}) = Cardinality(E) + 1
    BY <1>1, <2>1, FS_AddElement
  <2> QED BY <1>1, <1>3, <2>1, <2>2 DEF Charges, E
<1>4. CASE request[p] \notin calls
  <2>1. {e \in event_store' : e.request \in calls} = E
    BY <1>2, <1>4 DEF Commits
  <2>2. PICK k \in Nat : k = Cardinality(E)
    BY <1>1
  <2>3. Charges(calls)' = k /\ Charges(calls) = k
    BY <2>1, <2>2 DEF Charges
  <2> QED BY <1>4, <2>3
<1> QED BY <1>3, <1>4

\* An HTTP worker charges no command.
LEMMA HttpCharges ==
  ASSUME IInv, AnswerInv, CallInv, NEW p \in HttpWorkers, Commits(p), called' = called
  PROVE  Executed' = Executed /\ ExecutedHere' = ExecutedHere
<1>1. p \in Workers /\ \A m \in Commands : request[p] \notin Calls(m)
  BY DEF CallInv, HttpRequests, HttpWorkers, Commits
<1>2. ASSUME NEW calls, request[p] \notin calls PROVE Charges(calls)' = Charges(calls)
  <2>1. PICK k \in Nat : k = Charges(calls)
    BY <1>1, ChargesGrow
  <2>2. Charges(calls)' = Charges(calls) + 0
    BY <1>1, <1>2, ChargesGrow
  <2> QED BY <2>1, <2>2
<1>3. \A m \in Commands : Charges(Calls(m))' = Charges(Calls(m))
  BY <1>1, <1>2
<1>4. \A c \in Consumers, m \in Commands :
        Charges(Calls(m) \cap called[c])' = Charges(Calls(m) \cap called[c])
  <2>1. ASSUME NEW c \in Consumers, NEW m \in Commands
        PROVE  Charges(Calls(m) \cap called[c])' = Charges(Calls(m) \cap called[c])
    <3>1. request[p] \notin Calls(m) \cap called[c]
      BY <1>1
    <3>2. PICK x : x = Calls(m) \cap called[c]
      OBVIOUS
    <3>3. Charges(x)' = Charges(x)
      BY <1>2, <3>1, <3>2
    <3> QED BY <3>2, <3>3 DEF Charges
  <2> QED BY <2>1
<1> QED BY <1>3, <1>4 DEF Executed, ExecutedHere

\* A consumer that commits has executed its message once more.
LEMMA ConsumerCharges ==
  ASSUME IInv, AnswerInv, CallInv, NEW c \in Consumers, Commits(c), called' = called,
         working[c] \in Commands
  PROVE  /\ Executed' = [Executed EXCEPT ![working[c]] = @ + 1]
         /\ ExecutedHere' = [ExecutedHere EXCEPT ![c][working[c]] = @ + 1]
         /\ Executed \in [Commands -> Nat]
<1> DEFINE w == working[c]
<1>1. /\ c \in Workers /\ request[c] \in Calls(w) /\ request[c] \in called[c]
      /\ \A d \in Consumers \ {c} : request[c] \notin called[d]
      /\ \A m \in Commands \ {w} : request[c] \notin Calls(m)
  BY ConsumersAreWorkers DEF CallInv, Commits, Calls
<1> HIDE DEF w
<1>2. \A calls : /\ Charges(calls) \in Nat
                 /\ Charges(calls)' = Charges(calls) + IF request[c] \in calls THEN 1 ELSE 0
  BY <1>1, ChargesGrow
<1>3. ASSUME NEW m \in Commands
      PROVE  Charges(Calls(m))' = IF m = w THEN Charges(Calls(m)) + 1 ELSE Charges(Calls(m))
  <2>0. PICK x : x = Calls(m)
    OBVIOUS
  <2>1. PICK k \in Nat : k = Charges(x)
    BY <1>2
  <2>2. Charges(x)' = k + IF request[c] \in x THEN 1 ELSE 0
    BY <1>2, <2>1
  <2>3. Charges(x)' = IF m = w THEN k + 1 ELSE k
    BY <1>1, <2>0, <2>2
  <2> QED BY <2>0, <2>1, <2>3 DEF Charges
<1>4. ASSUME NEW d \in Consumers, NEW m \in Commands
      PROVE  Charges(Calls(m) \cap called[d])' =
               IF d = c /\ m = w THEN Charges(Calls(m) \cap called[d]) + 1
               ELSE Charges(Calls(m) \cap called[d])
  <2>0. PICK x : x = Calls(m) \cap called[d]
    OBVIOUS
  <2>1. PICK k \in Nat : k = Charges(x)
    BY <1>2
  <2>2. Charges(x)' = k + IF request[c] \in x THEN 1 ELSE 0
    BY <1>2, <2>1
  <2>3. Charges(x)' = IF d = c /\ m = w THEN k + 1 ELSE k
    BY <1>1, <2>0, <2>2
  <2> QED BY <2>0, <2>1, <2>3 DEF Charges
<1>5. Executed' = [m \in Commands |-> IF m = w THEN Executed[m] + 1 ELSE Executed[m]]
  BY <1>3 DEF Executed
<1>6. ExecutedHere' = [d \in Consumers |-> [m \in Commands |->
                         IF d = c /\ m = w THEN ExecutedHere[d][m] + 1 ELSE ExecutedHere[d][m]]]
  BY <1>4 DEF ExecutedHere
<1>7. /\ Executed = [m \in Commands |-> Executed[m]]
      /\ ExecutedHere = [d \in Consumers |-> [m \in Commands |-> ExecutedHere[d][m]]]
      /\ Executed \in [Commands -> Nat]
  BY <1>2 DEF Executed, ExecutedHere
<1>8. w \in Commands
  BY DEF w
<1>9. Executed' = [Executed EXCEPT ![w] = @ + 1]
  BY <1>5, <1>7, <1>8
<1>10. ExecutedHere' = [ExecutedHere EXCEPT ![c][w] = @ + 1]
  BY <1>6, <1>7, <1>8
<1> QED BY <1>7, <1>9, <1>10 DEF w

(***************************************************************************)
(* Every step of the composition is a step of the protocol or none.        *)
(***************************************************************************)
LEMMA BarMoves ==
  ASSUME CallInv, NEW c \in Consumers, NEW place, at' = [at EXCEPT ![c] = place],
         \A d \in Consumers \ {c} : pc'[d] = pc[d],
         place = "pay" => pc'[c] # "fetch"
  PROVE  AtBar' = [AtBar EXCEPT ![c] = place]
<1>1. \A d \in Consumers : at'[d] = IF d = c THEN place ELSE at[d]
  BY DEF CallInv
<1>2. \A d \in Consumers : AtBar'[d] = IF d = c THEN place ELSE AtBar[d]
  BY <1>1 DEF AtBar
<1>3. /\ AtBar = [d \in Consumers |-> AtBar[d]]
      /\ AtBar' = [d \in Consumers |-> AtBar'[d]]
  BY DEF AtBar
<1> QED BY <1>2, <1>3

LEMMA BarEnds ==
  ASSUME CallInv, NEW m \in Commands, NEW ways, outcome' = [outcome EXCEPT ![m] = @ \cup ways],
         Executed' = Executed
  PROVE  OutcomeBar' = [OutcomeBar EXCEPT ![m] = @ \cup ways]
<1>1. \A n \in Commands : outcome'[n] = outcome[n] \cup IF n = m THEN ways ELSE {}
  BY DEF CallInv
<1>2. \A n \in Commands : OutcomeBar'[n] = OutcomeBar[n] \cup IF n = m THEN ways ELSE {}
  BY <1>1 DEF OutcomeBar
<1>3. /\ OutcomeBar = [n \in Commands |-> OutcomeBar[n]]
      /\ OutcomeBar' = [n \in Commands |-> OutcomeBar'[n]]
  BY DEF OutcomeBar
<1> QED BY <1>2, <1>3

LEMMA BarKept ==
  ASSUME UNCHANGED <<outcome, event_store>>
  PROVE  OutcomeBar' = OutcomeBar
BY ChargesKept DEF OutcomeBar

\* What the refinement of a step takes for granted.
PaymentsInv == IInv /\ AnswerInv /\ CallInv /\ Consumer!Inv

LEMMA WorkingIsCommand ==
  ASSUME PaymentsInv, NEW c \in Consumers, at[c] \notin {"consuming", "offline"}
  PROVE  working[c] \in Commands
BY DEF PaymentsInv, Consumer!Inv, Consumer!TypeOK, Consumer!WorkingOnDelivery, AtBar

\* A consumer steps and nothing of a handler changes.
LEMMA OutsideHandler ==
  ASSUME PaymentsInv, NEW c \in Consumers, UNCHANGED <<wallet, called>>,
         at[c] # "pay", NEW place, place # "pay", at' = [at EXCEPT ![c] = place],
         \A d \in Consumers \ {c} : working'[d] = working[d],
         outcome' = [m \in Commands |-> outcome'[m]]
  PROVE  CallInv' /\ AtBar[c] = at[c] /\ AtBar' = [AtBar EXCEPT ![c] = place]
<1> USE DEF PaymentsInv
<1>1. UNCHANGED <<pc, request, inbox>>
  BY DEF wallet, vars, local
<1>2. AtBar[c] = at[c] /\ AtBar' = [AtBar EXCEPT ![c] = place]
  BY <1>1, BarMoves DEF AtBar
<1>3. CallInv'
  BY <1>1 DEF CallInv
<1> QED BY <1>2, <1>3

LEMMA ProtocolRefines ==
  ASSUME PaymentsInv, NEW c \in Consumers, ProtocolStep(c)
  PROVE  Consumer!Next /\ CallInv'
<1> USE DEF PaymentsInv
<1>1. UNCHANGED <<wallet, called, event_store>>
  BY DEF ProtocolStep, wallet, vars, tables
<1>2. UNCHANGED <<Executed, ExecutedHere>>
  BY <1>1, ChargesKept
<1>3. working \in [Consumers -> Commands \cup {None}] /\ outcome = [m \in Commands |-> outcome[m]]
  BY DEF CallInv, Consumer!Inv, Consumer!TypeOK
<1>4. CASE Protocol!Deliver(c) \/ Protocol!Mark(c) \/ Protocol!Translate(c) \/ Protocol!Reconnect(c)
  <2>1. /\ \E place \in {"received", "translate", "find", "consuming"} :
             at' = [at EXCEPT ![c] = place]
        /\ at[c] # "pay" /\ outcome' = outcome
        /\ \A d \in Consumers \ {c} : working'[d] = working[d]
    BY <1>3, <1>4 DEF Protocol!Deliver, Protocol!Mark, Protocol!Translate, Protocol!Reconnect,
       Protocol!Goto, Protocol!effects, Protocol!broker
  <2>2. CallInv' /\ OutcomeBar' = OutcomeBar
    BY <1>1, <1>3, <2>1, OutsideHandler, BarKept
  <2>3. \A place \in {"received", "translate", "find", "consuming"} :
          at' = [at EXCEPT ![c] = place] =>
             AtBar[c] = at[c] /\ AtBar' = [AtBar EXCEPT ![c] = place]
    BY <1>1, <1>3, <2>1, OutsideHandler
  <2>4. Consumer!Deliver(c) \/ Consumer!Mark(c) \/ Consumer!Translate(c) \/ Consumer!Reconnect(c)
    <3>1. CASE Protocol!Deliver(c)
      BY <1>2, <2>2, <2>3, <3>1 DEF Protocol!Deliver, Protocol!Goto, Protocol!effects,
         Protocol!faults, Consumer!Deliver, Consumer!Goto, Consumer!effects, Consumer!faults
    <3>2. CASE Protocol!Mark(c)
      BY <1>2, <2>2, <2>3, <3>2 DEF Protocol!Mark, Protocol!Goto, Protocol!effects,
         Protocol!faults, Protocol!broker, Consumer!Mark, Consumer!Goto, Consumer!effects,
         Consumer!faults, Consumer!broker, Protocol!Known, Consumer!Known, Protocol!Range,
         Consumer!Range, Protocol!Remember,
         Consumer!Remember, Protocol!Culled, Consumer!Culled
    <3>3. CASE Protocol!Translate(c)
      BY <1>2, <2>2, <2>3, <3>3 DEF Protocol!Translate, Protocol!Goto, Protocol!effects,
         Protocol!faults, Protocol!broker, Consumer!Translate, Consumer!Goto, Consumer!effects,
         Consumer!faults, Consumer!broker
    <3>4. CASE Protocol!Reconnect(c)
      BY <1>2, <2>2, <2>3, <3>4 DEF Protocol!Reconnect, Protocol!Goto, Protocol!effects,
         Protocol!faults, Protocol!broker, Consumer!Reconnect, Consumer!Goto, Consumer!effects,
         Consumer!faults, Consumer!broker
    <3> QED BY <1>4, <3>1, <3>2, <3>3, <3>4
  <2> QED BY <2>2, <2>4 DEF Consumer!Next, Consumer!Progress
<1>5. CASE Protocol!IgnoreDuplicate(c) \/ Protocol!Reject(c) \/ Protocol!Ack(c)
  <2> DEFINE place == IF unacked[c] = None THEN "offline" ELSE "consuming"
  <2>1. /\ at' = [at EXCEPT ![c] = place] /\ place # "pay" /\ at[c] # "pay"
        /\ working' = [working EXCEPT ![c] = None]
        /\ at[c] \notin {"consuming", "offline"}
    BY <1>5 DEF Protocol!IgnoreDuplicate, Protocol!Reject, Protocol!Ack, Protocol!Settle,
       Protocol!Goto
  <2>2. outcome' = [m \in Commands |-> outcome'[m]]
    BY <1>3, <1>5 DEF Protocol!IgnoreDuplicate, Protocol!Reject, Protocol!Ack, Protocol!Ends,
       Protocol!effects
  <2> HIDE DEF place
  <2>3. CallInv' /\ AtBar[c] = at[c] /\ AtBar' = [AtBar EXCEPT ![c] = place]
    BY <1>1, <1>3, <2>1, <2>2, OutsideHandler
  <2>4. working[c] \in Commands
    BY <2>1, WorkingIsCommand
  <2>5. Protocol!Settle(c) => Consumer!Settle(c)
    BY <2>3 DEF Protocol!Settle, Protocol!Goto, Consumer!Settle, Consumer!Goto, place
  <2>6. \A ways : Protocol!Ends(working[c], ways) => Consumer!Ends(working[c], ways)
    BY <1>2, <2>4, BarEnds DEF Protocol!Ends, Consumer!Ends
  <2>7. CASE Protocol!IgnoreDuplicate(c)
    <3>1. OutcomeBar' = OutcomeBar
      BY <1>1, <2>7, BarKept DEF Protocol!IgnoreDuplicate, Protocol!effects
    <3>2. Consumer!IgnoreDuplicate(c)
      BY <1>2, <2>3, <2>5, <2>7, <3>1 DEF Protocol!IgnoreDuplicate, Protocol!effects,
         Protocol!faults, Consumer!IgnoreDuplicate, Consumer!effects, Consumer!faults,
         Protocol!Known, Consumer!Known, Protocol!Range, Consumer!Range, Protocol!Touch,
         Consumer!Touch, Protocol!RemoveAt, Consumer!RemoveAt
    <3> QED BY <2>3, <3>2 DEF Consumer!Next, Consumer!Progress
  <2>8. CASE Protocol!Reject(c)
    <3>1. Consumer!Reject(c)
      BY <1>2, <2>3, <2>5, <2>6, <2>8 DEF Protocol!Reject, Protocol!faults, Consumer!Reject,
         Consumer!faults
    <3> QED BY <2>3, <3>1 DEF Consumer!Next, Consumer!Progress
  <2>9. CASE Protocol!Ack(c)
    <3>1. Consumer!Ack(c)
      BY <1>2, <2>3, <2>5, <2>6, <2>9 DEF Protocol!Ack, Protocol!faults, Consumer!Ack,
         Consumer!faults
    <3> QED BY <2>3, <3>1 DEF Consumer!Next, Consumer!Progress
  <2> QED BY <1>5, <2>7, <2>8, <2>9
<1> QED BY <1>4, <1>5 DEF ProtocolStep

LEMMA PublishRefines ==
  ASSUME PaymentsInv, Publish
  PROVE  Consumer!Next /\ CallInv'
<1>1. PICK m \in Commands : Protocol!Publish(m)
  BY DEF Publish
<1>2. UNCHANGED <<pc, request, inbox, called, event_store, at, working, outcome>>
  BY <1>1 DEF Publish, wallet, vars, tables, local, Protocol!Publish, Protocol!effects
<1>3. UNCHANGED <<Executed, ExecutedHere, AtBar, OutcomeBar>>
  BY <1>2, ChargesKept, BarKept DEF AtBar
<1>4. Consumer!Publish(m)
  BY <1>1, <1>3 DEF Protocol!Publish, Protocol!effects, Protocol!faults, Consumer!Publish,
     Consumer!effects, Consumer!faults
<1>5. CallInv'
  BY <1>2 DEF PaymentsInv, CallInv
<1> QED BY <1>4, <1>5 DEF Consumer!Next

LEMMA LoseConnectionRefines ==
  ASSUME PaymentsInv, NEW c \in Consumers, LoseConnection(c)
  PROVE  Consumer!Next /\ CallInv'
<1> USE DEF PaymentsInv
<1>1. Protocol!LoseConnection(c) /\ UNCHANGED <<pc, request, inbox, called, event_store>>
  BY DEF LoseConnection, wallet, vars, tables, local
<1>2. UNCHANGED <<working, outcome>> /\ UNCHANGED <<Executed, ExecutedHere, OutcomeBar>>
  BY <1>1, ChargesKept, BarKept DEF Protocol!LoseConnection, Protocol!effects
<1>3. at' = [at EXCEPT ![c] = IF @ = "consuming" THEN "offline" ELSE @]
  BY <1>1 DEF Protocol!LoseConnection
<1>4. /\ at' = [d \in Consumers |-> at'[d]]
      /\ \A d \in Consumers : at'[d] = IF d = c /\ at[d] = "consuming" THEN "offline" ELSE at[d]
  BY <1>3 DEF CallInv
<1>5. \A d \in Consumers :
        AtBar'[d] = IF d = c /\ AtBar[d] = "consuming" THEN "offline" ELSE AtBar[d]
  BY <1>1, <1>4 DEF AtBar
<1>6. /\ AtBar = [d \in Consumers |-> AtBar[d]]
      /\ AtBar' = [d \in Consumers |-> AtBar'[d]]
  BY DEF AtBar
<1>7. AtBar' = [AtBar EXCEPT ![c] = IF @ = "consuming" THEN "offline" ELSE @]
  BY <1>5, <1>6
<1>8. AtBar[c] # "offline"
  BY <1>1 DEF AtBar, Protocol!LoseConnection
<1>9. Consumer!LoseConnection(c)
  BY <1>1, <1>2, <1>7, <1>8 DEF Protocol!LoseConnection, Protocol!Requeue, Protocol!effects,
     Consumer!LoseConnection, Consumer!Requeue, Consumer!effects
<1>10. CallInv'
  BY <1>1, <1>2, <1>4 DEF CallInv
<1> QED BY <1>9, <1>10 DEF Consumer!Next

\* A new process has made no call, and so has executed nothing.
LEMMA ForgottenCalls ==
  ASSUME CallInv, NEW c \in Consumers, UNCHANGED event_store,
         called' = [called EXCEPT ![c] = {}]
  PROVE  ExecutedHere' = [ExecutedHere EXCEPT ![c] = [m \in Commands |-> 0]]
<1>1. \A d \in Consumers : called'[d] = IF d = c THEN {} ELSE called[d]
  BY DEF CallInv
<1>2. Charges({}) = 0
  BY FS_EmptySet DEF Charges
<1>3. \A d \in Consumers : \A m \in Commands :
        ExecutedHere'[d][m] = IF d = c THEN 0 ELSE ExecutedHere[d][m]
  <2>1. ASSUME NEW d \in Consumers, NEW m \in Commands, d # c
        PROVE  ExecutedHere'[d][m] = ExecutedHere[d][m]
    BY <1>1, <2>1 DEF ExecutedHere, Charges
  <2>2. ASSUME NEW m \in Commands PROVE ExecutedHere'[c][m] = 0
    <3>1. (Calls(m) \cap called[c])' = {}
      BY <1>1 DEF Calls
    <3>2. ExecutedHere'[c][m] = Cardinality({e \in event_store' : e.request \in {}})
      BY <3>1 DEF ExecutedHere, Charges
    <3> QED BY <3>2, FS_EmptySet
  <2> QED BY <2>1, <2>2
<1>4. /\ ExecutedHere = [d \in Consumers |-> [m \in Commands |-> ExecutedHere[d][m]]]
      /\ ExecutedHere' = [d \in Consumers |-> [m \in Commands |-> ExecutedHere'[d][m]]]
  BY DEF ExecutedHere
<1>5. ASSUME NEW d \in Consumers
      PROVE  ExecutedHere'[d] = IF d = c THEN [m \in Commands |-> 0] ELSE ExecutedHere[d]
  BY <1>3, <1>4
<1> QED BY <1>4, <1>5

LEMMA RestartRefines ==
  ASSUME PaymentsInv, NEW c \in Consumers, Restart(c)
  PROVE  Consumer!Next /\ CallInv'
<1> USE DEF PaymentsInv
<1>1. /\ Protocol!Restart(c) /\ called' = [called EXCEPT ![c] = {}]
      /\ UNCHANGED <<event_store, inbox>> /\ pc'[c] = "idle"
      /\ \A p \in Workers \ {c} : pc'[p] = pc[p] /\ request'[p] = request[p]
  <2>1. /\ c \in Workers /\ pc = [p \in Workers |-> pc[p]]
        /\ request = [p \in Workers |-> request[p]]
    BY ConsumersAreWorkers DEF IInv, TypeOK
  <2>2. CASE pc[c] = "idle"
    BY <2>1, <2>2 DEF Restart, wallet, vars, tables, local
  <2>3. CASE pc[c] # "idle"
    <3>1. Crash(c) /\ Protocol!Restart(c) /\ called' = [called EXCEPT ![c] = {}]
      BY <2>3 DEF Restart
    <3>2. /\ UNCHANGED <<event_store, inbox>>
          /\ pc' = [pc EXCEPT ![c] = "idle"] /\ request' = [request EXCEPT ![c] = None]
      BY <3>1 DEF Crash, Answer, Forget, Goto, tables
    <3> QED BY <2>1, <3>1, <3>2
  <2> QED BY <2>2, <2>3
<1>2. UNCHANGED <<Executed, OutcomeBar>>
  BY <1>1, ChargesKept, BarKept DEF Protocol!Restart
<1>3. ExecutedHere' = [ExecutedHere EXCEPT ![c] = [m \in Commands |-> 0]]
  BY <1>1, ForgottenCalls
<1>4. at' = [at EXCEPT ![c] = "offline"] /\ AtBar' = [AtBar EXCEPT ![c] = "offline"]
  BY <1>1, BarMoves, ConsumersAreWorkers DEF Protocol!Restart, Protocol!Goto
<1>5. Consumer!Restart(c)
  BY <1>1, <1>2, <1>3, <1>4 DEF Protocol!Restart, Protocol!Requeue, Consumer!Restart,
     Consumer!Requeue, Consumer!Goto
<1>6. /\ \A d \in Consumers : called'[d] = IF d = c THEN {} ELSE called[d]
      /\ called' \in [Consumers -> SUBSET Requests]
      /\ \A d \in Consumers : at'[d] = IF d = c THEN "offline" ELSE at[d]
      /\ at' = [d \in Consumers |-> at'[d]]
      /\ \A d \in Consumers \ {c} : working'[d] = working[d]
      /\ outcome' = outcome
  <2>1. /\ called \in [Consumers -> SUBSET Requests]
        /\ at = [d \in Consumers |-> at[d]]
        /\ working \in [Consumers -> Commands \cup {None}]
    BY DEF CallInv, Consumer!Inv, Consumer!TypeOK
  <2>2. working' = [working EXCEPT ![c] = None] /\ outcome' = outcome
    BY <1>1 DEF Protocol!Restart
  <2>3. /\ \A d \in Consumers : called'[d] = IF d = c THEN {} ELSE called[d]
        /\ called' \in [Consumers -> SUBSET Requests]
    BY <1>1, <2>1
  <2>4. /\ \A d \in Consumers : at'[d] = IF d = c THEN "offline" ELSE at[d]
        /\ at' = [d \in Consumers |-> at'[d]]
    BY <1>4, <2>1
  <2> QED BY <2>1, <2>2, <2>3, <2>4
<1>7. CallInv'
  <2>1. ASSUME NEW d \in Consumers
        PROVE  /\ at'[d] = "pay" <=> pc'[d] # "idle"
               /\ at'[d] = "pay" => request'[d] \in Calls(working'[d]) \cap called'[d]
               /\ called'[d] \cap inbox' = {}
               /\ \A x \in Consumers \ {d} : called'[d] \cap called'[x] = {}
    <3>1. CASE d = c
      BY <1>1, <1>6, <3>1
    <3>2. CASE d # c
      <4>1. /\ at'[d] = at[d] /\ pc'[d] = pc[d] /\ request'[d] = request[d]
            /\ working'[d] = working[d] /\ called'[d] = called[d]
        BY <1>1, <1>6, <3>2, ConsumersAreWorkers
      <4> QED BY <1>1, <1>6, <4>1 DEF CallInv
    <3> QED BY <3>1, <3>2
  <2>2. \A p \in HttpWorkers : pc'[p] # "idle" => request'[p] \in HttpRequests
    BY <1>1 DEF CallInv, HttpWorkers
  <2> QED BY <1>6, <2>1, <2>2 DEF CallInv, Calls
<1> QED BY <1>5, <1>7 DEF Consumer!Next

\* The handler of c returns.
LEMMA ReturnMoves ==
  ASSUME CallInv, NEW c \in Consumers, NEW way, Returns(c, way), working[c] \in Commands,
         \A d \in Consumers \ {c} : pc'[d] = pc[d]
  PROVE  /\ AtBar' = [AtBar EXCEPT ![c] = "ack"]
         /\ \A d \in Consumers : at'[d] = IF d = c THEN "ack" ELSE at[d]
         /\ at' = [d \in Consumers |-> at'[d]]
         /\ outcome' = [m \in Commands |-> outcome'[m]]
<1>1. at' = [at EXCEPT ![c] = "ack"] /\ outcome' = [outcome EXCEPT ![working[c]] = @ \cup {way}]
  BY DEF Returns
<1>2. at = [d \in Consumers |-> at[d]] /\ outcome = [m \in Commands |-> outcome[m]]
  BY DEF CallInv
<1>3. AtBar' = [AtBar EXCEPT ![c] = "ack"]
  BY <1>1, BarMoves
<1>4. \A d \in Consumers : at'[d] = IF d = c THEN "ack" ELSE at[d]
  BY <1>1, <1>2
<1>5. at' = [d \in Consumers |-> at'[d]]
  BY <1>1, <1>2
<1>6. outcome' = [m \in Commands |-> outcome'[m]]
  BY <1>1, <1>2
<1> QED BY <1>3, <1>4, <1>5, <1>6

LEMMA NotFoundRefines ==
  ASSUME PaymentsInv, NEW c \in Consumers, NotFound(c)
  PROVE  Consumer!Next /\ CallInv'
<1> USE DEF PaymentsInv
<1>1. /\ at[c] = "find" /\ UNCHANGED <<pc, request, inbox, event_store, called, working>>
      /\ \E way \in {"error", "refused"} : Returns(c, way)
  BY DEF NotFound, Returns, wallet, vars, tables, local
<1>2. PICK way \in {"error", "refused"} : Returns(c, way)
  BY <1>1
<1>3. working[c] \in Commands
  BY <1>1, WorkingIsCommand
<1>4. /\ AtBar[c] = "find" /\ AtBar' = [AtBar EXCEPT ![c] = "ack"]
      /\ \A d \in Consumers : at'[d] = IF d = c THEN "ack" ELSE at[d]
      /\ at' = [d \in Consumers |-> at'[d]]
      /\ outcome' = [m \in Commands |-> outcome'[m]]
  BY <1>1, <1>2, <1>3, ReturnMoves DEF AtBar
<1>5. UNCHANGED <<Executed, ExecutedHere>>
  BY <1>1, ChargesKept
<1>6. OutcomeBar' = [OutcomeBar EXCEPT ![working[c]] = @ \cup {way}]
  BY <1>2, <1>3, <1>5, BarEnds DEF Returns
<1>7. Consumer!WalletMissing(c)
  BY <1>2, <1>4, <1>5, <1>6 DEF Returns, Consumer!WalletMissing, Consumer!Ends, Consumer!Goto,
     Consumer!broker, Consumer!faults
<1>8. CallInv'
  BY <1>1, <1>4 DEF CallInv
<1> QED BY <1>7, <1>8 DEF Consumer!Next, Consumer!Progress

\* A call takes a request that no process has called and nothing stored.
LEMMA CallRefines ==
  ASSUME PaymentsInv, NEW c \in Consumers, Call(c)
  PROVE  Consumer!Next /\ CallInv'
<1> USE DEF PaymentsInv
<1>1. PICK r \in Calls(working[c]) :
        /\ Receive(c, r) /\ called' = [called EXCEPT ![c] = @ \cup {r}]
        /\ Protocol!FindWallet(c)
  BY DEF Call
<1>2. /\ c \in Workers /\ pc = [p \in Workers |-> pc[p]] /\ request = [p \in Workers |-> request[p]]
      /\ at = [d \in Consumers |-> at[d]] /\ called \in [Consumers -> SUBSET Requests]
  BY ConsumersAreWorkers DEF CallInv, IInv, TypeOK
<1>3. /\ r \in inbox /\ inbox' = inbox \ {r} /\ event_store' = event_store
      /\ pc' = [pc EXCEPT ![c] = "load"] /\ request' = [request EXCEPT ![c] = r]
  BY <1>1 DEF Receive, Goto, tables
<1>4. /\ at[c] = "find" /\ at' = [at EXCEPT ![c] = "pay"] /\ UNCHANGED <<working, outcome>>
  BY <1>1 DEF Protocol!FindWallet, Protocol!Goto, Protocol!effects
<1>5. /\ \A d \in Consumers : /\ at'[d] = IF d = c THEN "pay" ELSE at[d]
                              /\ called'[d] = IF d = c THEN called[c] \cup {r} ELSE called[d]
      /\ \A p \in Workers : /\ pc'[p] = IF p = c THEN "load" ELSE pc[p]
                            /\ request'[p] = IF p = c THEN r ELSE request[p]
      /\ at' = [d \in Consumers |-> at'[d]]
  <2>1. \A d \in Consumers : at'[d] = IF d = c THEN "pay" ELSE at[d]
    BY <1>2, <1>4
  <2>2. \A d \in Consumers : called'[d] = IF d = c THEN called[c] \cup {r} ELSE called[d]
    BY <1>1, <1>2
  <2>3. \A p \in Workers : /\ pc'[p] = IF p = c THEN "load" ELSE pc[p]
                           /\ request'[p] = IF p = c THEN r ELSE request[p]
    BY <1>2, <1>3
  <2>4. at' = [d \in Consumers |-> at'[d]]
    BY <1>2, <1>4
  <2> QED BY <2>1, <2>2, <2>3, <2>4
<1>6. AtBar[c] = "find" /\ AtBar' = [AtBar EXCEPT ![c] = "pay"]
  BY <1>4, <1>5, BarMoves, ConsumersAreWorkers DEF AtBar
<1>7. UNCHANGED <<Executed, OutcomeBar>>
  BY <1>3, <1>4, ChargesKept, BarKept
<1>8. ExecutedHere' = ExecutedHere
  <2>1. \A e \in event_store : e.request # r
    BY <1>3 DEF AnswerInv, InboxUnserved, Stored
  <2>2. ASSUME NEW d \in Consumers, NEW m \in Commands
        PROVE  {e \in event_store' : e.request \in Calls(m) \cap called'[d]} =
               {e \in event_store : e.request \in Calls(m) \cap called[d]}
    BY <1>3, <1>5, <2>1
  <2>3. \A d \in Consumers, m \in Commands :
          Charges(Calls(m) \cap called[d])' = Charges(Calls(m) \cap called[d])
    BY <2>2 DEF Charges, Calls
  <2> QED BY <2>3 DEF ExecutedHere
<1>9. Consumer!FindWallet(c)
  BY <1>1, <1>6, <1>7, <1>8 DEF Protocol!FindWallet, Protocol!broker, Protocol!faults,
     Consumer!FindWallet, Consumer!Goto, Consumer!broker, Consumer!effects, Consumer!faults
<1>10. CallInv'
  <2>1. called' \in [Consumers -> SUBSET Requests]
    BY <1>1, <1>2 DEF Calls
  <2>2. ASSUME NEW d \in Consumers
        PROVE  /\ at'[d] = "pay" <=> pc'[d] # "idle"
               /\ at'[d] = "pay" => request'[d] \in Calls(working'[d]) \cap called'[d]
               /\ called'[d] \cap inbox' = {}
               /\ \A x \in Consumers \ {d} : called'[d] \cap called'[x] = {}
    <3>1. d \in Workers /\ working' = working
      BY <1>4, ConsumersAreWorkers
    <3>2. \A x \in Consumers : r \notin called[x] /\ called[x] \cap inbox = {}
      BY <1>3 DEF CallInv
    <3>3. /\ at[d] = "pay" <=> pc[d] # "idle"
          /\ at[d] = "pay" => request[d] \in Calls(working[d]) \cap called[d]
          /\ \A x \in Consumers \ {d} : called[d] \cap called[x] = {}
      BY DEF CallInv
    <3>4. at'[d] = "pay" <=> pc'[d] # "idle"
      BY <1>5, <3>1, <3>3
    <3>5. at'[d] = "pay" => request'[d] \in Calls(working[d]) \cap called'[d]
      BY <1>5, <3>1, <3>3
    <3>6. called'[d] \cap inbox' = {}
      BY <1>3, <1>5, <3>2
    <3>7. \A x \in Consumers \ {d} : called'[d] \cap called'[x] = {}
      BY <1>5, <3>2, <3>3
    <3> QED BY <3>1, <3>4, <3>5, <3>6, <3>7
  <2>3. \A p \in HttpWorkers : pc'[p] # "idle" => request'[p] \in HttpRequests
    BY <1>5 DEF CallInv, HttpWorkers
  <2>4. outcome' = [m \in Commands |-> outcome'[m]]
    BY <1>4 DEF CallInv
  <2> QED BY <1>5, <2>1, <2>2, <2>3, <2>4 DEF CallInv, Calls
<1> QED BY <1>9, <1>10 DEF Consumer!Next, Consumer!Progress

LEMMA HandlerEnding ==
  ASSUME PaymentsInv, NEW c \in Consumers, at[c] = "pay", Commits(c) \/ Answers(c) \/ Works(c)
  PROVE  /\ Commits(c) => Ending(request[c]) = "executed"
         /\ Answers(c) => Ending(request[c]) = "executed" /\ Executed[working[c]] > 0
         /\ Works(c) => Ending(request[c]) \in {"refused", "error"} /\ pc'[c] # "fetch"
<1> USE DEF PaymentsInv
<1>1. /\ c \in Workers /\ request[c] \in Calls(working[c]) /\ working[c] \in Commands
      /\ pc[c] \in Steps
  BY WorkingIsCommand, ConsumersAreWorkers DEF CallInv, IInv, TypeOK
<1>2. request[c].type \notin LifecycleCommands
  BY <1>1, CallsAssumption DEF LifecycleCommands
<1>a. ASSUME Commits(c)
      PROVE  /\ row[c] \in event_store' /\ row[c] \notin event_store
             /\ row[c].request = request[c] /\ pc[c] = "commit"
  <2>1. row[c] \in event_store' /\ pc[c] = "commit"
    BY <1>a DEF Commits
  <2>2. row[c].request = request[c] /\ ~Stored(request[c])
    BY <1>1, <2>1 DEF AnswerInv, DecisionAsAsked, IsAskedBy, Served, Decided, TxSteps
  <2> QED BY <2>1, <2>2 DEF Stored
<1>b. ~(Commits(c) /\ Works(c)) /\ ~(Answers(c) /\ (Commits(c) \/ Works(c)))
  BY <1>a DEF Answers, Works
<1>3. CASE Commits(c)
  <2>1. Ending(request[c]) = "executed"
    BY <1>a, <1>3 DEF Ending
  <2> QED BY <1>b, <1>3, <2>1
<1>4. CASE Answers(c)
  <2>1. PICK e \in event_store : e.request = request[c]
    BY <1>1, <1>2, <1>4 DEF Answers, AnswerInv, Served, Succeeded, Stored
  <2> DEFINE S == {f \in event_store : f.request \in Calls(working[c])}
  <2>2. IsFiniteSet(S) /\ S # {}
    BY <1>1, <2>1, FS_Subset DEF IInv, TypeOK
  <2>3. Cardinality(S) \in Nat /\ Cardinality(S) # 0
    BY <2>2, FS_CardinalityType, FS_EmptySet
  <2>4. Executed[working[c]] = Cardinality(S)
    BY <1>1 DEF Executed, Charges
  <2> HIDE DEF S
  <2>5. Executed[working[c]] > 0
    BY <2>3, <2>4
  <2> QED BY <1>4, <2>1, <2>5 DEF Answers, Commits, Works, Ending
<1>5. CASE Works(c)
  <2>1. ~Stored(request[c])
    BY <1>1, <1>5 DEF Works, AnswerInv, Served, Decided, TxSteps, Steps
  <2>2. Ending(request[c]) \in {"refused", "error"}
    BY <1>5, <2>1 DEF Works, Ending, Stored
  <2>3. pc'[c] # "fetch" /\ pc[c] # "fetch"
    BY <1>2, <1>5 DEF Works
  <2> QED BY <1>b, <1>5, <2>2, <2>3
<1> QED BY <1>3, <1>4, <1>5

\* Before the commit of the handler the protocol is about to execute, after it to ack.
LEMMA HandlerRefines ==
  ASSUME PaymentsInv, NEW c \in Consumers, at[c] = "pay", Progress(c) \/ Failure(c), Continues(c)
  PROVE  /\ Consumer!Next \/ UNCHANGED Consumer!vars
         /\ CallInv'
<1> USE DEF PaymentsInv
<1> DEFINE w == working[c]
<1>1. /\ c \in Workers /\ inbox' = inbox /\ pc[c] # "idle"
      /\ pc'[c] # "idle" => request'[c] = request[c]
      /\ \A q \in Workers \ {c} : pc'[q] = pc[q] /\ request'[q] = request[q]
      /\ Commits(c) \/ Answers(c) \/ Works(c)
  BY WorkerMoves, ConsumersAreWorkers DEF IInv
<1>2. w \in Commands
  BY WorkingIsCommand
<1>3. /\ UNCHANGED <<queue, published, unacked, working, cache, lost, restarts, called>>
      /\ pc'[c] # "idle" => UNCHANGED <<at, outcome>>
      /\ pc'[c] = "idle" => Returns(c, Ending(request[c]))
  BY DEF Continues, Returns, consumer
<1>4. \A d \in Consumers \ {c} : pc'[d] = pc[d] /\ request'[d] = request[d]
  BY <1>1, ConsumersAreWorkers
<1>5. pc'[c] = "idle" => AtBar' = [AtBar EXCEPT ![c] = "ack"]
  BY <1>2, <1>3, <1>4, ReturnMoves
<1>6. /\ \A d \in Consumers : at'[d] = IF d = c /\ pc'[c] = "idle" THEN "ack" ELSE at[d]
      /\ at' = [d \in Consumers |-> at'[d]]
      /\ outcome' = [m \in Commands |-> outcome'[m]]
  <2>1. CASE pc'[c] = "idle"
    BY <1>2, <1>3, <1>4, <2>1, ReturnMoves
  <2>2. CASE pc'[c] # "idle"
    BY <1>3, <2>2 DEF CallInv
  <2> QED BY <2>1, <2>2
<1>7. CallInv'
  <2>1. ASSUME NEW d \in Consumers
        PROVE  /\ at'[d] = "pay" <=> pc'[d] # "idle"
               /\ at'[d] = "pay" => request'[d] \in Calls(working[d]) \cap called[d]
    <3>1. /\ at[d] = "pay" <=> pc[d] # "idle"
          /\ at[d] = "pay" => request[d] \in Calls(working[d]) \cap called[d]
      BY DEF CallInv
    <3>2. CASE d = c
      BY <1>1, <1>6, <3>1, <3>2
    <3>3. CASE d # c
      BY <1>4, <1>6, <3>1, <3>3
    <3> QED BY <3>2, <3>3
  <2>2. \A p \in HttpWorkers : pc'[p] # "idle" => request'[p] \in HttpRequests
    BY <1>1 DEF CallInv, HttpWorkers
  <2>3. /\ called \in [Consumers -> SUBSET Requests]
        /\ \A d \in Consumers : /\ called[d] \cap inbox = {}
                              /\ \A x \in Consumers \ {d} : called[d] \cap called[x] = {}
    BY DEF CallInv
  <2> QED BY <1>1, <1>3, <1>6, <2>1, <2>2, <2>3 DEF CallInv, Calls
<1>8. /\ AtBar[c] = IF pc[c] = "fetch" THEN "ack" ELSE "pay"
      /\ AtBar'[c] = IF pc'[c] \in {"idle", "fetch"} THEN "ack" ELSE "pay"
      /\ \A d \in Consumers \ {c} : AtBar'[d] = AtBar[d]
      /\ AtBar = [d \in Consumers |-> AtBar[d]]
      /\ AtBar' = [d \in Consumers |-> AtBar'[d]]
  BY <1>4, <1>6 DEF AtBar
<1>9. /\ OutcomeBar = [m \in Commands |-> OutcomeBar[m]]
      /\ OutcomeBar' = [m \in Commands |-> OutcomeBar'[m]]
  BY DEF OutcomeBar
<1>10. \A m \in Commands : outcome'[m] =
         IF m = w /\ pc'[c] = "idle" THEN outcome[m] \cup {Ending(request[c])} ELSE outcome[m]
  <2>1. outcome = [m \in Commands |-> outcome[m]]
    BY DEF CallInv
  <2>2. CASE pc'[c] = "idle"
    <3>1. outcome' = [outcome EXCEPT ![w] = @ \cup {Ending(request[c])}]
      BY <1>3, <2>2 DEF Returns
    <3> QED BY <1>2, <2>1, <2>2, <3>1
  <2>3. CASE pc'[c] # "idle"
    BY <1>3, <2>3
  <2> QED BY <2>2, <2>3
<1> HIDE DEF w
<1>11. CASE Commits(c)
  <2>1. /\ Executed' = [Executed EXCEPT ![w] = @ + 1]
        /\ ExecutedHere' = [ExecutedHere EXCEPT ![c][w] = @ + 1]
        /\ Executed \in [Commands -> Nat]
    BY <1>2, <1>3, <1>11, ConsumerCharges DEF w
  <2>2. Ending(request[c]) = "executed"
    BY <1>11, HandlerEnding
  <2>3. \A m \in Commands : /\ OutcomeBar'[m] = outcome'[m] \cup IF Executed'[m] > 0 THEN {"executed"} ELSE {}
                            /\ OutcomeBar[m] = outcome[m] \cup IF Executed[m] > 0 THEN {"executed"} ELSE {}
    BY DEF OutcomeBar
  <2>4. Executed'[w] > 0 /\ \A m \in Commands \ {w} : Executed'[m] = Executed[m]
    BY <1>2, <2>1
  <2>5. \A m \in Commands : OutcomeBar'[m] = OutcomeBar[m] \cup IF m = w THEN {"executed"} ELSE {}
    BY <1>2, <1>10, <2>2, <2>3, <2>4
  <2>6. OutcomeBar' = [OutcomeBar EXCEPT ![w] = @ \cup {"executed"}]
    BY <1>2, <1>9, <2>5
  <2>7. AtBar[c] = "pay" /\ AtBar' = [AtBar EXCEPT ![c] = "ack"]
    BY <1>8, <1>11 DEF Commits
  <2>8. Consumer!Execute(c)
    BY <1>3, <2>1, <2>6, <2>7 DEF Consumer!Execute, Consumer!Ends, Consumer!Goto, Consumer!broker,
       Consumer!faults, w
  <2> QED BY <1>7, <2>8 DEF Consumer!Next, Consumer!Progress
<1>12. CASE Answers(c) \/ Works(c)
  <2>1. UNCHANGED <<Executed, ExecutedHere>>
    BY <1>3, <1>12, ChargesKept DEF Answers, Works
  <2>2. ASSUME AtBar' = AtBar, OutcomeBar' = OutcomeBar PROVE UNCHANGED Consumer!vars
    BY <1>3, <2>1, <2>2 DEF Consumer!vars, Consumer!broker, Consumer!effects, Consumer!faults
  <2>3. CASE Answers(c)
    <3>1. Ending(request[c]) = "executed" /\ Executed[w] > 0
      BY <2>3, HandlerEnding DEF w
    <3>2. \A m \in Commands : OutcomeBar'[m] = OutcomeBar[m]
      BY <1>10, <2>1, <3>1 DEF OutcomeBar
    <3>3. AtBar' = AtBar
      BY <1>8, <2>3 DEF Answers
    <3> QED BY <1>7, <1>9, <2>2, <3>2, <3>3
  <2>4. CASE Works(c)
    <3>1. Ending(request[c]) \in {"refused", "error"} /\ pc'[c] # "fetch" /\ pc[c] # "fetch"
      BY <2>4, HandlerEnding DEF Works
    <3>2. CASE pc'[c] = "idle"
      <4>1. AtBar[c] = "pay" /\ AtBar' = [AtBar EXCEPT ![c] = "ack"]
        BY <1>5, <1>8, <3>1, <3>2
      <4>2. OutcomeBar' = [OutcomeBar EXCEPT ![w] = @ \cup {Ending(request[c])}]
        BY <1>2, <1>3, <2>1, <3>2, BarEnds DEF Returns, w
      <4>3. Consumer!ExecuteFails(c)
        BY <1>3, <2>1, <3>1, <4>1, <4>2 DEF Consumer!ExecuteFails, Consumer!Ends, Consumer!Goto,
           Consumer!broker, Consumer!faults, w
      <4> QED BY <1>7, <4>3 DEF Consumer!Next, Consumer!Progress
    <3>3. CASE pc'[c] # "idle"
      <4>1. AtBar' = AtBar
        BY <1>8, <3>1, <3>3
      <4>2. OutcomeBar' = OutcomeBar
        BY <1>3, <2>4, <3>3, BarKept DEF Works
      <4> QED BY <1>7, <2>2, <4>1, <4>2
    <3> QED BY <3>2, <3>3
  <2> QED BY <1>12, <2>3, <2>4
<1> QED BY <1>1, <1>11, <1>12

\* An HTTP worker does nothing that the protocol knows of.
LEMMA ServeRefines ==
  ASSUME PaymentsInv, NEW p \in HttpWorkers, Serve(p)
  PROVE  UNCHANGED Consumer!vars /\ CallInv'
<1> USE DEF PaymentsInv
<1>1. p \in Workers /\ p \notin Consumers /\ UNCHANGED consumer
  BY DEF HttpWorkers, Serve
<1>2. UNCHANGED <<queue, published, unacked, at, working, cache, outcome, lost, restarts, called>>
  BY <1>1 DEF consumer
<1>3. /\ inbox' \subseteq inbox
      /\ \A q \in Workers \ {p} : pc'[q] = pc[q] /\ request'[q] = request[q]
      /\ pc'[p] # "idle" => request'[p] \in HttpRequests
      /\ event_store' = event_store \/ Commits(p)
  <2>1. ASSUME NEW r \in HttpRequests, Receive(p, r) \/ RefuseAmount(p, r) PROVE <1>3!:
    BY <1>1, <2>1 DEF Receive, RefuseAmount, Goto, tables, local, IInv, TypeOK, CallInv
  <2>2. CASE Progress(p) \/ Failure(p)
    BY <1>1, <2>2, WorkerMoves DEF Answers, Works, IInv, CallInv
  <2> QED BY <2>1, <2>2 DEF Serve
<1>4. UNCHANGED <<Executed, ExecutedHere>>
  BY <1>2, <1>3, ChargesKept, HttpCharges
<1>5. AtBar' = AtBar /\ OutcomeBar' = OutcomeBar
  <2>1. \A c \in Consumers : pc'[c] = pc[c]
    BY <1>1, <1>3, ConsumersAreWorkers
  <2> QED BY <1>2, <1>4, <2>1 DEF AtBar, OutcomeBar
<1>6. UNCHANGED Consumer!vars
  BY <1>2, <1>4, <1>5 DEF Consumer!vars, Consumer!broker, Consumer!effects, Consumer!faults
<1>7. CallInv'
  <2>1. \A c \in Consumers : pc'[c] = pc[c] /\ request'[c] = request[c]
    BY <1>1, <1>3, ConsumersAreWorkers
  <2>2. \A q \in HttpWorkers : pc'[q] # "idle" => request'[q] \in HttpRequests
    BY <1>3 DEF CallInv, HttpWorkers
  <2> QED BY <1>2, <1>3, <2>1, <2>2 DEF CallInv, Calls
<1> QED BY <1>6, <1>7

LEMMA PaymentsRefine ==
  ASSUME PaymentsInv, [PaymentsNext]_payments
  PROVE  [Consumer!Next]_Consumer!vars /\ CallInv'
<1>1. CASE Publish
  BY <1>1, PublishRefines
<1>2. ASSUME NEW c \in Consumers,
             ConsumerProgress(c) \/ HandlerFails(c) \/ LoseConnection(c) \/ Restart(c)
      PROVE  [Consumer!Next]_Consumer!vars /\ CallInv'
  <2>1. CASE ProtocolStep(c) \/ NotFound(c) \/ Call(c) \/ LoseConnection(c) \/ Restart(c)
    BY <2>1, ProtocolRefines, NotFoundRefines, CallRefines, LoseConnectionRefines, RestartRefines
  <2>2. CASE HandlerStep(c) \/ HandlerFails(c)
    <3>1. at[c] = "pay" /\ (Progress(c) \/ Failure(c)) /\ Continues(c)
      BY <2>2 DEF HandlerStep, HandlerFails, Failure
    <3> QED BY <3>1, HandlerRefines
  <2> QED BY <1>2, <2>1, <2>2 DEF ConsumerProgress
<1>3. ASSUME NEW p \in HttpWorkers, Serve(p) PROVE [Consumer!Next]_Consumer!vars /\ CallInv'
  BY <1>3, ServeRefines
<1>4. CASE UNCHANGED payments
  <2>1. UNCHANGED <<pc, request, inbox, event_store>> /\ UNCHANGED consumer
    BY <1>4 DEF payments, wallet, vars, tables, local
  <2>2. UNCHANGED <<Executed, ExecutedHere, AtBar, OutcomeBar>>
    BY <2>1, ChargesKept, BarKept DEF AtBar, consumer
  <2> QED BY <2>1, <2>2 DEF consumer, Consumer!vars, Consumer!broker, Consumer!effects,
             Consumer!faults, PaymentsInv, CallInv
<1> QED BY <1>1, <1>2, <1>3, <1>4 DEF PaymentsNext

LEMMA PaymentsInitRefines ==
  ASSUME PaymentsInit
  PROVE  Consumer!Init /\ CallInv
<1>1. /\ Protocol!Init /\ called = [c \in Consumers |-> {}]
      /\ pc = [p \in Workers |-> "idle"]
  BY DEF PaymentsInit, Init
<1>2. Executed = [m \in Commands |-> 0] /\ outcome = [m \in Commands |-> {}]
      /\ at = [c \in Consumers |-> "consuming"]
  BY <1>1 DEF Protocol!Init
<1>3. OutcomeBar = [m \in Commands |-> {}] /\ AtBar = [c \in Consumers |-> "consuming"]
  BY <1>2 DEF OutcomeBar, AtBar
<1>4. Consumer!Init
  BY <1>1, <1>3 DEF Protocol!Init, Consumer!Init
<1>5. CallInv
  BY <1>1, <1>2, ConsumersAreWorkers DEF CallInv, HttpWorkers
<1> QED BY <1>4, <1>5

\* The protocol's assumptions hold here, and with them its theorems.
LEMMA ConsumerAssumptions ==
  /\ Consumer!CacheSizeAssumption /\ Consumer!CommandsAssumption
  /\ Consumer!BoundsAssumption /\ Consumer!NoneIsNoCommand
BY ProtocolAssumption DEF Protocol!CacheSizeAssumption, Protocol!CommandsAssumption,
   Protocol!BoundsAssumption, Protocol!NoneIsNoCommand, Consumer!CacheSizeAssumption,
   Consumer!CommandsAssumption, Consumer!BoundsAssumption, Consumer!NoneIsNoCommand

\* The inductive invariant of the composition: that of the command path, that of the
\* protocol under the mapping, and what ties a callback to its call.
THEOREM PaymentsInvariant == PaymentsSpec => []PaymentsInv
<1>1. PaymentsInit => CallInv /\ Consumer!Inv
  BY PaymentsInitRefines, ConsumerAssumptions, Consumer!InitInv
<1>2. (IInv /\ AnswerInv) /\ (CallInv /\ Consumer!Inv) /\ [PaymentsNext]_payments
        => (CallInv /\ Consumer!Inv)'
  BY PaymentsRefine, ConsumerAssumptions, Consumer!Inductive DEF PaymentsInv
<1>3. PaymentsSpec => [](IInv /\ AnswerInv)
  BY PaymentsUseCommandPath, Invariant, AnswerInvariant, PTL
<1> QED BY <1>1, <1>2, <1>3, PTL DEF PaymentsSpec, PaymentsInv

LEMMA PaymentsImplementProtocol == PaymentsSpec => Consumer!Spec
<1>1. PaymentsInit => Consumer!Init
  BY PaymentsInitRefines
<1>2. PaymentsInv /\ [PaymentsNext]_payments => [Consumer!Next]_Consumer!vars
  BY PaymentsRefine
<1> QED BY <1>1, <1>2, PaymentsInvariant, PTL DEF PaymentsSpec, Consumer!Spec

\* The names in the mapping stand for what HandlerOnce substitutes.
LEMMA MappingIsHandlerOnce == Consumer!Spec => ConsumerSpec
<1> USE DEF AtBar, OutcomeBar, Consumer!broker, Consumer!effects, Consumer!faults,
            HandlerOnce!broker, HandlerOnce!effects, HandlerOnce!faults,
            Consumer!Goto, HandlerOnce!Goto, Consumer!Ends, HandlerOnce!Ends
<1>1. Consumer!Init => HandlerOnce!Init
  BY DEF Consumer!Init, HandlerOnce!Init
<1>2. ASSUME NEW m, Consumer!Publish(m) PROVE HandlerOnce!Publish(m)
  BY <1>2 DEF Consumer!Publish, HandlerOnce!Publish
<1>3. ASSUME NEW c, Consumer!Progress(c) PROVE HandlerOnce!Progress(c)
  <2>1. Consumer!Settle(c) <=> HandlerOnce!Settle(c)
    BY DEF Consumer!Settle, HandlerOnce!Settle
  <2>2. ASSUME Consumer!Deliver(c) PROVE HandlerOnce!Deliver(c)
    BY <2>2 DEF Consumer!Deliver, HandlerOnce!Deliver
  <2>3. ASSUME Consumer!IgnoreDuplicate(c) PROVE HandlerOnce!IgnoreDuplicate(c)
    BY <2>1, <2>3 DEF Consumer!IgnoreDuplicate, HandlerOnce!IgnoreDuplicate, Consumer!Known,
       HandlerOnce!Known, Consumer!Range, HandlerOnce!Range, Consumer!Touch, HandlerOnce!Touch,
       Consumer!RemoveAt, HandlerOnce!RemoveAt
  <2>4. ASSUME Consumer!Mark(c) PROVE HandlerOnce!Mark(c)
    BY <2>4 DEF Consumer!Mark, HandlerOnce!Mark, Consumer!Known, HandlerOnce!Known, Consumer!Range,
       HandlerOnce!Range, Consumer!Remember, HandlerOnce!Remember, Consumer!Culled,
       HandlerOnce!Culled
  <2>5. ASSUME Consumer!Reject(c) PROVE HandlerOnce!Reject(c)
    BY <2>1, <2>5 DEF Consumer!Reject, HandlerOnce!Reject
  <2>6. ASSUME Consumer!Translate(c) PROVE HandlerOnce!Translate(c)
    BY <2>6 DEF Consumer!Translate, HandlerOnce!Translate
  <2>7. ASSUME Consumer!FindWallet(c) PROVE HandlerOnce!FindWallet(c)
    BY <2>7 DEF Consumer!FindWallet, HandlerOnce!FindWallet
  <2>8. ASSUME Consumer!WalletMissing(c) PROVE HandlerOnce!WalletMissing(c)
    BY <2>8 DEF Consumer!WalletMissing, HandlerOnce!WalletMissing
  <2>9. ASSUME Consumer!Execute(c) PROVE HandlerOnce!Execute(c)
    BY <2>9 DEF Consumer!Execute, HandlerOnce!Execute
  <2>10. ASSUME Consumer!ExecuteFails(c) PROVE HandlerOnce!ExecuteFails(c)
    BY <2>10 DEF Consumer!ExecuteFails, HandlerOnce!ExecuteFails
  <2>11. ASSUME Consumer!Ack(c) PROVE HandlerOnce!Ack(c)
    BY <2>1, <2>11 DEF Consumer!Ack, HandlerOnce!Ack
  <2>12. ASSUME Consumer!Reconnect(c) PROVE HandlerOnce!Reconnect(c)
    BY <2>12 DEF Consumer!Reconnect, HandlerOnce!Reconnect
  <2> QED BY <1>3, <2>2, <2>3, <2>4, <2>5, <2>6, <2>7, <2>8, <2>9, <2>10, <2>11, <2>12
          DEF Consumer!Progress, HandlerOnce!Progress
<1>4. ASSUME NEW c, Consumer!LoseConnection(c) PROVE HandlerOnce!LoseConnection(c)
  BY <1>4 DEF Consumer!LoseConnection, HandlerOnce!LoseConnection, Consumer!Requeue,
     HandlerOnce!Requeue
<1>5. ASSUME NEW c, Consumer!Restart(c) PROVE HandlerOnce!Restart(c)
  BY <1>5 DEF Consumer!Restart, HandlerOnce!Restart, Consumer!Requeue, HandlerOnce!Requeue
<1>6. UNCHANGED Consumer!vars => UNCHANGED HandlerOnce!vars
  BY DEF Consumer!vars, HandlerOnce!vars
<1>7. Consumer!Next => HandlerOnce!Next
  BY <1>2, <1>3, <1>4, <1>5 DEF Consumer!Next, HandlerOnce!Next
<1>8. [Consumer!Next]_Consumer!vars => [HandlerOnce!Next]_HandlerOnce!vars
  BY <1>6, <1>7
<1> QED BY <1>1, <1>8, PTL DEF Consumer!Spec, ConsumerSpec, HandlerOnce!Spec

\* The handler, which loads, decides, commits and reads back in steps of their own, with
\* failures, deaths and other workers between them, is the one step it is taken for by
\* CommandConsumer: it commits once or not at all, and is acknowledged after.
THEOREM PaymentsImplementConsumer == PaymentsSpec => ConsumerSpec
BY PaymentsImplementProtocol, MappingIsHandlerOnce, PTL

\* What a client is charged for a command, counted in event_store: once for each time
\* it is sent or put back, and, with a message_id, once for each process there was.
THEOREM ChargesAreBounded ==
  ASSUME IsFiniteSet(Consumers), Consumer!HasRoom(Commands)
  PROVE  PaymentsSpec => []Protocol!ExecutionsBounded
<1>1. Consumer!IsFiniteSet(Consumers)
  BY DEF IsFiniteSet, Consumer!IsFiniteSet
<1>2. Consumer!Spec => []Consumer!ExecutionsBounded
  BY <1>1, ConsumerAssumptions, Consumer!ExecutionsAreBounded
<1>3. Consumer!Cardinality(Consumers) = Protocol!Cardinality(Consumers)
  BY DEF Consumer!Cardinality, Protocol!Cardinality
<1>4. Consumer!ExecutionsBounded => Protocol!ExecutionsBounded
  BY <1>3 DEF Consumer!ExecutionsBounded, Protocol!ExecutionsBounded
<1> QED BY <1>2, <1>4, PaymentsImplementProtocol, PTL

\* One process stores the event of a payment at most once while its cache has room for
\* all ids, whether its handler answers or dies between the commit and its end.
THEOREM ProcessChargesOnce ==
  ASSUME Consumer!HasRoom(Commands)
  PROVE  PaymentsSpec => []Protocol!ExecutedOncePerProcess
<1>1. Consumer!Spec => []Consumer!ExecutedOncePerProcess
  BY ConsumerAssumptions, Consumer!ProcessExecutesOnce
<1>2. Consumer!ExecutedOncePerProcess => Protocol!ExecutedOncePerProcess
  BY DEF Consumer!ExecutedOncePerProcess, Protocol!ExecutedOncePerProcess
<1> QED BY <1>1, <1>2, PaymentsImplementProtocol, PTL

\* However small the caches, a payment is stored at most once for each time its message
\* was sent or put back: no failure between the steps of a handler charges twice.
THEOREM ChargesPerDelivery ==
  ASSUME IsFiniteSet(Consumers)
  PROVE  PaymentsSpec =>
           [](\A m \in Commands : Charges(Calls(m)) <= published[m] + lost + restarts)
<1>1. Consumer!IsFiniteSet(Consumers)
  BY DEF IsFiniteSet, Consumer!IsFiniteSet
<1>2. Consumer!Spec => []Consumer!OncePerDelivery
  BY <1>1, ConsumerAssumptions, Consumer!ExecutionsPerDelivery
<1>3. Consumer!OncePerDelivery =>
        \A m \in Commands : Charges(Calls(m)) <= published[m] + lost + restarts
  BY DEF Consumer!OncePerDelivery, Executed
<1> QED BY <1>2, <1>3, PaymentsImplementProtocol, PTL

\* A payment command never vanishes: one that the broker no longer holds was handled to
\* an end by a handler that ran step by step beside the others.
THEOREM NoPaymentDropped == PaymentsSpec => []Consumer!NothingDropped
<1>1. Consumer!Spec => []Consumer!NothingDropped
  BY ConsumerAssumptions, Consumer!NoCommandDropped
<1> QED BY <1>1, PaymentsImplementProtocol, PTL

===============================================================================
