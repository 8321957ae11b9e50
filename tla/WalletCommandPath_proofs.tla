----------------------- MODULE WalletCommandPath_proofs -----------------------
(***************************************************************************)
(* Proofs about the command path, for every set of workers, wallets and    *)
(* requests, every clock offset and both values of Debug.                  *)
(***************************************************************************)
EXTENDS WalletInvariant, FiniteSetTheorems, TLAPS

USE DEF VersionStep

(***************************************************************************)
(* Streams: what the helpers of the aggregate return.                      *)
(***************************************************************************)

\* The version a loaded stream reports is the version of one of its last rows.
LEMMA LatestIsLast ==
  ASSUME NEW rows, HasLast(rows), rows # {}
  PROVE  \E r \in rows : IsLast(r, rows) /\ LatestVersion(rows) = r.version
<1>1. PICK r \in rows : IsLast(r, rows)
  BY DEF HasLast
<1>2. IsLast(CHOOSE s \in rows : IsLast(s, rows), rows)
  BY <1>1
<1>3. QED
  BY <1>2 DEF LatestVersion, IsLast

\* A stream whose lifecycle rows have a last one replays to a status, and to one
\* of an existing wallet when it has any lifecycle row.
LEMMA StatusOfType ==
  ASSUME NEW rows, HasLast(LifecycleRows(rows))
  PROVE  /\ StatusOf(rows) \in Statuses
         /\ LifecycleRows(rows) # {} => StatusOf(rows) # "none"
<1>1. CASE LifecycleRows(rows) = {}
  BY <1>1 DEF StatusOf, Statuses
<1>2. CASE LifecycleRows(rows) # {}
  <2>1. PICK r \in LifecycleRows(rows) : IsLast(r, LifecycleRows(rows))
    BY <1>2 DEF HasLast
  <2>2. LastLifecycle(rows) \in LifecycleRows(rows)
    BY <2>1 DEF LastLifecycle
  <2>3. LastLifecycle(rows).kind \in LifecycleKinds
    BY <2>2 DEF LifecycleRows
  <2>4. QED
    BY <1>2, <2>3 DEF StatusOf, StatusAfter, Statuses, LifecycleKinds
<1>3. QED
  BY <1>1, <1>2

\* What an aggregate decides on a non-empty stream is legal after that stream.
LEMMA EmitsLegal ==
  ASSUME NEW type \in CommandTypes, NEW status \in Statuses \ {"none"},
         Emits(type, status)
  PROVE  Legal(EventOf[type], status)
BY DEF Emits, RaisesClosed, RaisesSuspended, IsIdempotent, Legal, EventOf, CommandTypes,
       Statuses, MoneyCommands, CreditCommands, DebitCommands, LifecycleCommands

LEMMA EventOfType ==
  ASSUME NEW type \in CommandTypes
  PROVE  EventOf[type] \in EventKinds
BY DEF EventOf, EventKinds, CommandTypes, MoneyCommands, CreditCommands, DebitCommands,
       LifecycleCommands, MoneyKinds, CreditKinds, DebitKinds, LifecycleKinds

(***************************************************************************)
(* The rounding of amounts.                                                *)
(***************************************************************************)
LEMMA QuantizeDivides ==
  ASSUME NEW amount \in Nat
  PROVE  /\ amount \div QuantizeExp \in Nat
         /\ amount % QuantizeExp \in 0 .. (QuantizeExp - 1)
         /\ amount = QuantizeExp * (amount \div QuantizeExp) + (amount % QuantizeExp)
<1>1. amount % QuantizeExp \in 0 .. (QuantizeExp - 1)
  BY QuantizeExpAssumption
<1>2. amount = QuantizeExp * (amount \div QuantizeExp) + (amount % QuantizeExp)
  BY QuantizeExpAssumption
<1>3. amount \div QuantizeExp \in Int
  BY QuantizeExpAssumption
<1>4. amount \div QuantizeExp >= 0
  BY QuantizeExpAssumption
<1> QED BY <1>1, <1>2, <1>3, <1>4

\* A rounded amount is at most half a unit of the balance away.
LEMMA QuantizeIsNear ==
  ASSUME NEW amount \in Nat
  PROVE  /\ Quantize(amount) \in Nat
         /\ 2 * amount - 2 * (QuantizeExp * Quantize(amount)) <= QuantizeExp
         /\ 2 * (QuantizeExp * Quantize(amount)) - 2 * amount <= QuantizeExp
<1>1. PICK d \in Nat, r \in Nat : /\ d = amount \div QuantizeExp
                                  /\ r = amount % QuantizeExp
                                  /\ r < QuantizeExp
                                  /\ amount = QuantizeExp * d + r
  BY QuantizeDivides, QuantizeExpAssumption
<1>2. Quantize(amount) =
        d + IF 2 * r > QuantizeExp \/ (2 * r = QuantizeExp /\ d % 2 = 1) THEN 1 ELSE 0
  BY <1>1 DEF Quantize
<1>3. QuantizeExp * (d + 1) = QuantizeExp * d + QuantizeExp
  BY QuantizeExpAssumption
<1>4. PICK product \in Int : product = QuantizeExp * d
  BY QuantizeExpAssumption
<1>5. CASE Quantize(amount) = d /\ 2 * r <= QuantizeExp
  BY <1>1, <1>4, <1>5, QuantizeExpAssumption
<1>6. CASE Quantize(amount) = d + 1 /\ 2 * r >= QuantizeExp
  BY <1>1, <1>3, <1>4, <1>6, QuantizeExpAssumption
<1> QED BY <1>1, <1>2, <1>5, <1>6, QuantizeExpAssumption

LEMMA ProjectedType ==
  ASSUME NEW v \in Views, NEW r \in EventRows, Accepts(v, r)
  PROVE  Projected(v, r) \in Views
<1>1. PICK rounded \in Nat : rounded = Quantize(r.amount)
  BY QuantizeIsNear DEF EventRows
<1>2. /\ r.kind \in CreditKinds => Delta(r) = rounded
      /\ r.kind \in DebitKinds => Delta(r) = -rounded
      /\ r.kind \notin MoneyKinds => Delta(r) = 0
  BY <1>1 DEF Delta, Signed, MoneyKinds, CreditKinds, DebitKinds
<1>3. r.kind \in DebitKinds => v.balance >= rounded
  BY <1>1 DEF Accepts, DebitKinds
<1>4. v.balance + Delta(r) \in Nat
  BY <1>2, <1>3 DEF Views, MoneyKinds
<1> QED BY <1>4 DEF Projected, Views, EventRows, StatusAfter, LifecycleKinds, Statuses,
     EventKinds, MoneyKinds, CreditKinds, DebitKinds

(***************************************************************************)
(* Steps that leave the tables of the stream alone.                        *)
(***************************************************************************)
LEMMA StoreUnchanged ==
  ASSUME StoreInv, UNCHANGED <<event_store, outbox>>
  PROVE  StoreInv'
BY DEF StoreInv, StreamsComplete, StreamsHaveLast, LegalHistory, VersionsUnique, EventsLegal,
       OutboxMirrorsStore, Rows, Before, LifecycleRows, IsLast, HasLast

\* One worker moves and nothing is committed: its own conditions are all there is
\* to check, the key it comes to hold being free of the others.
LEMMA WorkerStep ==
  ASSUME IInv, TypeOK', NEW p \in Workers,
         UNCHANGED <<event_store, outbox>>,
         \A q \in Workers \ {p} : /\ pc'[q] = pc[q]
                                  /\ request'[q] = request[q]
                                  /\ row'[q] = row[q]
                                  /\ slot'[q] = slot[q],
         RequestHeld(p)', DecisionHolds(p)', KeyHeld(p)', SlotRead(p)'
  PROVE  IInv'
<1> USE DEF IInv
<1>1. StoreInv'
  BY StoreUnchanged
<1>2. RequestsHeld'
  BY DEF RequestsHeld, RequestHeld
<1>3. ASSUME NEW q \in Workers \ {p} PROVE DecisionHolds(q)'
  <2>1. DecisionHolds(q) /\ row'[q] = row[q] /\ Decided(q)' = Decided(q)
    BY DEF DecisionsHold, Decided
  <2>2. Rows(row[q].wallet)' = Rows(row[q].wallet)
    BY <2>1 DEF Rows
  <2>3. Before(row[q].wallet, row[q].version)' = Before(row[q].wallet, row[q].version)
    BY <2>1, <2>2 DEF Before
  <2>4. QED
    BY <2>1, <2>2, <2>3 DEF DecisionHolds
<1>4. ASSUME NEW q \in Workers \ {p} PROVE KeyHeld(q)'
  <2>1. KeyHeld(q)
    BY DEF KeysHeld
  <2>2. KeyOf(q)' = KeyOf(q)
    BY DEF KeyOf
  <2>3. \A z \in Workers \ {q} : pc'[q] \in TxSteps => ~Holds(z, KeyOf(q))'
    BY <2>1, <2>2 DEF KeyHeld, Holds, KeyOf
  <2>4. QED
    BY <2>1, <2>2, <2>3 DEF KeyHeld
<1>5. KeysHeld'
  BY <1>4 DEF KeysHeld
<1>6. SlotsRead'
  BY DEF SlotsRead, SlotRead
<1>7. DecisionsHold'
  BY <1>3 DEF DecisionsHold
<1>8. QED
  BY <1>1, <1>2, <1>5, <1>6, <1>7

\* The worker ends its request: it holds nothing any more.
LEMMA AnswerStep ==
  ASSUME IInv, NEW p \in Workers, pc[p] # "idle", NEW outcome \in Outcomes, Answer(p, outcome)
  PROVE  IInv'
<1> USE DEF IInv
<1>1. request[p] \in Requests
  BY DEF RequestsHeld, RequestHeld
<1>2. TypeOK'
  BY <1>1 DEF TypeOK, Answer, Forget, Goto, Unlock, tables, rebuild, NoView, Views, Statuses, Steps
<1>3. pc'[p] = "idle"
  BY DEF Answer, Forget, Goto, TypeOK
<1>4. RequestHeld(p)' /\ DecisionHolds(p)' /\ KeyHeld(p)' /\ SlotRead(p)'
  BY <1>3 DEF RequestHeld, DecisionHolds, KeyHeld, SlotRead, Decided, TxSteps
<1>5. QED
  BY <1>2, <1>4, WorkerStep DEF Answer, Forget, Goto, tables, TypeOK

(***************************************************************************)
(* The initial states, and the steps of a worker before it commits.        *)
(***************************************************************************)
LEMMA InitInv == Init => IInv
<1> SUFFICES ASSUME Init PROVE IInv
  OBVIOUS
<1>1. TypeOK
  BY FS_EmptySet, MaxRebuildsAssumption
     DEF Init, TypeOK, NoView, Views, Statuses, Steps
<1>2. StoreInv
  BY DEF Init, StoreInv, StreamsComplete, StreamsHaveLast, HasLast, LegalHistory,
         VersionsUnique, EventsLegal, OutboxMirrorsStore, Rows, LifecycleRows
<1>3. RequestsHeld /\ DecisionsHold /\ KeysHeld /\ SlotsRead
  BY DEF Init, RequestsHeld, RequestHeld, DecisionsHold, DecisionHolds, Decided, KeysHeld,
         KeyHeld, SlotsRead, SlotRead, TxSteps
<1>4. QED
  BY <1>1, <1>2, <1>3 DEF IInv

LEMMA ReceiveStep ==
  ASSUME IInv, NEW p \in Workers, NEW c \in Requests, Receive(p, c)
  PROVE  IInv'
<1> USE DEF Receive, Goto
<1>1. TypeOK'
  BY DEF IInv, TypeOK, tables, rebuild, Steps
<1>2. RequestHeld(p)' /\ DecisionHolds(p)' /\ KeyHeld(p)' /\ SlotRead(p)'
  BY DEF IInv, TypeOK, RequestHeld, DecisionHolds, KeyHeld, SlotRead, Decided, TxSteps
<1>3. QED
  BY <1>1, <1>2, WorkerStep DEF IInv, TypeOK, tables

LEMMA RefuseAmountStep ==
  ASSUME IInv, NEW p \in Workers, NEW c \in Requests, RefuseAmount(p, c)
  PROVE  IInv'
<1> USE DEF RefuseAmount, local, tables
<1>1. TypeOK'
  BY DEF IInv, TypeOK, rebuild, Outcomes
<1>2. RequestHeld(p)' /\ DecisionHolds(p)' /\ KeyHeld(p)' /\ SlotRead(p)'
  <2>1. RequestHeld(p) /\ DecisionHolds(p) /\ KeyHeld(p) /\ SlotRead(p)
    BY DEF IInv, RequestsHeld, DecisionsHold, KeysHeld, SlotsRead
  <2>2. RequestHeld(p)' /\ SlotRead(p)'
    BY <2>1 DEF RequestHeld, SlotRead
  <2>3. DecisionHolds(p)' /\ KeyHeld(p)'
    BY DEF RefuseAmount, IInv, DecisionHolds, KeyHeld, Decided, TxSteps, TypeOK
  <2>4. QED
    BY <2>2, <2>3
<1>3. QED
  BY <1>1, <1>2, WorkerStep DEF IInv

\* A decided row continues the stream it was decided on.  For an existing wallet
\* its version is two above the last one, for a new wallet it is the first.
LEMMA NewRowHolds ==
  ASSUME IInv, NEW c \in Requests, AmountAccepted(c.type, c.amount), NEW rows,
         \/ rows = {} /\ c.type = "create"
         \/ rows = Rows(c.wallet) /\ rows # {} /\ Emits(c.type, StatusOf(rows))
  PROVE  LET r == NewRow(c, LatestVersion(rows)) IN
           /\ r \in EventRows
           /\ IsVersion(r.version)
           /\ r.version # VersionStep =>
                \E s \in Rows(r.wallet) : s.version = r.version - VersionStep
           /\ Legal(r.kind, StatusOf(Before(r.wallet, r.version)))
<1> DEFINE r == NewRow(c, LatestVersion(rows))
<1> USE DEF IInv, StoreInv
<1>1. /\ c.type \in CommandTypes /\ c.wallet \in Wallets /\ c.user \in Users
      /\ c.amount \in Int
  BY RequestsAssumption
<1>2. EventOf[c.type] \in EventKinds /\ EventAmount(c.type, c.amount) \in Nat
  BY <1>1, EventOfType DEF EventAmount, AmountAccepted, MoneyCommands
<1>3. ASSUME rows = {}, c.type = "create"
      PROVE  r.version = 2 /\ Before(r.wallet, r.version) = {}
  <2>1. r.version = 2
    BY <1>3 DEF NewRow, LatestVersion
  <2>2. \A s \in event_store : IsVersion(s.version)
    BY DEF StreamsComplete
  <2>3. \A s \in event_store : ~(s.version < 2)
    BY <2>2 DEF IsVersion
  <2>4. QED
    BY <2>1, <2>3 DEF Before, Rows
<1>4. ASSUME rows = Rows(c.wallet), rows # {}
      PROVE  \E s \in rows : /\ IsVersion(s.version)
                             /\ r.version = s.version + 2
                             /\ Before(r.wallet, r.version) = rows
  <2>1. HasLast(rows)
    BY <1>1, <1>4 DEF StreamsHaveLast
  <2>2. PICK s \in rows : IsLast(s, rows) /\ LatestVersion(rows) = s.version
    BY <2>1, <1>4, LatestIsLast
  <2>3. \A z \in rows : IsVersion(z.version)
    BY <1>4 DEF StreamsComplete, Rows
  <2>4. r.version = s.version + 2 /\ r.wallet = c.wallet
    BY <2>2 DEF NewRow
  <2>5. \A z \in rows : z.version < r.version
    BY <2>2, <2>3, <2>4 DEF IsLast, IsVersion
  <2>6. QED
    BY <1>4, <2>2, <2>3, <2>4, <2>5 DEF Before
<1>5. CASE rows = {} /\ c.type = "create"
  <2>1. r.version = 2 /\ r.kind = "created" /\ StatusOf(Before(r.wallet, r.version)) = "none"
    BY <1>3, <1>5 DEF NewRow, EventOf, StatusOf, LifecycleRows
  <2>2. r \in EventRows
    BY <1>1, <1>2, <2>1 DEF NewRow, EventRows
  <2>3. QED
    BY <2>1, <2>2 DEF IsVersion, Legal
<1>6. CASE rows = Rows(c.wallet) /\ rows # {} /\ Emits(c.type, StatusOf(rows))
  <2>1. PICK s \in rows : /\ IsVersion(s.version)
                          /\ r.version = s.version + 2
                          /\ Before(r.wallet, r.version) = rows
    BY <1>4, <1>6
  <2>2. PICK first \in rows : first.version = 2
    <3>1. s.version \in Nat /\ 2 \in 1 .. s.version /\ IsVersion(2)
      BY <2>1 DEF IsVersion
    <3>2. s \in event_store /\ s.wallet = c.wallet
      BY <1>6 DEF Rows
    <3>3. QED
      BY <1>6, <3>1, <3>2 DEF StreamsComplete
  <2>3. first.kind = "created"
    <3>1. first \in event_store /\ Legal(first.kind, StatusOf(Before(first.wallet, first.version)))
      BY <1>6 DEF Rows, LegalHistory, EventsLegal
    <3>2. Before(first.wallet, first.version) = {}
      BY <2>2 DEF Before, Rows, StreamsComplete, IsVersion
    <3>3. StatusOf(Before(first.wallet, first.version)) = "none"
      BY <3>2 DEF StatusOf, LifecycleRows
    <3>4. QED
      BY <3>1, <3>3 DEF Legal
  <2>4. StatusOf(rows) \in Statuses \ {"none"}
    <3>1. HasLast(LifecycleRows(rows))
      BY <1>1, <1>6 DEF StreamsHaveLast
    <3>2. first \in LifecycleRows(rows)
      BY <2>3 DEF LifecycleRows, LifecycleKinds
    <3>3. QED
      BY <3>1, <3>2, StatusOfType
  <2>5. Legal(r.kind, StatusOf(rows))
    BY <1>1, <1>6, <2>4, EmitsLegal DEF NewRow
  <2>6. r \in EventRows /\ r.wallet = c.wallet
    BY <1>1, <1>2, <2>1 DEF NewRow, EventRows, IsVersion
  <2>7. IsVersion(r.version)
    BY <2>1 DEF IsVersion
  <2>8. QED
    BY <1>6, <2>1, <2>5, <2>6, <2>7 DEF IsVersion
<1>7. QED
  BY <1>5, <1>6

LEMMA EmitStep ==
  ASSUME IInv, NEW p \in Workers, pc[p] = "load", NEW rows, Emit(p, rows),
         \/ rows = {} /\ request[p].type = "create"
         \/ /\ rows = Rows(request[p].wallet) /\ rows # {}
            /\ Emits(request[p].type, StatusOf(rows))
  PROVE  IInv'
<1>1. request[p] \in Requests /\ AmountAccepted(request[p].type, request[p].amount)
  BY DEF IInv, RequestsHeld, RequestHeld
<1>0. PICK r : r = NewRow(request[p], LatestVersion(rows))
  OBVIOUS
<1>2. /\ r \in EventRows
      /\ IsVersion(r.version)
      /\ r.version # VersionStep =>
           \E s \in Rows(r.wallet) : s.version = r.version - VersionStep
      /\ Legal(r.kind, StatusOf(Before(r.wallet, r.version)))
  BY <1>0, <1>1, NewRowHolds
<1>3. row' = [row EXCEPT ![p] = r] /\ pc' = [pc EXCEPT ![p] = "insert_event"]
  BY <1>0 DEF Emit, Goto
<1>4. TypeOK'
  BY <1>2, <1>3 DEF Emit, IInv, TypeOK, tables, rebuild, Steps
<1>5. row'[p] = r /\ pc'[p] = "insert_event"
  BY <1>3 DEF IInv, TypeOK
<1>6. DecisionHolds(p)'
  <2>1. Rows(r.wallet)' = Rows(r.wallet)
    BY DEF Emit, tables, Rows
  <2>2. Before(r.wallet, r.version)' = Before(r.wallet, r.version)
    BY <2>1 DEF Before
  <2>3. QED
    BY <1>2, <1>5, <2>1, <2>2 DEF DecisionHolds
<1>7. RequestHeld(p)' /\ KeyHeld(p)' /\ SlotRead(p)'
  BY <1>1, <1>5 DEF Emit, RequestHeld, KeyHeld, SlotRead, TxSteps
<1>8. QED
  BY <1>4, <1>6, <1>7, WorkerStep DEF Emit, Goto, tables, IInv, TypeOK

(***************************************************************************)
(* The steps of the append transaction.                                    *)
(***************************************************************************)
LEMMA InsertEventStep ==
  ASSUME IInv, NEW p \in Workers, InsertEvent(p)
  PROVE  IInv'
<1> USE DEF IInv
<1>1. DecisionHolds(p) /\ RequestHeld(p) /\ Decided(p)
  BY DEF DecisionsHold, RequestsHeld, InsertEvent, Decided
<1>2. Cardinality(event_store) + ClockOffset[p] \in Int
  BY FS_CardinalityType, ClockAssumption DEF TypeOK
<1>3. PICK r : r = [row[p] EXCEPT !.at = Cardinality(event_store) + ClockOffset[p]]
  OBVIOUS
<1>4. /\ r \in EventRows
      /\ r.wallet = row[p].wallet /\ r.version = row[p].version /\ r.kind = row[p].kind
  BY <1>1, <1>2, <1>3 DEF DecisionHolds, EventRows
<1>5. row' = [row EXCEPT ![p] = r] /\ pc' = [pc EXCEPT ![p] = "read_slot"]
  BY <1>3 DEF InsertEvent, Goto
<1>6. row'[p] = r /\ pc'[p] = "read_slot"
  BY <1>5 DEF TypeOK
<1>7. TypeOK'
  BY <1>4, <1>5 DEF InsertEvent, TypeOK, tables, rebuild, Steps, TxSteps
<1>8. DecisionHolds(p)'
  <2>1. Rows(r.wallet)' = Rows(r.wallet)
    BY DEF InsertEvent, tables, Rows
  <2>2. Before(r.wallet, r.version)' = Before(r.wallet, r.version)
    BY <2>1 DEF Before
  <2>3. QED
    BY <1>1, <1>4, <1>6, <2>1, <2>2 DEF DecisionHolds
<1>9. KeyHeld(p)'
  <2>1. KeyOf(p)' = KeyOf(p)
    BY <1>4, <1>6 DEF KeyOf
  <2>2. KeyOf(p) \notin Keys(event_store) /\ \A q \in Workers : ~Holds(q, KeyOf(p))
    BY DEF InsertEvent
  <2>3. ASSUME NEW q \in Workers \ {p} PROVE ~Holds(q, KeyOf(p))'
    BY <1>5, <2>1, <2>2 DEF Holds, KeyOf, TypeOK
  <2>4. Keys(event_store)' = Keys(event_store)
    BY DEF InsertEvent, tables, Keys
  <2>5. QED
    BY <2>1, <2>2, <2>3, <2>4 DEF KeyHeld
<1>10. RequestHeld(p)' /\ SlotRead(p)'
  BY <1>1, <1>6 DEF InsertEvent, RequestHeld, SlotRead
<1>11. QED
  BY <1>7, <1>8, <1>9, <1>10, WorkerStep DEF InsertEvent, Goto, tables, TypeOK

\* The row of an open transaction comes after every row of its wallet.
LEMMA HeldRowIsNext ==
  ASSUME IInv, NEW p \in Workers, pc[p] \in TxSteps
  PROVE  \A s \in Rows(row[p].wallet) : IsVersion(s.version) /\ s.version < row[p].version
<1> SUFFICES ASSUME NEW s \in Rows(row[p].wallet), ~(s.version < row[p].version)
             PROVE  FALSE
  BY DEF IInv, StoreInv, StreamsComplete, Rows
<1>1. IsVersion(row[p].version) /\ KeyOf(p) \notin Keys(event_store)
  BY DEF IInv, DecisionsHold, DecisionHolds, Decided, KeysHeld, KeyHeld
<1>2. s \in event_store /\ s.wallet = row[p].wallet /\ IsVersion(s.version)
  BY DEF IInv, StoreInv, StreamsComplete, Rows
<1>3. row[p].version \in 1 .. s.version
  BY <1>1, <1>2 DEF IsVersion
<1>4. PICK z \in Rows(row[p].wallet) : z.version = row[p].version
  BY <1>1, <1>2, <1>3 DEF IInv, StoreInv, StreamsComplete
<1>5. KeyOf(p) \in Keys(event_store)
  BY <1>4 DEF Keys, KeyOf, Rows
<1>6. QED
  BY <1>1, <1>5

LEMMA HalfOfVersion ==
  ASSUME NEW v \in Nat, IsVersion(v)
  PROVE  /\ v \div VersionStep \in Nat
         /\ v = 2 * (v \div VersionStep)
BY DEF IsVersion

\* MAX + 1 of the outbox is the place of the event the transaction holds.
LEMMA SlotIsPlace ==
  ASSUME IInv, NEW p \in Workers, pc[p] \in TxSteps
  PROVE  LatestVersion(OutboxRows(row[p].wallet)) + 1 = row[p].version \div VersionStep
<1> DEFINE w == row[p].wallet
           v == row[p].version
<1> USE DEF IInv, StoreInv
<1>1. /\ IsVersion(v)
      /\ v # VersionStep => \E s \in Rows(w) : s.version = v - VersionStep
  BY DEF DecisionsHold, DecisionHolds, Decided
<1>2. \A s \in Rows(w) : IsVersion(s.version) /\ s.version < v
  BY HeldRowIsNext
<1>3. OutboxRows(w) = {OutboxRow(s, s.version \div VersionStep) : s \in Rows(w)}
  BY DEF OutboxMirrorsStore, OutboxRows, OutboxRow, Rows
<1>4. CASE v = VersionStep
  <2>1. Rows(w) = {}
    BY <1>2, <1>4 DEF IsVersion
  <2>2. OutboxRows(w) = {}
    BY <1>3, <2>1
  <2>3. QED
    BY <1>4, <2>2 DEF LatestVersion
<1>5. CASE v # VersionStep
  <2>1. PICK s \in Rows(w) : s.version = v - 2
    BY <1>1, <1>5
  <2>2. PICK o : o = OutboxRow(s, s.version \div VersionStep)
    OBVIOUS
  <2>3. o \in OutboxRows(w) /\ o.version = (v - 2) \div 2
    BY <1>3, <2>1, <2>2 DEF OutboxRow
  <2>4. ASSUME NEW z \in Rows(w) PROVE z.version \div 2 <= (v - 2) \div 2
    BY <1>1, <1>2, <2>4 DEF IsVersion
  <2>5. IsLast(o, OutboxRows(w))
    <3>1. ASSUME NEW x \in OutboxRows(w) PROVE x.version <= o.version
      <4>1. PICK z \in Rows(w) : x = OutboxRow(z, z.version \div VersionStep)
        BY <1>3
      <4>2. x.version = z.version \div 2
        BY <4>1 DEF OutboxRow
      <4>3. QED
        BY <2>3, <2>4, <4>2
    <3>2. QED
      BY <2>3, <3>1 DEF IsLast
  <2>6. PICK l \in OutboxRows(w) : IsLast(l, OutboxRows(w)) /\ LatestVersion(OutboxRows(w)) = l.version
    BY <2>3, <2>5, LatestIsLast DEF HasLast
  <2>7. l.version \in Nat /\ o.version \in Nat /\ l.version = o.version
    BY <2>3, <2>5, <2>6 DEF IsLast, TypeOK, OutboxRows, OutboxRowsType
  <2>8. QED
    BY <1>1, <2>3, <2>6, <2>7 DEF IsVersion
<1>6. QED
  BY <1>4, <1>5

\* Steps inside the transaction: the row stays, the next step is still inside.
LEMMA InTransactionStep ==
  ASSUME IInv, TypeOK', NEW p \in Workers, NEW step \in TxSteps, pc[p] \in TxSteps,
         pc' = [pc EXCEPT ![p] = step],
         UNCHANGED <<event_store, outbox, request, row>>,
         \A q \in Workers \ {p} : slot'[q] = slot[q],
         step = "read_slot" \/ slot'[p] = row[p].version \div VersionStep
  PROVE  IInv'
<1> USE DEF IInv
<1>1. DecisionHolds(p) /\ RequestHeld(p) /\ KeyHeld(p) /\ pc'[p] = step
  BY DEF DecisionsHold, RequestsHeld, KeysHeld, TypeOK
<1>2. DecisionHolds(p)'
  <2>1. Rows(row[p].wallet)' = Rows(row[p].wallet)
    BY DEF Rows
  <2>2. Before(row[p].wallet, row[p].version)' = Before(row[p].wallet, row[p].version)
    BY <2>1 DEF Before
  <2>3. QED
    BY <1>1, <2>1, <2>2 DEF DecisionHolds, Decided
<1>3. KeyHeld(p)'
  BY <1>1 DEF KeyHeld, Holds, KeyOf, TypeOK
<1>4. RequestHeld(p)' /\ SlotRead(p)'
  BY <1>1 DEF RequestHeld, SlotRead, TxSteps
<1>5. QED
  BY <1>2, <1>3, <1>4, WorkerStep DEF TypeOK

LEMMA ReadSlotStep ==
  ASSUME IInv, NEW p \in Workers, ReadSlot(p)
  PROVE  IInv'
<1>1. LatestVersion(OutboxRows(row[p].wallet)) + 1 = row[p].version \div VersionStep
  BY SlotIsPlace DEF ReadSlot, TxSteps
<1>2. row[p].version \div VersionStep \in Nat
  BY HalfOfVersion
     DEF IInv, DecisionsHold, DecisionHolds, Decided, ReadSlot, TxSteps, IsVersion
<1>3. TypeOK'
  BY <1>1, <1>2 DEF ReadSlot, Goto, IInv, TypeOK, tables, rebuild, Steps, TxSteps
<1>4. QED
  BY <1>1, <1>3, InTransactionStep DEF ReadSlot, Goto, tables, TxSteps, IInv, TypeOK

LEMMA InsertOutboxStep ==
  ASSUME IInv, NEW p \in Workers, InsertOutbox(p)
  PROVE  IInv'
<1>1. TypeOK'
  BY DEF InsertOutbox, Goto, IInv, TypeOK, tables, local, rebuild, Steps, TxSteps
<1>2. slot[p] = row[p].version \div VersionStep
  BY DEF InsertOutbox, IInv, SlotsRead, SlotRead, TxSteps
<1>3. QED
  BY <1>1, <1>2, InTransactionStep DEF InsertOutbox, Goto, tables, local, TxSteps

LEMMA ProjectStep ==
  ASSUME IInv, NEW p \in Workers, Project(p)
  PROVE  IInv'
<1>1. row[p] \in EventRows /\ row[p].wallet \in Wallets
  BY DEF Project, IInv, DecisionsHold, DecisionHolds, Decided, TxSteps, EventRows
<1>2. read_model[row[p].wallet] \in Views
  BY <1>1 DEF IInv, TypeOK
<1>3. ProjectionEnabled => Projected(read_model[row[p].wallet], row[p]) \in Views
  BY <1>1, <1>2, ProjectedType DEF Project
<1>4. TypeOK'
  BY <1>2, <1>3 DEF Project, Goto, IInv, TypeOK, tables, rebuild, Steps, TxSteps
<1>5. slot[p] = row[p].version \div VersionStep
  BY DEF Project, IInv, SlotsRead, SlotRead, TxSteps
<1>6. QED
  BY <1>4, <1>5, InTransactionStep DEF Project, Goto, tables, TxSteps

LEMMA LoadIdempotentStep ==
  ASSUME IInv, NEW p \in Workers, LoadIdempotent(p)
  PROVE  IInv'
<1> USE DEF LoadIdempotent, Goto, Loads, IInv
<1>1. TypeOK'
  BY DEF TypeOK, tables, local, rebuild, Steps
<1>2. RequestHeld(p)' /\ DecisionHolds(p)' /\ KeyHeld(p)' /\ SlotRead(p)'
  BY DEF TypeOK, RequestsHeld, RequestHeld, DecisionHolds, KeyHeld, SlotRead, Decided,
         TxSteps, local
<1>3. QED
  BY <1>1, <1>2, WorkerStep DEF TypeOK, tables, local

(***************************************************************************)
(* The commit.                                                             *)
(***************************************************************************)

\* Adding a row after every row of its stream makes it the last one.
LEMMA LastGrows ==
  ASSUME NEW rows, NEW r, r.version \in Nat,
         \A s \in rows : s.version \in Nat /\ s.version < r.version
  PROVE  HasLast(rows \cup {r})
<1>1. IsLast(r, rows \cup {r})
  BY DEF IsLast
<1>2. QED
  BY <1>1 DEF HasLast

LEMMA CommitStore ==
  ASSUME IInv, NEW p \in Workers, pc[p] = "commit",
         event_store' = event_store \cup {row[p]},
         outbox' = outbox \cup {OutboxRow(row[p], slot[p])}
  PROVE  StoreInv'
<1> USE DEF IInv, StoreInv
<1>0. PICK r : r = row[p]
  OBVIOUS
<1>1. /\ r \in EventRows /\ r.wallet \in Wallets /\ IsVersion(r.version)
      /\ r.version # VersionStep => \E s \in Rows(r.wallet) : s.version = r.version - VersionStep
      /\ Legal(r.kind, StatusOf(Before(r.wallet, r.version)))
  BY <1>0 DEF DecisionsHold, DecisionHolds, Decided, TxSteps, EventRows
<1>2. \A s \in Rows(r.wallet) : IsVersion(s.version) /\ s.version < r.version
  BY <1>0, HeldRowIsNext DEF TxSteps
<1>3. event_store' = event_store \cup {r}
  BY <1>0
<1>4. /\ Rows(r.wallet)' = Rows(r.wallet) \cup {r}
      /\ \A w \in Wallets \ {r.wallet} : Rows(w)' = Rows(w)
  BY <1>3 DEF Rows
<1>5. \A s \in event_store : s.wallet \in Wallets /\ s.version \in Nat
  BY DEF TypeOK, EventRows
<1>6. StreamsComplete'
  <2>1. ASSUME NEW s \in event_store, NEW v \in 1 .. s.version, IsVersion(v)
        PROVE  \E z \in Rows(s.wallet)' : z.version = v
    BY <1>4, <1>5, <2>1 DEF StreamsComplete
  <2>2. ASSUME NEW v \in 1 .. r.version, IsVersion(v)
        PROVE  \E z \in Rows(r.wallet)' : z.version = v
    <3>1. CASE v = r.version
      BY <1>4, <3>1
    <3>2. CASE v # r.version
      <4>1. v \in 1 .. r.version - 2 /\ r.version # 2
        BY <1>1, <2>2, <3>2 DEF IsVersion
      <4>2. PICK s \in Rows(r.wallet) : s.version = r.version - 2
        BY <1>1, <4>1
      <4>3. s \in event_store /\ s.wallet = r.wallet
        BY DEF Rows
      <4>4. QED
        BY <1>4, <2>1, <2>2, <4>1, <4>2, <4>3
    <3>3. QED
      BY <3>1, <3>2
  <2>3. \A s \in event_store' : IsVersion(s.version)
    BY <1>1, <1>3 DEF StreamsComplete
  <2>4. QED
    BY <1>3, <2>1, <2>2, <2>3 DEF StreamsComplete
<1>7. StreamsHaveLast'
  <2>1. HasLast(Rows(r.wallet) \cup {r})
    BY <1>1, <1>2, LastGrows DEF IsVersion
  <2>2. HasLast(LifecycleRows(Rows(r.wallet) \cup {r}))
    <3>1. CASE r.kind \in LifecycleKinds
      <4>1. LifecycleRows(Rows(r.wallet) \cup {r}) = LifecycleRows(Rows(r.wallet)) \cup {r}
        BY <3>1 DEF LifecycleRows
      <4>2. \A s \in LifecycleRows(Rows(r.wallet)) : s.version \in Nat /\ s.version < r.version
        BY <1>2 DEF LifecycleRows, IsVersion
      <4>3. QED
        BY <1>1, <4>1, <4>2, LastGrows DEF IsVersion
    <3>2. CASE r.kind \notin LifecycleKinds
      <4>1. LifecycleRows(Rows(r.wallet) \cup {r}) = LifecycleRows(Rows(r.wallet))
        BY <3>2 DEF LifecycleRows
      <4>2. QED
        BY <1>1, <4>1 DEF StreamsHaveLast
    <3>3. QED
      BY <3>1, <3>2
  <2>3. ASSUME NEW w \in Wallets PROVE (HasLast(Rows(w)) /\ HasLast(LifecycleRows(Rows(w))))'
    <3>1. CASE w = r.wallet
      BY <1>4, <2>1, <2>2, <3>1
    <3>2. CASE w # r.wallet
      BY <1>4, <3>2 DEF StreamsHaveLast
    <3>3. QED
      BY <3>1, <3>2
  <2>4. QED
    BY <2>3 DEF StreamsHaveLast
<1>8. LegalHistory'
  <2>1. VersionsUnique'
    BY <1>2, <1>3, <1>5 DEF LegalHistory, VersionsUnique, Rows
  <2>2. ASSUME NEW s \in event_store
        PROVE  Before(s.wallet, s.version)' = Before(s.wallet, s.version)
    BY <1>1, <1>2, <1>3, <1>5 DEF Before, Rows, IsVersion
  <2>3. Before(r.wallet, r.version)' = Before(r.wallet, r.version)
    BY <1>1, <1>4 DEF Before, IsVersion
  <2>4. EventsLegal'
    <3>1. ASSUME NEW s \in event_store'
          PROVE  Legal(s.kind, StatusOf(Before(s.wallet, s.version)'))
      <4>1. CASE s \in event_store
        BY <2>2, <4>1 DEF LegalHistory, EventsLegal
      <4>2. CASE s = r
        BY <1>1, <2>3, <4>2
      <4>3. QED
        BY <1>3, <4>1, <4>2
    <3>2. QED
      BY <3>1 DEF EventsLegal, Before, Rows
  <2>5. QED
    BY <2>1, <2>4 DEF LegalHistory
<1>9. OutboxMirrorsStore'
  <2>1. slot[p] = r.version \div VersionStep
    BY <1>0 DEF SlotsRead, SlotRead, TxSteps
  <2>2. QED
    BY <1>0, <1>3, <2>1 DEF OutboxMirrorsStore
<1>10. QED
  BY <1>6, <1>7, <1>8, <1>9

\* A decision of another worker survives the commit: the new row is not below it.
LEMMA DecisionSurvivesCommit ==
  ASSUME IInv, NEW p \in Workers, pc[p] = "commit", NEW q \in Workers \ {p}, Decided(q),
         event_store' = event_store \cup {row[p]},
         row'[q] = row[q]
  PROVE  DecisionHolds(q)'
<1> USE DEF IInv
<1>0. PICK r, d : r = row[p] /\ d = row[q]
  OBVIOUS
<1>1. /\ d \in EventRows /\ IsVersion(d.version)
      /\ d.version # VersionStep => \E s \in Rows(d.wallet) : s.version = d.version - VersionStep
      /\ Legal(d.kind, StatusOf(Before(d.wallet, d.version)))
  BY <1>0 DEF DecisionsHold, DecisionHolds
<1>2. IsVersion(r.version) /\ \A s \in Rows(r.wallet) : IsVersion(s.version) /\ s.version < r.version
  BY <1>0, HeldRowIsNext DEF DecisionsHold, DecisionHolds, Decided, TxSteps
<1>3. r.wallet = d.wallet => d.version <= r.version
  <2>1. SUFFICES ASSUME r.wallet = d.wallet, r.version < d.version PROVE FALSE
    BY <1>1, <1>2 DEF IsVersion
  <2>2. PICK s \in Rows(r.wallet) : s.version = d.version - 2
    BY <1>1, <1>2, <2>1 DEF IsVersion
  <2>3. QED
    BY <1>1, <1>2, <2>1, <2>2 DEF IsVersion
<1>4. Rows(d.wallet) \subseteq Rows(d.wallet)'
  BY DEF Rows
<1>5. Before(d.wallet, d.version)' = Before(d.wallet, d.version)
  BY <1>0, <1>1, <1>2, <1>3 DEF Before, Rows, IsVersion
<1>6. QED
  BY <1>0, <1>1, <1>4, <1>5 DEF DecisionHolds

LEMMA CommitInv ==
  ASSUME IInv, TypeOK', NEW p \in Workers, NEW step \in {"fetch", "idle"}, pc[p] = "commit",
         Durable(p), Goto(p, step),
         row' = [row EXCEPT ![p] = None], slot' = [slot EXCEPT ![p] = 0],
         \A q \in Workers : q # p \/ step = "fetch" => request'[q] = request[q]
  PROVE  IInv'
<1> USE DEF IInv
<1>1. StoreInv'
  BY CommitStore DEF Durable
<1>2. pc'[p] = step /\ \A q \in Workers \ {p} : /\ pc'[q] = pc[q] /\ row'[q] = row[q]
                                                /\ slot'[q] = slot[q]
  BY DEF Goto, TypeOK
<1>3. RequestsHeld'
  BY <1>2 DEF RequestsHeld, RequestHeld
<1>4. DecisionsHold'
  <2>1. DecisionHolds(p)'
    BY <1>2 DEF DecisionHolds, Decided, TxSteps
  <2>2. ASSUME NEW q \in Workers \ {p} PROVE DecisionHolds(q)'
    <3>1. CASE Decided(q)
      BY <1>2, <3>1, DecisionSurvivesCommit DEF Durable
    <3>2. CASE ~Decided(q)
      BY <1>2, <3>2 DEF DecisionHolds, Decided
    <3>3. QED
      BY <3>1, <3>2
  <2>3. QED
    BY <2>1, <2>2 DEF DecisionsHold
<1>5. KeysHeld'
  <2>1. ASSUME NEW q \in Workers \ {p}, pc[q] \in TxSteps PROVE KeyHeld(q)'
    <3>1. KeyOf(q) \notin Keys(event_store) /\ KeyOf(p) # KeyOf(q) /\ KeyOf(q)' = KeyOf(q)
      BY <1>2, <2>1 DEF KeysHeld, KeyHeld, Holds, TxSteps, KeyOf
    <3>2. KeyOf(q) \notin Keys(event_store)'
      BY <3>1 DEF Durable, Keys, KeyOf
    <3>3. ASSUME NEW z \in Workers \ {q} PROVE ~Holds(z, KeyOf(q))'
      BY <1>2, <2>1, <3>1 DEF KeysHeld, KeyHeld, Holds, TxSteps, KeyOf
    <3>4. QED
      BY <3>1, <3>2, <3>3 DEF KeyHeld
  <2>2. QED
    BY <1>2, <2>1 DEF KeysHeld, KeyHeld, TxSteps
<1>6. SlotsRead'
  BY <1>2 DEF SlotsRead, SlotRead, TxSteps
<1>7. QED
  BY <1>1, <1>3, <1>4, <1>5, <1>6

LEMMA CommitStep ==
  ASSUME IInv, NEW p \in Workers, Commit(p) \/ CommitUnacknowledged(p)
  PROVE  IInv'
<1>1. /\ pc[p] = "commit" /\ Durable(p)
      /\ row' = [row EXCEPT ![p] = None] /\ slot' = [slot EXCEPT ![p] = 0]
      /\ view' = [view EXCEPT ![p] = NoView]
  BY DEF Commit, CommitUnacknowledged, Forget
<1>2. request[p] \in Requests /\ row[p] \in EventRows /\ row[p].wallet \in Wallets
  BY <1>1 DEF IInv, RequestsHeld, RequestHeld, DecisionsHold, DecisionHolds, Decided, TxSteps,
              EventRows
<1>3. OutboxRow(row[p], slot[p]) \in OutboxRowsType
  BY <1>2 DEF OutboxRow, OutboxRowsType, EventRows, IInv, TypeOK
<1>4. IsFiniteSet(event_store')
  BY <1>1, FS_AddElement DEF Durable, IInv, TypeOK
<1>5. NoView \in Views
  BY DEF NoView, Views, Statuses
<1>6. /\ event_store' \subseteq EventRows /\ outbox' \subseteq OutboxRowsType
      /\ read_model' \in [Wallets -> Views]
      /\ proj_version' \in Nat /\ proj_lock' \in Workers \cup {None, "rebuild"}
      /\ inbox' \subseteq Requests
      /\ rb_pc' \in {"idle", "select", "replay"} /\ rb_model' \in [Wallets -> Views]
      /\ rb_todo' \subseteq EventRows /\ rebuilds' \in 0 .. MaxRebuilds
  BY <1>1, <1>2, <1>3 DEF Durable, Unlock, IInv, TypeOK, rebuild
<1>7. /\ row' \in [Workers -> EventRows \cup {None}] /\ slot' \in [Workers -> Nat]
      /\ view' \in [Workers -> Views]
  BY <1>1, <1>5 DEF IInv, TypeOK
<1>8. CASE Commit(p)
  <2>1. pc' \in [Workers -> Steps] /\ request' = request /\ reply' = reply /\ Goto(p, "fetch")
    BY <1>8 DEF Commit, Goto, IInv, TypeOK, Steps
  <2>2. TypeOK'
    BY <1>4, <1>6, <1>7, <2>1 DEF IInv, TypeOK
  <2>3. QED
    BY <1>1, <2>1, <2>2, CommitInv
<1>9. CASE CommitUnacknowledged(p)
  <2>1. /\ pc' \in [Workers -> Steps] /\ request' \in [Workers -> Requests \cup {None}]
        /\ reply' \in [Requests -> Outcomes \cup {"none"}] /\ Goto(p, "idle")
        /\ \A q \in Workers \ {p} : request'[q] = request[q]
    BY <1>2, <1>9 DEF CommitUnacknowledged, Forget, Goto, IInv, TypeOK, Steps, Outcomes
  <2>2. TypeOK'
    BY <1>4, <1>6, <1>7, <2>1 DEF IInv, TypeOK
  <2>3. QED
    BY <1>1, <2>1, <2>2, CommitInv
<1>10. QED
  BY <1>8, <1>9

(***************************************************************************)
(* Steps of no worker: the rebuild, and stuttering.                        *)
(***************************************************************************)
LEMMA NoWorkerStep ==
  ASSUME IInv, TypeOK', UNCHANGED <<event_store, outbox, pc, request, row, slot>>
  PROVE  IInv'
<1> USE DEF IInv
<1>1. StoreInv'
  BY StoreUnchanged
<1>2. RequestsHeld' /\ SlotsRead'
  BY DEF RequestsHeld, RequestHeld, SlotsRead, SlotRead
<1>3. ASSUME NEW p \in Workers PROVE DecisionHolds(p)'
  <2>1. Rows(row[p].wallet)' = Rows(row[p].wallet)
    BY DEF Rows
  <2>2. Before(row[p].wallet, row[p].version)' = Before(row[p].wallet, row[p].version)
    BY <2>1 DEF Before
  <2>3. QED
    BY <2>1, <2>2 DEF DecisionsHold, DecisionHolds, Decided
<1>4. KeysHeld'
  BY DEF KeysHeld, KeyHeld, Holds, KeyOf, Keys
<1>5. DecisionsHold'
  BY <1>3 DEF DecisionsHold
<1>6. QED
  BY <1>1, <1>2, <1>4, <1>5

LEMMA RebuildStep ==
  ASSUME IInv, RebuildBegin \/ RebuildProgress \/ RebuildCrashes
  PROVE  IInv'
<1> USE DEF IInv, TypeOK, tables, local
<1>0. EmptyModel \in [Wallets -> Views]
  BY DEF EmptyModel, NoView, Views, Statuses
<1>1. CASE RebuildBegin
  <2>1. TypeOK'
    BY <1>1, MaxRebuildsAssumption DEF RebuildBegin
  <2>2. QED
    BY <1>1, <2>1, NoWorkerStep DEF RebuildBegin
<1>2. CASE RebuildSelect
  <2>1. TypeOK'
    BY <1>0, <1>2 DEF RebuildSelect
  <2>2. QED
    BY <1>2, <2>1, NoWorkerStep DEF RebuildSelect
<1>3. CASE RebuildReplay
  <2>1. PICK r \in rb_todo : /\ Accepts(rb_model[r.wallet], r)
                             /\ rb_model' = [rb_model EXCEPT ![r.wallet] = Projected(@, r)]
                             /\ rb_todo' = rb_todo \ {r}
    BY <1>3 DEF RebuildReplay
  <2>2. r \in EventRows /\ r.wallet \in Wallets
    BY DEF EventRows
  <2>3. Projected(rb_model[r.wallet], r) \in Views
    BY <2>1, <2>2, ProjectedType
  <2>4. TypeOK'
    BY <1>3, <2>1, <2>3 DEF RebuildReplay
  <2>5. QED
    BY <1>3, <2>4, NoWorkerStep DEF RebuildReplay
<1>4. CASE RebuildCommit
  <2>1. TypeOK'
    BY <1>0, <1>4 DEF RebuildCommit, RebuildOver
  <2>2. QED
    BY <1>4, <2>1, NoWorkerStep DEF RebuildCommit, RebuildOver
<1>5. CASE RebuildAborts \/ RebuildCrashes
  <2>1. TypeOK'
    BY <1>0, <1>5 DEF RebuildAborts, RebuildCrashes, RebuildOver
  <2>2. QED
    BY <1>5, <2>1, NoWorkerStep DEF RebuildAborts, RebuildCrashes, RebuildOver
<1>6. QED
  BY <1>1, <1>2, <1>3, <1>4, <1>5 DEF RebuildProgress

(***************************************************************************)
(* The invariant is inductive.                                             *)
(***************************************************************************)
LEMMA ProgressStep ==
  ASSUME IInv, NEW p \in Workers, Progress(p)
  PROVE  IInv'
<1>1. CASE Create(p)
  BY <1>1, EmitStep DEF Create
<1>2. CASE LoadAndEmit(p)
  BY <1>2, EmitStep DEF LoadAndEmit, Loads, LoadedRows, LoadedStatus
<1>3. CASE LoadMissing(p) \/ LoadRefused(p) \/ InsertConflict(p) \/ ProjectRejected(p)
           \/ FetchView(p)
  <2>1. pc[p] # "idle" /\ \E o \in Outcomes : Answer(p, o)
    BY <1>3 DEF LoadMissing, LoadRefused, InsertConflict, ProjectRejected, FetchView, Loads,
                Outcomes
  <2>2. QED
    BY <2>1, AnswerStep
<1>4. CASE LoadIdempotent(p)
  BY <1>4, LoadIdempotentStep
<1>5. CASE InsertEvent(p)
  BY <1>5, InsertEventStep
<1>6. CASE ReadSlot(p)
  BY <1>6, ReadSlotStep
<1>7. CASE InsertOutbox(p)
  BY <1>7, InsertOutboxStep
<1>8. CASE Project(p)
  BY <1>8, ProjectStep
<1>9. CASE Commit(p)
  BY <1>9, CommitStep
<1>10. QED
  BY <1>1, <1>2, <1>3, <1>4, <1>5, <1>6, <1>7, <1>8, <1>9 DEF Progress

LEMMA FailureStep ==
  ASSUME IInv, NEW p \in Workers, Failure(p)
  PROVE  IInv'
<1>1. CASE CommitUnacknowledged(p)
  BY <1>1, CommitStep
<1>2. CASE LoadFails(p) \/ TransactionFails(p) \/ FetchFails(p) \/ Crash(p)
  <2>1. pc[p] # "idle" /\ \E o \in Outcomes : Answer(p, o)
    BY <1>2 DEF LoadFails, TransactionFails, FetchFails, Crash, Loads, TxSteps, Outcomes
  <2>2. QED
    BY <2>1, AnswerStep
<1>3. QED
  BY <1>1, <1>2 DEF Failure

LEMMA Inductive == IInv /\ [Next]_vars => IInv'
<1> SUFFICES ASSUME IInv, [Next]_vars PROVE IInv'
  OBVIOUS
<1>1. ASSUME NEW p \in Workers, Arrival(p) PROVE IInv'
  BY <1>1, ReceiveStep, RefuseAmountStep DEF Arrival
<1>2. ASSUME NEW p \in Workers, Progress(p) \/ Failure(p) PROVE IInv'
  BY <1>2, ProgressStep, FailureStep
<1>3. ASSUME RebuildBegin \/ RebuildProgress \/ RebuildCrashes PROVE IInv'
  BY <1>3, RebuildStep
<1>4. CASE UNCHANGED vars
  <2>1. TypeOK'
    BY <1>4 DEF IInv, TypeOK, vars, tables, local, rebuild
  <2>2. QED
    BY <1>4, <2>1, NoWorkerStep DEF vars, tables, local
<1>5. QED
  BY <1>1, <1>2, <1>3, <1>4 DEF Next

(***************************************************************************)
(* Theorems.                                                               *)
(***************************************************************************)

\* The inductive invariant holds in every reachable state.
THEOREM Invariant == Spec => []IInv
BY InitInv, Inductive, PTL DEF Spec

\* Tables, workers and rebuild hold only values of their types.
THEOREM TypeCorrect == Spec => []TypeOK
BY Invariant, PTL DEF IInv

\* Optimistic concurrency is sound: however the loads, decisions and commits of
\* any number of workers interleave, fail or crash, no two stored events share a
\* version and every one is legal for the stream before it.
THEOREM HistoryIsLegal == Spec => []LegalHistory
<1>1. IInv => LegalHistory
  BY DEF IInv, StoreInv
<1>2. QED
  BY <1>1, Invariant, PTL

\* The outbox never loses, invents or reorders an event of a wallet.
THEOREM OutboxIsStore == Spec => []OutboxMirrorsStore
<1>1. IInv => OutboxMirrorsStore
  BY DEF IInv, StoreInv
<1>2. QED
  BY <1>1, Invariant, PTL

\* Two open transactions never append to the same wallet: both would hold the
\* version after its last one.
LEMMA OneWriterPerWallet ==
  ASSUME IInv, NEW p \in Workers, NEW q \in Workers \ {p},
         pc[p] \in TxSteps, pc[q] \in TxSteps, row[p].wallet = row[q].wallet
  PROVE  FALSE
<1>1. ASSUME NEW x \in {p, q}
      PROVE  /\ IsVersion(row[x].version)
             /\ row[x].version # 2 =>
                  \E s \in Rows(row[p].wallet) : s.version = row[x].version - 2
             /\ \A s \in Rows(row[p].wallet) :
                  IsVersion(s.version) /\ s.version < row[x].version
  BY HeldRowIsNext DEF IInv, DecisionsHold, DecisionHolds, Decided
<1>2. row[p].version = row[q].version
  BY <1>1 DEF IsVersion
<1>3. KeyOf(p) = KeyOf(q)
  BY <1>2 DEF KeyOf
<1>4. QED
  BY <1>3 DEF IInv, KeysHeld, KeyHeld, Holds

\* The unlocked MAX + 1 of the outbox never collides, so its retries never run.
THEOREM OutboxNeverCollides == Spec => []OutboxSlotFree
<1>1. ASSUME IInv, NEW p \in Workers, pc[p] \in TxSteps \ {"read_slot"},
             NEW o \in OutboxRows(row[p].wallet)
      PROVE  o.version # slot[p]
  <2>1. IsVersion(row[p].version) /\ slot[p] = row[p].version \div VersionStep
    BY <1>1 DEF IInv, DecisionsHold, DecisionHolds, Decided, SlotsRead, SlotRead
  <2>2. PICK s \in Rows(row[p].wallet) : o.version = s.version \div VersionStep
    BY <1>1 DEF IInv, StoreInv, OutboxMirrorsStore, OutboxRows, OutboxRow, Rows
  <2>3. IsVersion(s.version) /\ s.version < row[p].version
    BY <1>1, <2>1, HeldRowIsNext
  <2>4. QED
    BY <2>1, <2>2, <2>3 DEF IsVersion
<1>2. IInv => OutboxSlotFree
  BY <1>1, OneWriterPerWallet DEF OutboxSlotFree
<1>3. QED
  BY <1>2, Invariant, PTL

(***************************************************************************)
(* What an answer may be trusted for: AnswerInv, beside IInv.              *)
(***************************************************************************)

\* Steps that commit nothing keep what the store says of every request.
LEMMA StoreKept ==
  ASSUME UNCHANGED event_store
  PROVE  /\ \A c : Stored(c)' = Stored(c) /\ Succeeded(c)' = Succeeded(c)
         /\ RowsAsAsked => RowsAsAsked'
BY DEF Stored, Succeeded, Rows, RowsAsAsked

\* One worker moves and nothing is committed: what it holds and what it answers
\* are all there is to check.
LEMMA AnswerWorkerStep ==
  ASSUME IInv, AnswerInv, NEW p \in Workers, UNCHANGED event_store,
         \A q \in Workers \ {p} : /\ pc'[q] = pc[q]
                                  /\ request'[q] = request[q]
                                  /\ row'[q] = row[q],
         inbox' \subseteq inbox,
         DecisionAsAsked(p)', Served(p)',
         pc'[p] # "idle" =>
           /\ request'[p] \in Requests \ inbox'
           /\ reply'[request'[p]] = "none"
           /\ \A q \in Workers \ {p} : pc[q] # "idle" => request[q] # request'[p],
         \A c \in inbox' : reply'[c] = reply[c],
         \A q \in Workers \ {p} : pc[q] # "idle" => reply'[request[q]] = reply[request[q]],
         AnswersHold'
  PROVE  AnswerInv'
<1> USE DEF AnswerInv
<1>1. RowsAsAsked' /\ InboxUnserved'
  BY StoreKept DEF InboxUnserved
<1>2. ASSUME NEW q \in Workers \ {p} PROVE (DecisionAsAsked(q) /\ HeldOnce(q) /\ Served(q))'
  <2>1. DecisionAsAsked(q)'
    BY DEF DecisionAsAsked, Decided
  <2>2. HeldOnce(q)'
    BY DEF HeldOnce
  <2>3. Served(q)'
    BY StoreKept DEF Served, Decided
  <2>4. QED
    BY <2>1, <2>2, <2>3
<1>3. HeldOnce(p)'
  BY DEF HeldOnce
<1>4. QED
  BY <1>1, <1>2, <1>3

\* A worker goes on with the request it has.
LEMMA AnswerHeldStep ==
  ASSUME IInv, AnswerInv, NEW p \in Workers, pc[p] # "idle",
         UNCHANGED <<inbox, reply, event_store, request>>,
         \A q \in Workers \ {p} : pc'[q] = pc[q] /\ row'[q] = row[q],
         DecisionAsAsked(p)', Served(p)'
  PROVE  AnswerInv'
<1>1. AnswersHold'
  BY StoreKept DEF AnswerInv, AnswersHold
<1>2. QED
  BY <1>1, AnswerWorkerStep DEF AnswerInv, HeldOnce

LEMMA AnswerGiven ==
  ASSUME IInv, AnswerInv, NEW p \in Workers, pc[p] # "idle", NEW outcome, Answer(p, outcome),
         outcome \in Refusals => pc[p] = "load" \/ Decided(p),
         outcome = "ok" => pc[p] = "fetch"
  PROVE  AnswerInv'
<1> USE DEF AnswerInv
<1>1. /\ reply' = [reply EXCEPT ![request[p]] = outcome] /\ pc'[p] = "idle"
      /\ UNCHANGED <<inbox, event_store>>
      /\ \A q \in Workers \ {p} : /\ pc'[q] = pc[q]
                                   /\ request'[q] = request[q]
                                   /\ row'[q] = row[q]
  BY DEF Answer, Forget, Goto, tables, IInv, TypeOK
<1>2. HeldOnce(p) /\ Served(p)
  OBVIOUS
<1>3. AnswersHold'
  <2>1. ASSUME NEW c \in Requests, c = request[p]
        PROVE  /\ reply'[c] \in Refusals => ~Stored(c)
               /\ reply'[c] = "ok" => Succeeded(c)
    <3>1. reply'[c] = outcome
      BY <1>1, <2>1 DEF IInv, TypeOK
    <3>2. QED
      BY <1>2, <2>1, <3>1 DEF Served
  <2>2. ASSUME NEW c \in Requests, c # request[p]
        PROVE  /\ reply'[c] \in Refusals => ~Stored(c)
               /\ reply'[c] = "ok" => Succeeded(c)
    BY <1>1, <2>2 DEF AnswersHold, IInv, TypeOK
  <2>3. QED
    BY <1>1, <2>1, <2>2, StoreKept DEF AnswersHold
<1>4. DecisionAsAsked(p)' /\ Served(p)'
  BY <1>1 DEF DecisionAsAsked, Served, Decided, TxSteps
<1>5. \A c \in inbox' : reply'[c] = reply[c]
  BY <1>1, <1>2 DEF HeldOnce, IInv, TypeOK
<1>6. \A q \in Workers \ {p} : pc[q] # "idle" => reply'[request[q]] = reply[request[q]]
  BY <1>1, <1>2 DEF HeldOnce, IInv, TypeOK
<1>7. QED
  BY <1>1, <1>3, <1>4, <1>5, <1>6, AnswerWorkerStep

LEMMA AnswerArrivalStep ==
  ASSUME IInv, AnswerInv, NEW p \in Workers, NEW c \in Requests,
         Receive(p, c) \/ RefuseAmount(p, c)
  PROVE  AnswerInv'
<1> USE DEF AnswerInv
<1>1. CASE Receive(p, c)
  <2>1. /\ c \in inbox /\ inbox' = inbox \ {c} /\ reply' = reply /\ event_store' = event_store
        /\ request'[p] = c /\ pc'[p] = "load" /\ row' = row
        /\ \A q \in Workers \ {p} : pc'[q] = pc[q] /\ request'[q] = request[q]
    BY <1>1 DEF Receive, Goto, tables, IInv, TypeOK
  <2>2. ~Stored(c) /\ reply[c] = "none"
    BY <2>1 DEF InboxUnserved
  <2>3. DecisionAsAsked(p)' /\ Served(p)'
    BY <2>1, <2>2, StoreKept DEF DecisionAsAsked, Served, Decided, TxSteps
  <2>4. AnswersHold'
    BY <2>1, StoreKept DEF AnswersHold
  <2>5. \A q \in Workers \ {p} : pc[q] # "idle" => request[q] # c
    BY <2>1 DEF HeldOnce
  <2>6. QED
    BY <2>1, <2>2, <2>3, <2>4, <2>5, AnswerWorkerStep
<1>2. CASE RefuseAmount(p, c)
  <2>1. /\ c \in inbox /\ inbox' = inbox \ {c} /\ reply' = [reply EXCEPT ![c] = "invalid"]
        /\ pc[p] = "idle" /\ UNCHANGED <<event_store, pc, request, row>>
    BY <1>2 DEF RefuseAmount, tables, local
  <2>2. ~Stored(c)
    BY <2>1 DEF InboxUnserved
  <2>3. DecisionAsAsked(p)' /\ Served(p)'
    BY <2>1 DEF DecisionAsAsked, Served, Decided, TxSteps
  <2>4. AnswersHold'
    BY <2>1, <2>2, StoreKept DEF AnswersHold, IInv, TypeOK
  <2>5. \A q \in Workers \ {p} : pc[q] # "idle" => reply'[request[q]] = reply[request[q]]
    BY <2>1 DEF HeldOnce, IInv, TypeOK
  <2>6. \A d \in inbox' : reply'[d] = reply[d]
    BY <2>1 DEF IInv, TypeOK
  <2>7. QED
    BY <2>1, <2>3, <2>4, <2>5, <2>6, AnswerWorkerStep
<1>3. QED
  BY <1>1, <1>2

LEMMA AnswerEmitStep ==
  ASSUME IInv, AnswerInv, NEW p \in Workers, pc[p] = "load", NEW rows, Emit(p, rows)
  PROVE  AnswerInv'
<1> USE DEF AnswerInv
<1>1. AmountAccepted(request[p].type, request[p].amount)
  BY DEF IInv, RequestsHeld, RequestHeld
<1>2. PICK r : r = NewRow(request[p], LatestVersion(rows))
  OBVIOUS
<1>3. IsAskedBy(r, request[p])
  BY <1>1, <1>2 DEF IsAskedBy, NewRow
<1>4. /\ row'[p] = r /\ pc'[p] = "insert_event" /\ UNCHANGED <<inbox, reply, event_store, request>>
      /\ \A q \in Workers \ {p} : pc'[q] = pc[q] /\ row'[q] = row[q]
  BY <1>2 DEF Emit, Goto, tables, IInv, TypeOK
<1>5. DecisionAsAsked(p)' /\ Served(p)'
  BY <1>3, <1>4, StoreKept DEF DecisionAsAsked, Served
<1>6. QED
  BY <1>4, <1>5, AnswerHeldStep

\* The steps between the decision and the commit change the row's time only.
LEMMA AnswerTransactionStep ==
  ASSUME IInv, AnswerInv, NEW p \in Workers,
         InsertEvent(p) \/ ReadSlot(p) \/ InsertOutbox(p) \/ Project(p)
  PROVE  AnswerInv'
<1> USE DEF AnswerInv, IInv, TypeOK
<1>1. Decided(p) /\ IsAskedBy(row[p], request[p]) /\ ~Stored(request[p])
  BY DEF InsertEvent, ReadSlot, InsertOutbox, Project, Decided, TxSteps, DecisionAsAsked, Served
<1>2. /\ UNCHANGED <<inbox, reply, event_store, request>>
      /\ pc'[p] \in TxSteps
      /\ \A q \in Workers \ {p} : pc'[q] = pc[q] /\ row'[q] = row[q]
  BY DEF InsertEvent, ReadSlot, InsertOutbox, Project, Goto, tables, local, TxSteps
<1>3. IsAskedBy(row'[p], request[p])
  <2>1. CASE InsertEvent(p)
    <3>1. row[p] \in EventRows
      BY <1>1 DEF DecisionsHold, DecisionHolds
    <3>2. PICK r : r = [row[p] EXCEPT !.at = Cardinality(event_store) + ClockOffset[p]]
      OBVIOUS
    <3>3. row'[p] = r
      BY <2>1, <3>2 DEF InsertEvent
    <3>4. IsAskedBy(r, request[p])
      BY <1>1, <3>1, <3>2 DEF IsAskedBy, EventRows
    <3>5. QED
      BY <3>3, <3>4
  <2>2. CASE ReadSlot(p) \/ InsertOutbox(p) \/ Project(p)
    BY <1>1, <2>2 DEF ReadSlot, InsertOutbox, Project, local
  <2>3. QED
    BY <2>1, <2>2
<1>4. DecisionAsAsked(p)' /\ Served(p)'
  BY <1>1, <1>2, <1>3, StoreKept DEF DecisionAsAsked, Served, TxSteps
<1>5. QED
  BY <1>1, <1>2, <1>4, AnswerHeldStep DEF Decided, TxSteps

\* An idempotent command succeeds without an event: it is a lifecycle command, and
\* a close is idempotent only on a closed wallet.
LEMMA AnswerIdempotentStep ==
  ASSUME IInv, AnswerInv, NEW p \in Workers, LoadIdempotent(p)
  PROVE  AnswerInv'
<1> USE DEF LoadIdempotent, Loads, LoadedRows, LoadedStatus, Goto, local, tables, IInv, TypeOK
<1>1. Succeeded(request[p])
  BY DEF IsIdempotent, Succeeded, LifecycleCommands
<1>2. DecisionAsAsked(p)' /\ Served(p)'
  BY <1>1, StoreKept DEF DecisionAsAsked, Served, Decided, TxSteps
<1>3. QED
  BY <1>2, AnswerHeldStep

\* The status of a stream that grows by a later row.
LEMMA StatusGrows ==
  ASSUME NEW rows, NEW r, r.version \in Nat,
         \A s \in rows : s.version \in Nat /\ s.version < r.version
  PROVE  StatusOf(rows \cup {r}) =
           IF r.kind \in LifecycleKinds THEN StatusAfter(r.kind) ELSE StatusOf(rows)
<1>1. CASE r.kind \in LifecycleKinds
  <2>1. LifecycleRows(rows \cup {r}) = LifecycleRows(rows) \cup {r}
    BY <1>1 DEF LifecycleRows
  <2>2. IsLast(r, LifecycleRows(rows) \cup {r})
    BY DEF IsLast, LifecycleRows
  <2>3. \A s : IsLast(s, LifecycleRows(rows) \cup {r}) => s = r
    BY DEF IsLast, LifecycleRows
  <2>4. LastLifecycle(rows \cup {r}) = r
    BY <2>1, <2>2, <2>3 DEF LastLifecycle
  <2>5. QED
    BY <1>1, <2>1, <2>4 DEF StatusOf
<1>2. CASE r.kind \notin LifecycleKinds
  <2>1. LifecycleRows(rows \cup {r}) = LifecycleRows(rows)
    BY <1>2 DEF LifecycleRows
  <2>2. LastLifecycle(rows \cup {r}) = LastLifecycle(rows)
    BY <2>1, Zenon DEF LastLifecycle
  <2>3. QED
    BY <1>2, <2>1, <2>2 DEF StatusOf
<1>3. QED
  BY <1>1, <1>2

\* At its commit a decision is legal for the whole stream.
LEMMA CommitIsLegal ==
  ASSUME IInv, NEW p \in Workers, pc[p] \in TxSteps
  PROVE  /\ Before(row[p].wallet, row[p].version) = Rows(row[p].wallet)
         /\ Legal(row[p].kind, StatusOf(Rows(row[p].wallet)))
<1>1. Before(row[p].wallet, row[p].version) = Rows(row[p].wallet)
  BY HeldRowIsNext DEF Before
<1>2. Legal(row[p].kind, StatusOf(Before(row[p].wallet, row[p].version)))
  BY DEF IInv, DecisionsHold, DecisionHolds, Decided
<1>3. QED
  BY <1>1, <1>2

\* A commit keeps what success meant for every request: nothing is legal after
\* a closing, so the stream that grows is not a closed one.
LEMMA SuccessStays ==
  ASSUME IInv, NEW p \in Workers, pc[p] = "commit",
         event_store' = event_store \cup {row[p]}, NEW c, Succeeded(c)
  PROVE  Succeeded(c)'
<1>1. StatusOf(Rows(row[p].wallet)) # "closed"
  BY CommitIsLegal DEF Legal, TxSteps
<1>2. StatusOf(Rows(c.wallet)) = "closed" => Rows(c.wallet)' = Rows(c.wallet)
  BY <1>1 DEF Rows
<1>3. Stored(c) => Stored(c)'
  BY DEF Stored
<1>4. QED
  BY <1>2, <1>3 DEF Succeeded

LEMMA AnswerCommitStep ==
  ASSUME IInv, AnswerInv, NEW p \in Workers, Commit(p) \/ CommitUnacknowledged(p)
  PROVE  AnswerInv'
<1> USE DEF AnswerInv
<1>0. PICK c, r : c = request[p] /\ r = row[p]
  OBVIOUS
<1>1. /\ pc[p] = "commit" /\ event_store' = event_store \cup {r} /\ inbox' = inbox
      /\ pc'[p] \in {"fetch", "idle"}
      /\ \A q \in Workers \ {p} : /\ pc'[q] = pc[q]
                                   /\ request'[q] = request[q]
                                   /\ row'[q] = row[q]
  BY <1>0 DEF Commit, CommitUnacknowledged, Durable, Forget, Goto, IInv, TypeOK
<1>2. /\ c \in Requests \ inbox /\ reply[c] = "none" /\ IsAskedBy(r, c)
      /\ \A q \in Workers \ {p} : pc[q] # "idle" => request[q] # c
  BY <1>0, <1>1 DEF HeldOnce, DecisionAsAsked, Decided, TxSteps
<1>3. /\ reply' = [reply EXCEPT ![c] = reply'[c]]
      /\ \/ reply'[c] = "none" /\ request'[p] = c /\ pc'[p] = "fetch"
         \/ reply'[c] = "failed" /\ pc'[p] = "idle"
  BY <1>0, <1>2 DEF Commit, CommitUnacknowledged, Forget, Goto, IInv, TypeOK
<1>4. r.request = c /\ r.wallet = c.wallet
  BY <1>2 DEF IsAskedBy
<1>5. \A d : Stored(d)' <=> Stored(d) \/ d = c
  BY <1>1, <1>4 DEF Stored
<1>6. \A d : Succeeded(d) => Succeeded(d)'
  BY <1>0, <1>1, SuccessStays
<1>7. Succeeded(c)'
  <2>1. ASSUME c.type = "close" PROVE StatusOf(Rows(c.wallet)') = "closed"
    <3>1. r.kind = "closed"
      BY <1>2, <2>1 DEF IsAskedBy, EventOf
    <3>2. \A s \in Rows(r.wallet) : s.version \in Nat /\ s.version < r.version
      BY <1>0, <1>1, HeldRowIsNext DEF TxSteps, IsVersion
    <3>3. r.version \in Nat
      BY <1>0, <1>1 DEF IInv, DecisionsHold, DecisionHolds, Decided, TxSteps, IsVersion
    <3>4. Rows(c.wallet)' = Rows(r.wallet) \cup {r}
      BY <1>1, <1>4 DEF Rows
    <3>5. QED
      BY <3>1, <3>2, <3>3, <3>4, StatusGrows DEF LifecycleKinds, StatusAfter
  <2>2. QED
    BY <1>5, <2>1 DEF Succeeded
<1>8. RowsAsAsked' /\ InboxUnserved'
  BY <1>1, <1>2, <1>3, <1>4, <1>5 DEF RowsAsAsked, InboxUnserved, IInv, TypeOK
<1>9. AnswersHold'
  <2>1. ASSUME NEW d \in Requests, d # c PROVE reply'[d] = reply[d]
    BY <1>3, <2>1 DEF IInv, TypeOK
  <2>2. reply'[c] \notin Refusals \cup {"ok"}
    BY <1>3 DEF Refusals
  <2>3. QED
    BY <1>5, <1>6, <2>1, <2>2 DEF AnswersHold
<1>10. ASSUME NEW q \in Workers PROVE (DecisionAsAsked(q) /\ HeldOnce(q) /\ Served(q))'
  <2>1. CASE q = p
    BY <1>1, <1>2, <1>3, <1>7, <2>1 DEF DecisionAsAsked, HeldOnce, Served, Decided, TxSteps
  <2>2. CASE q # p
    <3>1. DecisionAsAsked(q)'
      BY <1>1, <2>2 DEF DecisionAsAsked, Decided
    <3>2. HeldOnce(q)'
      <4>1. ASSUME pc[q] # "idle"
            PROVE  /\ request[q] \in Requests \ inbox
                   /\ reply[request[q]] = "none" /\ request[q] # c
        BY <1>2, <2>2, <4>1 DEF HeldOnce
      <4>2. pc[q] # "idle" => reply'[request[q]] = "none"
        BY <1>3, <4>1 DEF IInv, TypeOK
      <4>3. ASSUME pc[q] # "idle", NEW z \in Workers \ {q}, pc'[z] # "idle"
            PROVE  request'[z] # request[q]
        <5>1. CASE z = p
          BY <1>1, <1>3, <2>2, <4>1, <4>3, <5>1
        <5>2. CASE z # p
          BY <1>1, <2>2, <4>3, <5>2 DEF HeldOnce
        <5>3. QED
          BY <5>1, <5>2
      <4>4. QED
        BY <1>1, <2>2, <4>1, <4>2, <4>3 DEF HeldOnce
    <3>3. Served(q)'
      <4>1. pc[q] # "idle" => request[q] # c
        BY <1>2, <2>2
      <4>2. QED
        BY <1>1, <1>5, <1>6, <2>2, <4>1 DEF Served, Decided, TxSteps
    <3>4. QED
      BY <3>1, <3>2, <3>3
  <2>3. QED
    BY <2>1, <2>2
<1>11. QED
  BY <1>8, <1>9, <1>10

LEMMA AnswerInit == Init => AnswerInv
BY DEF Init, AnswerInv, RowsAsAsked, InboxUnserved, AnswersHold, DecisionAsAsked, HeldOnce,
       Served, Decided, TxSteps, Stored, Refusals

LEMMA AnswerInductive == IInv /\ AnswerInv /\ [Next]_vars => AnswerInv'
<1> SUFFICES ASSUME IInv, AnswerInv, [Next]_vars PROVE AnswerInv'
  OBVIOUS
<1>1. ASSUME NEW p \in Workers, Arrival(p) PROVE AnswerInv'
  BY <1>1, AnswerArrivalStep DEF Arrival
<1>2. ASSUME NEW p \in Workers, Progress(p) PROVE AnswerInv'
  <2>1. CASE Create(p) \/ LoadAndEmit(p)
    BY <2>1, AnswerEmitStep DEF Create, LoadAndEmit, Loads
  <2>2. CASE LoadMissing(p) \/ LoadRefused(p)
    <3>1. pc[p] = "load" /\ \E o \in Refusals : Answer(p, o)
      BY <2>2 DEF LoadMissing, LoadRefused, Loads, Refusals
    <3>2. QED
      BY <3>1, AnswerGiven DEF Refusals
  <2>3. CASE InsertConflict(p) \/ ProjectRejected(p)
    <3>1. Decided(p) /\ pc[p] # "idle" /\ \E o \in Refusals : Answer(p, o)
      BY <2>3 DEF InsertConflict, ProjectRejected, Decided, TxSteps, Refusals
    <3>2. QED
      BY <3>1, AnswerGiven DEF Refusals
  <2>4. CASE FetchView(p)
    <3>1. pc[p] = "fetch" /\ (Answer(p, "no_view") \/ Answer(p, "ok"))
      BY <2>4 DEF FetchView
    <3>2. QED
      BY <3>1, AnswerGiven DEF Refusals
  <2>5. CASE LoadIdempotent(p)
    BY <2>5, AnswerIdempotentStep
  <2>6. CASE InsertEvent(p) \/ ReadSlot(p) \/ InsertOutbox(p) \/ Project(p)
    BY <2>6, AnswerTransactionStep
  <2>7. CASE Commit(p)
    BY <2>7, AnswerCommitStep
  <2>8. QED
    BY <1>2, <2>1, <2>2, <2>3, <2>4, <2>5, <2>6, <2>7 DEF Progress
<1>3. ASSUME NEW p \in Workers, Failure(p) PROVE AnswerInv'
  <2>1. CASE CommitUnacknowledged(p)
    BY <2>1, AnswerCommitStep
  <2>2. CASE LoadFails(p)
    BY <2>2, AnswerGiven DEF LoadFails, Loads
  <2>3. CASE TransactionFails(p) \/ FetchFails(p) \/ Crash(p)
    <3>1. pc[p] # "idle" /\ \E o \in {"failed", "no_view", "lost"} : Answer(p, o)
      BY <2>3 DEF TransactionFails, FetchFails, Crash, TxSteps
    <3>2. QED
      BY <3>1, AnswerGiven DEF Refusals
  <2>4. QED
    BY <1>3, <2>1, <2>2, <2>3 DEF Failure
<1>4. ASSUME RebuildBegin \/ RebuildProgress \/ RebuildCrashes \/ UNCHANGED vars
      PROVE  AnswerInv'
  <2>1. UNCHANGED <<inbox, reply, event_store, pc, request, row>>
    BY <1>4 DEF RebuildBegin, RebuildProgress, RebuildSelect, RebuildReplay, RebuildCommit,
                RebuildAborts, RebuildCrashes, RebuildOver, tables, local, vars
  <2>2. QED
    BY <2>1, StoreKept DEF AnswerInv, InboxUnserved, AnswersHold, DecisionAsAsked, HeldOnce,
                           Served, Decided
<1>5. QED
  BY <1>1, <1>2, <1>3, <1>4 DEF Next

\* Every request is served once and answered truthfully, and what success means
\* for it never stops being so.
THEOREM AnswerInvariant == Spec => []AnswerInv
BY AnswerInit, AnswerInductive, Invariant, PTL DEF Spec

\* An answer never lies about the store: a refused request, whether it was refused
\* by the amount check, the aggregate, the unique key or the projector, left no
\* event; one answered with success left one, unless it was idempotent.
THEOREM AnswersTellTheTruth == Spec => []AnswersAreTrue
<1>1. AnswerInv => AnswersAreTrue
  BY DEF AnswerInv, AnswersHold, AnswersAreTrue, Succeeded
<1>2. QED
  BY <1>1, AnswerInvariant, PTL

\* A close that was answered with success is final: whatever other workers had
\* decided before it, the wallet is closed then and in every later state.
THEOREM ClosedStaysClosed == Spec => []CloseIsFinal
<1>1. AnswerInv => CloseIsFinal
  BY DEF AnswerInv, AnswersHold, CloseIsFinal, Succeeded
<1>2. QED
  BY <1>1, AnswerInvariant, PTL
===============================================================================
