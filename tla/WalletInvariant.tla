--------------------------- MODULE WalletInvariant ---------------------------
(***************************************************************************)
(* The inductive invariant of the command path.  LegalHistory alone is not *)
(* inductive: it says nothing of the event a worker has decided and not    *)
(* yet stored.  What makes a decision safe although other workers append   *)
(* between it and its commit is                                            *)
(*   - StreamsComplete: the versions of a wallet are 2, 4, 6, ... without  *)
(*     a gap, so no row can ever be added below a stored one;              *)
(*   - DecisionsHold: a decided row continues the stream it was decided    *)
(*     on, and was legal for it;                                           *)
(*   - KeysHeld: the key of an open transaction is its own.                *)
(* StreamsHaveLast names the last row and the last lifecycle row of a      *)
(* stream, which the replay of a stream reads.                             *)
(***************************************************************************)
EXTENDS WalletCommandPath

IsVersion(v) == v \in Nat \ {0} /\ v % VersionStep = 0

StreamsComplete ==
  \A r \in event_store :
    /\ IsVersion(r.version)
    /\ \A v \in 1 .. r.version :
         IsVersion(v) => \E s \in Rows(r.wallet) : s.version = v

HasLast(rows) == rows = {} \/ \E r \in rows : IsLast(r, rows)

StreamsHaveLast ==
  \A w \in Wallets : HasLast(Rows(w)) /\ HasLast(LifecycleRows(Rows(w)))

\* The worker has decided on an event it has not committed yet.
Decided(p) == pc[p] \in {"insert_event"} \cup TxSteps

DecisionHolds(p) ==
  Decided(p) =>
    /\ row[p] \in EventRows
    /\ IsVersion(row[p].version)
    /\ row[p].version # VersionStep =>
         \E s \in Rows(row[p].wallet) : s.version = row[p].version - VersionStep
    /\ Legal(row[p].kind, StatusOf(Before(row[p].wallet, row[p].version)))

DecisionsHold == \A p \in Workers : DecisionHolds(p)

KeyHeld(p) ==
  pc[p] \in TxSteps =>
    /\ KeyOf(p) \notin Keys(event_store)
    /\ \A q \in Workers \ {p} : ~Holds(q, KeyOf(p))

KeysHeld == \A p \in Workers : KeyHeld(p)

RequestHeld(p) ==
  pc[p] # "idle" =>
    /\ request[p] \in Requests
    /\ AmountAccepted(request[p].type, request[p].amount)

RequestsHeld == \A p \in Workers : RequestHeld(p)

\* The outbox row of a transaction has the place of its event in the stream.
SlotRead(p) ==
  pc[p] \in TxSteps \ {"read_slot"} => slot[p] = row[p].version \div VersionStep

SlotsRead == \A p \in Workers : SlotRead(p)

\* What the tables satisfy at every commit.
StoreInv == StreamsComplete /\ StreamsHaveLast /\ LegalHistory /\ OutboxMirrorsStore

\* Everything the code relies on when it trusts a loaded aggregate.
IInv ==
  /\ TypeOK
  /\ StoreInv
  /\ RequestsHeld
  /\ DecisionsHold
  /\ KeysHeld
  /\ SlotsRead

(***************************************************************************)
(* What an answer may be trusted for.  AnswersAreTrue and CloseIsFinal are *)
(* not inductive: they say nothing of the requests on their way.  The      *)
(* invariant follows a request from the inbox through one worker to its    *)
(* answer: it is nowhere twice, nothing of it is stored before its commit, *)
(* and a worker that reads the view back has succeeded, for good.          *)
(***************************************************************************)

\* The row a request asks for; its version and its time are the store's.
IsAskedBy(r, c) ==
  /\ r.request = c
  /\ r.wallet = c.wallet
  /\ r.kind = EventOf[c.type]
  /\ r.amount = EventAmount(c.type, c.amount)
  /\ r.user = IF c.type = "create" THEN c.user ELSE NoView.user
  /\ AmountAccepted(c.type, c.amount)

RowsAsAsked == \A r \in event_store : IsAskedBy(r, r.request)

DecisionAsAsked(p) == Decided(p) => IsAskedBy(row[p], request[p])

\* A request is in the inbox, or with one worker, or answered.
HeldOnce(p) ==
  pc[p] # "idle" =>
    /\ request[p] \in Requests \ inbox
    /\ reply[request[p]] = "none"
    /\ \A q \in Workers \ {p} : pc[q] # "idle" => request[q] # request[p]

InboxUnserved == \A c \in inbox : reply[c] = "none" /\ ~Stored(c)

\* What success means for a request: its event is stored, unless it was
\* idempotent, and after a close the wallet is closed.
Succeeded(c) ==
  /\ Stored(c) \/ c.type \in LifecycleCommands
  /\ c.type = "close" => StatusOf(Rows(c.wallet)) = "closed"

Served(p) ==
  /\ pc[p] = "load" \/ Decided(p) => ~Stored(request[p])
  /\ pc[p] = "fetch" => Succeeded(request[p])

AnswersHold ==
  \A c \in Requests : /\ reply[c] \in Refusals => ~Stored(c)
                      /\ reply[c] = "ok" => Succeeded(c)

AnswerInv ==
  /\ RowsAsAsked
  /\ InboxUnserved
  /\ AnswersHold
  /\ \A p \in Workers : DecisionAsAsked(p) /\ HeldOnce(p) /\ Served(p)

=============================================================================
