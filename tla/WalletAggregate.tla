--------------------------- MODULE WalletAggregate ---------------------------
(***************************************************************************)
(* The wallet aggregate as pure operators: the commands it accepts, the    *)
(* event each of them emits, and the status a stream of stored events      *)
(* gives back when the aggregate is rehydrated.                            *)
(*                                                                         *)
(* A stored event is a record with (at least) a version, a kind and an     *)
(* amount; a stream is the SET of the rows of one wallet, since the        *)
(* event_store table orders them by aggregate_version only when it reads.  *)
(* Currency, reference ids and timestamps never change a decision of the   *)
(* aggregate (its currency check compares the currency with itself) and    *)
(* are left out.                                                           *)
(***************************************************************************)
EXTENDS Integers

CreditCommands == {"deposit", "refund"}
DebitCommands == {"withdraw", "pay_with_wallet"}
MoneyCommands == CreditCommands \cup DebitCommands \cup {"adjustment"}
LifecycleCommands == {"suspend", "activate", "close"}
CommandTypes == {"create"} \cup MoneyCommands \cup LifecycleCommands

Statuses == {"none", "active", "suspended", "closed"}

(***************************************************************************)
(* Event kinds.  "none" is the status of a wallet without any event.       *)
(***************************************************************************)
LifecycleKinds == {"created", "activated", "suspended", "closed"}
CreditKinds == {"deposited", "refunded", "adjusted"}
DebitKinds == {"withdrawn", "payment_made"}
MoneyKinds == CreditKinds \cup DebitKinds
EventKinds == LifecycleKinds \cup MoneyKinds

\* The event a command emits when the aggregate accepts it.
EventOf ==
  [ create |-> "created",      deposit |-> "deposited",
    refund |-> "refunded",     withdraw |-> "withdrawn",
    pay_with_wallet |-> "payment_made",
    adjustment |-> "adjusted", suspend |-> "suspended",
    activate |-> "activated",  close |-> "closed" ]

\* The amount stored in the event: an adjustment stores its absolute value,
\* lifecycle events have none.
EventAmount(type, amount) ==
  IF type \notin MoneyCommands THEN 0
  ELSE IF type = "adjustment" /\ amount < 0 THEN -amount
  ELSE amount

\* Amount checks, made by the service and again by the aggregate.
AmountAccepted(type, amount) ==
  /\ type = "adjustment" => amount # 0
  /\ type \in CreditCommands \cup DebitCommands => amount > 0

(***************************************************************************)
(* Rehydration.  Only lifecycle events assign the status, so replaying a   *)
(* stream in version order leaves the status of its last lifecycle event.  *)
(***************************************************************************)
StatusAfter(kind) == IF kind \in {"created", "activated"} THEN "active" ELSE kind

LifecycleRows(rows) == {r \in rows : r.kind \in LifecycleKinds}

IsLast(r, rows) == r \in rows /\ \A s \in rows : s.version <= r.version

LastLifecycle(rows) == CHOOSE r \in LifecycleRows(rows) : IsLast(r, LifecycleRows(rows))

StatusOf(rows) ==
  IF LifecycleRows(rows) = {} THEN "none" ELSE StatusAfter(LastLifecycle(rows).kind)

(***************************************************************************)
(* Decisions of the aggregate in a given status.                           *)
(***************************************************************************)

\* Mutant of RaisesClosed: suspend and activate do not check for a closed wallet.
RaisesClosedForMoney(type, status) == status = "closed" /\ type \in MoneyCommands

\* Statuses in which the command raises WalletClosedError.
RaisesClosed(type, status) ==
  status = "closed" /\ type \in MoneyCommands \cup {"suspend", "activate"}

\* Statuses in which the command raises WalletSuspendedError.
RaisesSuspended(type, status) == status = "suspended" /\ type \in MoneyCommands

\* Idempotent lifecycle commands: they return without an event.
IsIdempotent(type, status) ==
  \/ type = "suspend" /\ status = "suspended"
  \/ type = "activate" /\ status = "active"
  \/ type = "close" /\ status = "closed"

Emits(type, status) ==
  /\ type # "create"
  /\ ~RaisesClosed(type, status)
  /\ ~RaisesSuspended(type, status)
  /\ ~IsIdempotent(type, status)

(***************************************************************************)
(* The event kinds that may follow a stream in a given status.             *)
(***************************************************************************)
Legal(kind, status) ==
  CASE kind = "created"   -> status = "none"
    [] kind = "activated" -> status = "suspended"
    [] kind = "suspended" -> status = "active"
    [] kind = "closed"    -> status \in {"active", "suspended"}
    [] OTHER              -> status = "active"

=============================================================================
