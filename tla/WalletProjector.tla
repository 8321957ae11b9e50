--------------------------- MODULE WalletProjector ---------------------------
(***************************************************************************)
(* The projector of the wallet read model as pure operators: one row       *)
(* (view) of wallet_read_model, the events it accepts and the row they     *)
(* leave.  A wallet without a row has the view NoView.                     *)
(*                                                                         *)
(* The aggregate stores an amount as the client sent it, with any number   *)
(* of decimals; the balance has four.  The projector rounds every amount   *)
(* before it compares or adds it, so stored amounts and balances are       *)
(* counted in different units: QuantizeExp of the one make one of the      *)
(* other.                                                                  *)
(***************************************************************************)
EXTENDS WalletAggregate

CONSTANTS
  QuantizeExp,  \* the projector's _QUANTIZE_EXP, 0.0001, in units of a stored amount
  MaxAmount     \* the projector's MAX_AMOUNT, in units of a balance

ASSUME QuantizeExpAssumption == QuantizeExp \in Nat \ {0}
ASSUME MaxAmountAssumption == MaxAmount \in Nat \ {0}

NoView == [user |-> "nobody", status |-> "none", balance |-> 0]

\* Mutant of Quantize: the decimals that are too many are cut off.
QuantizeDown(amount) == amount \div QuantizeExp

\* _quantize: to the nearest unit of a balance, a tie to the even one.
Quantize(amount) ==
  LET down == amount \div QuantizeExp
      rest == amount % QuantizeExp
      up   == 2 * rest > QuantizeExp \/ (2 * rest = QuantizeExp /\ down % 2 = 1)
  IN  down + IF up THEN 1 ELSE 0

\* Mutant of Accepts: check_wallet_balance_non_negative left to the database.
AcceptsWithoutFunds(view, e) ==
  \/ e.kind = "created"
  \/ view.status # "none" /\ (e.kind \in MoneyKinds => Quantize(e.amount) <= MaxAmount)

\* The events the projector applies; any other raises and undoes its transaction.
Accepts(view, e) ==
  \/ e.kind = "created"
  \/ /\ view.status # "none"
     /\ e.kind \in MoneyKinds => Quantize(e.amount) <= MaxAmount
     /\ e.kind \in DebitKinds => view.balance >= Quantize(e.amount)

\* An amount with the sign it has in the account of its wallet.
Signed(kind, amount) ==
  CASE kind \in CreditKinds -> amount
    [] kind \in DebitKinds  -> -amount
    [] OTHER                -> 0

\* What an event stores of a wallet's money, and what it adds to the balance.
Booked(e) == Signed(e.kind, e.amount)
Delta(e) == Signed(e.kind, Quantize(e.amount))

\* The row after an accepted event; "created" resets the row (update_or_create).
Projected(view, e) ==
  IF e.kind = "created"
  THEN [user |-> e.user, status |-> "active", balance |-> 0]
  ELSE [ user    |-> view.user,
         status  |-> IF e.kind \in LifecycleKinds THEN StatusAfter(e.kind)
                     ELSE view.status,
         balance |-> view.balance + Delta(e) ]

=============================================================================
