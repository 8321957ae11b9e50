---------------------------- MODULE WalletAccount ----------------------------
(***************************************************************************)
(* What a wallet promises its owner, without events, versions, workers or  *)
(* tables: an account that is opened once, is credited and debited one     *)
(* operation at a time while it is active, never below zero, and that is   *)
(* never reopened.  Reads and refused commands are stuttering steps.       *)
(***************************************************************************)
EXTENDS Integers

CONSTANTS Wallets, Users, Amounts

VARIABLE account    \* per wallet: its owner, status and balance

NoAccount == [user |-> "nobody", status |-> "none", balance |-> 0]

Init == account = [w \in Wallets |-> NoAccount]

Update(w, a) == account' = [account EXCEPT ![w] = a]

Open(w, u) ==
  /\ account[w].status = "none"
  /\ Update(w, [user |-> u, status |-> "active", balance |-> 0])

Credit(w, amount) ==
  /\ account[w].status = "active"
  /\ Update(w, [account[w] EXCEPT !.balance = @ + amount])

Debit(w, amount) ==
  /\ account[w].status = "active"
  /\ account[w].balance >= amount
  /\ Update(w, [account[w] EXCEPT !.balance = @ - amount])

Suspend(w) ==
  /\ account[w].status = "active"
  /\ Update(w, [account[w] EXCEPT !.status = "suspended"])

Activate(w) ==
  /\ account[w].status = "suspended"
  /\ Update(w, [account[w] EXCEPT !.status = "active"])

Close(w) ==
  /\ account[w].status \in {"active", "suspended"}
  /\ Update(w, [account[w] EXCEPT !.status = "closed"])

Next ==
  \E w \in Wallets :
    \/ \E u \in Users : Open(w, u)
    \/ \E amount \in Amounts : Credit(w, amount) \/ Debit(w, amount)
    \/ Suspend(w) \/ Activate(w) \/ Close(w)

Spec == Init /\ [][Next]_account

=============================================================================
