------------------------------- MODULE MCWallet -------------------------------
(***************************************************************************)
(* Small instances of the command path for TLC.  Each request set is       *)
(* chosen for the steps that interfere in it; ids tell equal requests      *)
(* apart.                                                                  *)
(***************************************************************************)
EXTENDS ReadModelInvariant, TLC

Ask(id, type, wallet, amount) ==
  [id |-> id, type |-> type, wallet |-> wallet, user |-> "alice", amount |-> amount]

\* Every lifecycle command and a deposit above the limit of the projector, racing a
\* creation repeated with the same wallet id.
LifecycleRace ==
  { Ask(1, "create", "a", 0),   Ask(2, "create", "a", 0),
    Ask(3, "suspend", "a", 0),  Ask(4, "activate", "a", 0),
    Ask(5, "close", "a", 0),    Ask(6, "deposit", "a", 14) }

\* Two writers of wallet a beside one of wallet b: a negative adjustment and a debit,
\* both halfway between two units of the balance, one rounded up and the other down.
TwoWallets ==
  { Ask(1, "create", "a", 0),       Ask(2, "create", "b", 0),
    Ask(3, "adjustment", "a", -6),  Ask(4, "withdraw", "a", 10) }

\* A debit that has funds only when it is replayed after the refund, and an amount the
\* service refuses.
Overdraft ==
  { Ask(1, "create", "a", 0),    Ask(2, "refund", "a", 5),
    Ask(3, "withdraw", "a", 3),  Ask(4, "withdraw", "a", 0) }

NoSkew == [p \in Workers |-> 0]

\* The clock of one worker is ahead by more than the time a run takes.
Skewed ==
  [p \in Workers |-> IF p = CHOOSE q \in Workers : TRUE THEN Cardinality(Requests) ELSE 0]

WorkerSymmetry == Permutations(Workers)
===============================================================================
