SPECIFICATION FairSpec
CONSTANTS
  Workers = {p1, p2}
  Wallets = {"a", "b"}
  Users = {"alice"}
  Requests <- TwoWallets
  Debug = TRUE
  ClockOffset <- NoSkew
  MaxRebuilds = 1
  QuantizeExp = 4
  MaxAmount = 3
  None = None
CHECK_DEADLOCK FALSE
INVARIANTS ReadModelMatchesStore ReadModelInv LedgerSolvent
PROPERTIES AccountSpec EveryRequestAnswered
