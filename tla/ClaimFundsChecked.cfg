SPECIFICATION Spec
CONSTANTS
  Workers = {p1, p2}
  Wallets = {"a"}
  Users = {"alice"}
  Requests <- Overdraft
  Debug = FALSE
  ClockOffset <- NoSkew
  MaxRebuilds = 0
  QuantizeExp = 4
  MaxAmount = 3
  None = None
CHECK_DEADLOCK FALSE
INVARIANT LedgerSolvent
