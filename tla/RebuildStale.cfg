SPECIFICATION Spec
CONSTANTS
  Workers = {p1, p2}
  Wallets = {"a"}
  Users = {"alice"}
  Requests <- Overdraft
  Debug = FALSE
  ClockOffset <- Skewed
  MaxRebuilds = 2
  QuantizeExp = 4
  MaxAmount = 3
  None = None
CHECK_DEADLOCK FALSE
INVARIANTS ReadModelIsPrefix ReadModelInv
