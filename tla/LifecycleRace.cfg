SPECIFICATION Spec
CONSTANTS
  Workers = {p1, p2}
  Wallets = {"a"}
  Users = {"alice"}
  Requests <- LifecycleRace
  Debug = TRUE
  ClockOffset <- NoSkew
  MaxRebuilds = 0
  QuantizeExp = 4
  MaxAmount = 3
  None = None
CHECK_DEADLOCK FALSE
SYMMETRY WorkerSymmetry
INVARIANTS LegalHistory OutboxMirrorsStore OutboxSlotFree CloseIsFinal IInv AnswerInv
PROPERTY AccountSpec

