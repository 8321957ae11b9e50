SPECIFICATION PaymentsFairSpec
CONSTANTS
  Workers = {c1, c2, p1}
  Consumers = {c1, c2}
  Commands = {m1}
  Malformed = {}
  Unnamed = {}
  CacheSize = 3
  MaxPublished = 1
  MaxLost = 1
  MaxRestarts = 1
  MaxFaults = 1
  Client <- AllAlice
  Wallets = {"a"}
  Users = {"alice"}
  Requests <- OnePayment
  Debug = TRUE
  ClockOffset <- NoSkew
  MaxRebuilds = 0
  QuantizeExp = 8
  MaxAmount = 3
  None = None
  m1 = m1
  m2 = m2
CHECK_DEADLOCK FALSE
INVARIANTS TypeOK LedgerSolvent AnswersAreTrue
PROPERTIES ConsumerSpec PaymentsSettled
