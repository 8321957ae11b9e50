SPECIFICATION Spec
CONSTANTS
  Publishers = {p1, p2}
  Events = {1, 2}
  CreatedAt <- InOrder
  Poison = {2}
  Limit = 2
  QueueSize = 2
  MaxRetries = 2
  MaxRetryCount = 4
  MaxCopies = 1
  MaxRestarts = 2
  None = None
CHECK_DEADLOCK FALSE
SYMMETRY PublisherSymmetry
INVARIANTS TypeOK NothingLost
PROPERTY SettledIsFinal
