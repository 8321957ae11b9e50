SPECIFICATION FairSpec
CONSTANTS
  Publishers = {p1}
  Events = {1, 2}
  CreatedAt <- InOrder
  Poison = {}
  Limit = 2
  QueueSize = 2
  MaxRetries = 2
  MaxRetryCount = 4
  MaxCopies = 1
  MaxRestarts = 2
  None = None
CHECK_DEADLOCK FALSE
PROPERTY EveryEventSettled
