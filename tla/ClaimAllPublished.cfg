SPECIFICATION FairSpec
CONSTANTS
  Publishers = {p1}
  Events = {1, 2}
  CreatedAt <- InOrder
  Poison = {1}
  Limit = 2
  QueueSize = 2
  MaxRetries = 2
  MaxRetryCount = 3
  MaxCopies = 2
  MaxRestarts = 0
  None = None
CHECK_DEADLOCK FALSE
PROPERTY HealthyEventsSettled
