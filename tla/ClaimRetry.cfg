SPECIFICATION Spec
CONSTANTS
  Consumers = {c1}
  Events = {e1, e2}
  Payments = {e1}
  Malformed = {}
  Undecodable = {}
  Unnamed = {}
  CacheSize = 3
  MaxLog = 2
  MaxExpired = 0
  MaxErrors = 0
  None = None
  c1 = c1
  e1 = e1
  e2 = e2
CHECK_DEADLOCK FALSE
INVARIANT FailedIsNotCommitted
