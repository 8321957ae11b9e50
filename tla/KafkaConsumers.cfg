SPECIFICATION FairSpec
CONSTANTS
  Consumers = {c1, c2}
  Events = {e1, e2, e3, e4}
  Payments = {e1}
  Malformed = {e3}
  Undecodable = {e4}
  Unnamed = {e3}
  CacheSize = 3
  MaxLog = 3
  MaxExpired = 1
  MaxErrors = 1
  None = None
  c1 = c1
  c2 = c2
  e1 = e1
  e2 = e2
  e3 = e3
  e4 = e4
CHECK_DEADLOCK FALSE
INVARIANTS TypeOK NothingSkipped DispatchedOncePerProcess
PROPERTIES CommittedNeverRewinds EveryEventAttempted
