SPECIFICATION FairSpec
CONSTANTS
  Consumers = {c1, c2}
  Commands = {m1, m2}
  Malformed = {m2}
  Unnamed = {m2}
  CacheSize = 3
  MaxPublished = 2
  MaxLost = 1
  MaxRestarts = 1
  None = None
  c1 = c1
  c2 = c2
  m1 = m1
  m2 = m2
CHECK_DEADLOCK FALSE
INVARIANTS TypeOK NothingDropped ExecutedOncePerProcess ExecutionsBounded
PROPERTY EveryCommandSettled
