SPECIFICATION FairSpec
CONSTANTS
  Requests = {r1, r2, r3}
  CacheTTL = 2
  MaxTime = 3
  MaxKeys = 2
  None = None
  r1 = r1
  r2 = r2
  r3 = r3
CHECK_DEADLOCK FALSE
INVARIANTS TypeOK KeyIsRecent
PROPERTIES NoHerd KeyNeverRegresses EveryVerificationEnds
