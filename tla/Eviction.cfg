SPECIFICATION FairSpec
CONSTANTS
  Evictors = {thread}
  Nobody = nobody
  Slots = 8
  Threshold = 50
  MaxFills = 9
INVARIANTS TypeOK TargetReachable
PROPERTIES PassEnds Relieved
