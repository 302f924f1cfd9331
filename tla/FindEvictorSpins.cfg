SPECIFICATION FairSpec
CONSTANTS
  Evictors = {thread, consumer}
  Nobody = nobody
  Slots = 4
  Threshold = 25
  MaxFills = 6
PROPERTIES PassEnds
