SPECIFICATION FairSpec
CONSTANTS
  Sessions <- MCSessions
  RecvWr <- MCRecvWr
  MaxRequests <- MCRequests
  MaxFaults = 1
INVARIANTS TypeOK OwnAnswer InOrder
PROPERTIES EndsOnlyForCause Answered
CHECK_DEADLOCK FALSE
