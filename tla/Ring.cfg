SPECIFICATION FairSpec
CONSTANTS
  Slots <- MCSlots
  CacheSlots <- MCCacheSlots
  Requests <- MCRequests
  Producers = {p1, p2}
  Capacity = 2
  Word = 64
  MaxCalls = 2
  TransportFaults = TRUE
INVARIANTS TypeOK RingOrder PublishedIntact AnswersAreTrue ReusedMeansExecuted
PROPERTIES ImplementsCommitService PublishedIsExecuted CallsProgress
CHECK_DEADLOCK FALSE
