SPECIFICATION FairSpec
CONSTANTS
  Clients = {"c1", "c2"}
  MaxCalls <- MCCalls
  MaxFaults = 1
INVARIANTS TypeOK AnswersAreOwn KilledForCause
PROPERTIES NothingHangs
