SPECIFICATION FairSpec
CONSTANTS
  HeaderBytes = 4
  RingBytes = 1
  EntryBytes = 2
  SlotBytes = 5
  Word = 64
  Plans <- MCPlans
  NoPlan = none
  Workers = {w1, w2}
INVARIANTS TypeOK LayoutFits NoUseAfterClose StatusTells
PROPERTIES Exits
