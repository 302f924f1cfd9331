SPECIFICATION Spec
CONSTANTS
  Keys = {"k1", "k2"}
  Values = {"a", "b", "c", "d"}
  NoKey = "nokey"
  NoValue = "none"
  Clients = {"c1", "c2", "c3"}
  Hash <- MCHash
  Tie <- MCTie
  Configs <- ResurrectConfigs
INVARIANTS DeletedIsGone
