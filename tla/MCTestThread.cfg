SPECIFICATION ThreadSpec
CONSTANTS
  N = 3
  MaxRun = 2
  MaxSize = 9
  Configs <- MCConfigs
  SaferConfigs <- MCSafer
  StoreSeqs <- MCStoreSeqs
  InitVal = 0
  Rounds = 4
INVARIANTS
  FollowsLeader
  DriftBound
  CommonTarget
  VerdictInv
  StabilizedIsFinal
PROPERTIES
  NoTornCompare
  ThreadsComplete
