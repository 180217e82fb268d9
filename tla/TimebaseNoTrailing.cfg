SPECIFICATION ThreadSpec
CONSTANTS
  N = 3
  MaxRun = 1
  MaxSize = 9
  Configs <- NoCollection
  SaferConfigs = {}
  StoreSeqs <- MCStoreSeqs
  InitVal = 0
  Rounds = 4
INVARIANTS
  CommonTarget
