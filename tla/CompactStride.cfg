SPECIFICATION ThreadSpec
CONSTANTS
  N = 2
  MaxRun = 2
  MaxSize = 9
  Configs <- CompactStride
  SaferConfigs = {}
  StoreSeqs <- MCStoreSeqs
  InitVal = 0
  Rounds = 4
PROPERTIES
  ThreadsComplete
CHECK_DEADLOCK FALSE
