SPECIFICATION Spec
CONSTANTS
  n_exe = 2
  N = 2
  max_run = 2
  size_of_test = 1
  Cpus <- MCCpus
  Filled <- MCFilled
  Shuffles <- MCShuffles
  cpu_scan <- MCcpu_scan
INVARIANTS
  NoOutcomeLost
  StopTogether
  OwnProcessor
PROPERTIES
  RunReturns
