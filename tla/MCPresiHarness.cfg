CONSTANTS
  AVAIL = 4
  N = 2
  NEXE = 2
  SCANSZ = 2
  inst <- MCinst
  role <- MCrole
  nruns = 2
  size = 1
  Settings <- MCSettings
SPECIFICATION Spec
INVARIANTS OneCrew SameIteration CommonTarget Counted
PROPERTY AllReturn
