SPECIFICATION Spec
CONSTANTS
  W = 8
  IntMax = 127
  LongMax = 2047
  None = None
  MaxThreads = 16
  Jobs <- TwoCores
INVARIANT FarApart
