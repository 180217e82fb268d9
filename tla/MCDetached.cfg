SPECIFICATION DetachedSpec
CONSTANTS
  p1 = p1
  p2 = p2
  p3 = p3
  Procs = {p1, p2, p3}
  Rounds = 4
  MaxRun = 2
  Loop = 3
  Addrs = {a1, a2, a3}
  First <- MCFirst
  NULL = NULL
INVARIANTS
  IInv
  NoOvertaking
  NoUseAfterFree
  Delivered
PROPERTIES
  AllJoined
