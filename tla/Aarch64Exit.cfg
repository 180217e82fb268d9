SPECIFICATION CodeSpec
CONSTANTS
  Procs = {p1, p2}
  Rounds = 1
  Archs = {"aarch64"}
INVARIANTS
  Sees
