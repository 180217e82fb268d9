SPECIFICATION CodeSpec
CONSTANTS
  Procs = {p1, p2, p3}
  Rounds = 2
  Archs = {"x86", "ppc", "ppc_lab", "arm", "aarch64", "mips"}
INVARIANTS
  CodeInv
  NoOvertaking
  SeesStores
PROPERTIES
  SafetySpec
  BarrierSpec
