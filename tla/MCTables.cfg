SPECIFICATION Spec
CONSTANTS
  Vals = {0, 1, 2}
  sz = 2
  Pos <- MCPos
  Hists = {h0, h1}
  MaxOuts = 4
  HASHSZ = 3
  Keys <- MCKeys
  hash_log <- MChash_log
  OkKeys = {"k1"}
  Params = {"a", "b"}
  nexe = 2
  MaxAdds = 4
INVARIANTS
  DumpsTheBag
  SameHist
  TableIsBag
  FullWhenFull
  SumIsTotal
