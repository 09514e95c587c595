SPECIFICATION Spec
CONSTANTS
  ta = ta
  tb = tb
  Targets = {ta, tb}
  Configs <- JustFalkor
  NumPapers = 2
  Citations <- WithSelfLoop
  BatchSize = 1
  DeleteLimit = 2
  Nobody = Nobody
  MaxRuns = 2
INVARIANTS
  ListedIndexesExist
