SPECIFICATION FairSpec
CONSTANTS
  ta = ta
  tb = tb
  Targets = {ta, tb}
  Configs <- AllPlatforms
  NumPapers = 3
  Citations <- WithSelfLoop
  BatchSize = 2
  DeleteLimit = 2
  Nobody = Nobody
  MaxRuns = 2
INVARIANTS
  TypeOK
  LoadedIsComplete
  LoadedIsExactElsewhere
  ListedIndexesExistElsewhere
  EveryTargetRecorded
PROPERTIES
  RecordsSurvive
  RunsEnd
