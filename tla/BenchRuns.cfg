SPECIFICATION Spec
CONSTANTS
  Targets = {neo4j, memgraph}
  NumArgs <- TwoWorkloads
  Cold = 1
  Warmup = 1
  Iterations = 2
  MismatchCap = 1
  MismatchesShown = 1
  NumLevels = 1
  MaxRuns = 2
  MaxFaults = 2
INVARIANTS
  TypeOK
  SameQueries
  RawBacksResults
  WrongAnswersShow
  EveryTargetReported
  MeasuredIsSaved
PROPERTIES
  Publishes
