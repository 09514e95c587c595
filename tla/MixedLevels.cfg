SPECIFICATION FairSpec
CONSTANTS
  Levels <- OneThenTwo
  Cycle = 2
  ReadsPerCycle = 1
  NumNodes = 4
  MaxOps = 4
  SplitCleanup = TRUE
  Interrupts = FALSE
INVARIANTS
  TypeOK
  EveryOperationCounted
  AckedWritesStored
  CleanupCoversWrites
PROPERTIES
  Termination
  NamespacePromise
