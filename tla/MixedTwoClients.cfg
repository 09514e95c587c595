SPECIFICATION FairSpec
CONSTANTS
  Levels <- JustTwo
  Cycle = 3
  ReadsPerCycle = 2
  NumNodes = 4
  MaxOps = 5
  SplitCleanup = FALSE
  Interrupts = TRUE
INVARIANTS
  ExceptionBeforeStop
  RatioWithinOneCycle
  SlicesDisjoint
PROPERTIES
  StoppedPoolUnwinds
  WindsDown
