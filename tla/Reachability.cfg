SPECIFICATION Spec
CONSTANTS
  Nodes = {1, 2, 3, 4}
  Starts = {1}
INVARIANTS
  TypeOK
  GroundTruthCorrect
  EnginesAgree
CHECK_DEADLOCK FALSE
