SPECIFICATION Spec
CONSTANTS
  Samples = 20
  Times = {1, 2, 3}
  None = None
INVARIANTS
  NearestRank
  CallsAccountedFor
