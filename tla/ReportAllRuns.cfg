SPECIFICATION Spec
CONSTANTS
  Targets = {neo4j, cognodb}
  LabTargets = {neo4j}
  Track <- TrackOf
  MaxRuns = 2
  MaxReports = 1
INVARIANTS
  AllRunsMerged
CHECK_DEADLOCK FALSE
