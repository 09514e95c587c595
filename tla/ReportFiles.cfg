SPECIFICATION Spec
CONSTANTS
  Targets = {neo4j, cognodb}
  LabTargets = {neo4j}
  Track <- TrackOf
  MaxRuns = 2
  MaxReports = 2
INVARIANTS
  TypeOK
  NewestShown
  CsvNotBehind
  ChartsMatchTables
CHECK_DEADLOCK FALSE
