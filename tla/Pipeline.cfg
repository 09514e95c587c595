SPECIFICATION Spec
CONSTANTS
  Width = 2
  StartCount = 1
  Draw <- Pick
  Raws <- RawFiles
  Requests <- Arguments3
  Limits = {0, 1}
  NoFile = NoFile
  MaxPreparations = 2
  MaxLoads = 2
  MaxLost = 1
INVARIANTS
  TypeOK
  PlainEntryWins
  ManifestProvesDataset
  HashesOfGroundTruth
  NoFalseMismatch
  OkIsTrueOfDataset
CHECK_DEADLOCK FALSE
