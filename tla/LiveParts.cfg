CONSTANTS
  Works = {v, w}
  Runs = {r1}
  MaxKills = 1
  FirstManifest = 1
  LastManifest = 2
  FromDates = {1}
  BatchSize = 2
  MaxRows = 2
  LastKey = 4
  LastPair = 2
  Tables <- TablesOf
  Splits = {1, 3}
  MinPage = 1
  MaxPage = 2
  MaxEdits = 1
  N = 3
  Records <- SomeRecords
  RuleSets <- SomeRules
  Similar <- AlikeTitles
SPECIFICATION LivePartsSpec
INVARIANTS CompletedIsIndexed RequeuedOnceCompleted EveryRowOnce FilesAreConsecutive GroupsAreClosure
PROPERTIES ManifestOnlyWhenComplete PublishedIsHarvested ExportEnds RunEnds
CHECK_DEADLOCK FALSE
