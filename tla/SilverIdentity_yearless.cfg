CONSTANTS
  LastRecord = 2
  Metas <- SomeMetas
  SameIds = FALSE
  ChunkDocs = 2
  MaxIndex = 1
  MaxStops = 0
SPECIFICATION IdentitySpec
INVARIANTS YearlessIsNoSuccess
CHECK_DEADLOCK FALSE
