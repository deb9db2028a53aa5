CONSTANTS
  LastId = 2
  LastDay = 2
  Limit = 1
  MaxAborts = 1
SPECIFICATION ListingSpec
INVARIANTS LatestIsLatest
CHECK_DEADLOCK FALSE
