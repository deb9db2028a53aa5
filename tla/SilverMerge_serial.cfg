CONSTANTS
  a = a
  b = b
  d1 = d1
  t1 = t1
  Items = {a, b}
  Types = {t1}
  TypeOf <- OneType
  Document <- Shared
  Workers = {w1}
  Mortal = {w1}
  Producers = {p1}
  NoJob = NoJob
  MaxWork = 2
  Limit = 2
  MaxVersion = 2
  Matched = {a, b}
  NoYear = {}
  Malformed = {}
  InitialStatuses = {"pending"}
SPECIFICATION MergeSpec
INVARIANTS SuccessIsFresh StaleMergeIsDue
PROPERTIES KeepsPromise RemovedOnlyAfterMerge
CONSTRAINTS FewVersions NoIdleCalls
