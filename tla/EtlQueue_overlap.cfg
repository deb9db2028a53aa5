CONSTANTS
  a = a
  b = b
  t1 = t1
  Items = {a, b}
  Types = {t1}
  TypeOf <- OneType
  Document <- ItsOwn
  Workers = {w1, w2}
  Mortal = {}
  Producers = {p1}
  NoJob = NoJob
  Limit = 2
  MaxVersion = 1
  Matched = {}
  NoYear = {}
  Malformed = {b}
  InitialStatuses = {"pending"}
SPECIFICATION Spec
INVARIANTS TypeOK ProcessingIsOwned SuccessIsMerged
