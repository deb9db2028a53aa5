CONSTANTS
  a = a
  b = b
  t1 = t1
  Items = {a, b}
  Types = {t1}
  TypeOf <- OneType
  Document <- ItsOwn
  Workers = {w1}
  Mortal = {w1}
  Producers = {p1}
  NoJob = NoJob
  Limit = 1
  MaxVersion = 1
  Matched = {a}
  NoYear = {b}
  Malformed = {}
  InitialStatuses = {"pending", "success"}
SPECIFICATION FairSpec
PROPERTIES WaitingIsServed OrphanIsRecovered
