CONSTANTS
  a = a
  b = b
  t1 = t1
  Items = {a}
  Types = {t1}
  TypeOf <- OneType
  Document <- ItsOwn
  Workers = {w1, w2}
  Mortal = {}
  Producers = {p1}
  NoJob = NoJob
  Limit = 2
  MaxVersion = 2
  Matched = {a}
  NoYear = {}
  Malformed = {}
  InitialStatuses = {"pending"}
SPECIFICATION Spec
PROPERTIES RequeueSurvivesSuccess
