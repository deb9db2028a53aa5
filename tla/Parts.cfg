CONSTANTS
  l1 = l1  l2 = l2
  s1 = s1  s2 = s2
  Lines = {l1, l2}
  Contents <- Spreadsheets  Unresolved <- WithoutCountry
  Names = {n1, n2}
  Workers = {w1}
  Builds = {b1, b2}
  LookupOrder <- SourceAndFunder
  IndexNames = {x, y}
  Values <- LookupValues
  MaxDeletes = 1
  LastRecord = 2
  Metas <- SomeMetas
  SameIds = FALSE
  ChunkDocs = 2
  MaxIndex = 2
  MaxStops = 1
  LastId = 2
  LastDay = 2
  Limit = 1
  MaxAborts = 1
  Cases <- TheCases
  Configs <- TheConfigs
  MaxHits = 2
  DirectoryRows = {d1, d2}
  OldRows = {d2}
  Requests = {q1, q2}
  LastName = 2
  MaxOpened = 2
  MaxTroubles = 1
  DatedIndices = {i1, i2}
  SilverIndex = i1
  Pages = {p1, p2}
  Tasks = {t1}
  LastBasis = 2
  Importers = {m1, m2}
  ImportFiles <- TwoFiles
  Missing = ""
  MaxImports = 2
  SourceIds = {s1, s2}
  Raws <- TheRaws
  Loaders = {g1}
  LoopSize = 2
  MaxReloads = 2
  MaxCalls = 2
SPECIFICATION PartsSpec
INVARIANTS PartsTypeOK ProcessedIsIndexed AppliedReachesSilver
  CursorPassesOnlySaved ReturnedIsComplete BuildsDoNotMix SuccessIsSearchable WrittenIsPublic
  MatchesAreConfirmed DoiPrevails AuthorsAreKept IndexShowsTable DatesAreSettled OneRowPerName FieldsAreOwn
CHECK_DEADLOCK FALSE
