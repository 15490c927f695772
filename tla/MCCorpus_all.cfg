SPECIFICATION CorpusSpec
CONSTANTS
  files = files
  comments = comments
  Keys = {files, comments}
  Content <- MCContent
  MaxRetries = 3
  TransportMaxRetries = 2
  RateLimitFloor = 3
  Quota = 5
  Absent = Absent
  Corrupt = Corrupt
  MaxRuns = 2
  Documents <- MCDocuments
  EmbedWindow = 12
  SafetyMargin = 4
  MinBudget = 3
  Overlap = 2
  MinSection = 3
  RunLength = 2
  AuthorRoom = 2
  Recount <- MCRecount
  Drift = 1
  SpecialTokens = 2
INVARIANTS
  PayloadComplete
  HeadroomLasts
  NothingLost
  ChunksFitWindow
  CitationsUnique
PROPERTIES
  FetchEnds
CHECK_DEADLOCK FALSE
