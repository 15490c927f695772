SPECIFICATION ReadsSpec
CONSTANTS
  Memories <- MCMemories
  Budgets = {3, 12, 20, 28, 60}
  Share <- MCShare
  PerType <- MCPerType
  Preamble <- MCPreamble
  MinYear = 2023
  MaxYear = 2025
  RrfK = 2
  ArmLimit = 3
  PullRequests <- MCPullRequests
  Issues <- MCIssues
  Commits <- MCCommits
  Releases <- MCReleases
  AreasFile <- MCAreas
  Chunks = {1, 2, 3, 4}
  Catalog <- MCCatalog
  MemoryTools <- MCMemoryTools
  SearchTools <- MCSearchTools
  Settings <- MCSettings
  Seedings <- MCSeedings
  Synthetic = {"padding"}
  Dates <- MCDates
  Calls <- MCCalls
  ToolK = 1
  TopK = 3
  Longest = 500
  None = None
INVARIANTS
  FitsBudget
  KeptInRankOrder
  AnswersExact
  BothArmsFirst
  OffersWhatItDispatches
CHECK_DEADLOCK FALSE
