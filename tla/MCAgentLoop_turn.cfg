SPECIFICATION FairSpec
CONSTANTS
  Things = {t, u}
  MaxIterations = 3
  MaxPauses = 1
  RenderLimit = 1
  MaxCalls = 1
INVARIANTS
  ToolResultsPaired
  CitedOnce
  CitationHonest
PROPERTIES
  TurnEnds
