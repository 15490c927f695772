SPECIFICATION Spec
CONSTANTS
  PRs = {p, q}
  Issues = {i}
  Docs = {d}
  None = None
  MaxChanges = 2
  MaxRuns = 2
INVARIANTS
  IndexIsOfPinnedTree
  ChildrenNotOlder
  StableItemsStored
CHECK_DEADLOCK FALSE
SYMMETRY IngestSymmetry
