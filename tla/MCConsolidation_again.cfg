SPECIFICATION Spec
CONSTANTS
  EpisodeIds = {e1, e2, e3}
  SemanticIds = {s1, s2}
  Entities = {x}
  Runs = {nightly, admin}
  MinClusterSize = 2
  MaxReverts = 1
  MaxNamed = 2
INVARIANTS
  ReconsolidationRevises
CHECK_DEADLOCK FALSE
SYMMETRY ConsolidationSymmetry
