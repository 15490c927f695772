SPECIFICATION Spec
CONSTANTS
  EpisodeIds = {e1, e2, e3, e4}
  SemanticIds = {s1, s2}
  Entities = {x}
  Runs = {nightly, admin}
  MinClusterSize = 2
  MaxReverts = 1
  MaxNamed = 1
INVARIANTS
  ClosesOwnEvidence
  EvidenceStands
  ReportNeverOverstates
CHECK_DEADLOCK FALSE
SYMMETRY ConsolidationSymmetry
