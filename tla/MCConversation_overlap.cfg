SPECIFICATION Spec
CONSTANTS
  Sessions = {s1}
  Chats = {a, b}
  Ends = {e, f}
  None = None
  TurnsPerExtraction = 2
  MaxFacts = 1
  Overlap = TRUE
INVARIANTS
  TurnsContiguous
  EndExtractsOnce
CHECK_DEADLOCK FALSE
SYMMETRY ConversationSymmetry
