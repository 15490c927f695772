SPECIFICATION Spec
CONSTANTS
  Sessions = {s1, s2}
  Chats = {a, b, c}
  Ends = {e}
  None = None
  TurnsPerExtraction = 2
  MaxFacts = 1
  Overlap = FALSE
INVARIANTS
  TurnKeepsOneRequest
  HistoryComplete
  EvidenceKept
  TranscriptComplete
PROPERTIES
  TranscriptAppendOnly
CHECK_DEADLOCK FALSE
SYMMETRY ConversationSymmetry
