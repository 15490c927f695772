SPECIFICATION Spec
CONSTANTS
  Sessions = {s1}
  Chats = {a, b}
  Ends = {e}
  None = None
  TurnsPerExtraction = 2
  MaxFacts = 1
  Overlap = FALSE
INVARIANTS
  AnswersFollowQuestions
CHECK_DEADLOCK FALSE
SYMMETRY ConversationSymmetry
