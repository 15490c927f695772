SPECIFICATION Spec
CONSTANTS
  Ids = {m1, m2}
  Contents = {x, y}
  None = None
  Writers = {w}
  Superseders = {s}
  Reverters = {p, q}
  MaxRevision = 2
INVARIANTS
  AtMostOneLive
