SPECIFICATION Spec
CONSTANTS
  Ids = {m1, m2}
  Contents = {x, y}
  None = None
  Writers = {w, s}
  Superseders = {s}
  Reverters = {p}
  MaxRevision = 3
INVARIANTS
  AtMostOneLive
  EveryCloseAudited
PROPERTIES
  ImplementsPromise
