SPECIFICATION Spec
CONSTANTS
  Members = {m1, m2}
  None = None
  N = 3
  Poison = {}
  MaxCrashes = 0
  MaxMoves = 0
  MaxCancels = 0
  Drains = FALSE
SYMMETRY Symmetry
INVARIANT ErrorIsRedelivered
CHECK_DEADLOCK FALSE
