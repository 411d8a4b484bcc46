SPECIFICATION FairSpec
CONSTANTS
  Members = {m1, m2}
  None = None
  N = 4
  Poison = {2}
  MaxCrashes = 1
  MaxMoves = 1
  MaxCancels = 1
  Drains = TRUE
INVARIANTS NoMessageSkipped PoisonBlocks
PROPERTIES EveryMessageHanded CancelStopsLoop ImplementsAtLeastOnce
CHECK_DEADLOCK FALSE
