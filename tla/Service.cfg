SPECIFICATION FairSpec
CONSTANTS
  Requests = {r1, r2}
  MaxSignals = 2
INVARIANTS PoolOutlivesListener NoLeakedPool CleanExitWasRequested
PROPERTIES SignalStopsProcess ServesWithoutPostgres ImplementsAcceptGate
CHECK_DEADLOCK FALSE
