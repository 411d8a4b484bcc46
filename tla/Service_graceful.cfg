SPECIFICATION Spec
CONSTANTS
  Requests = {r1, r2}
  MaxSignals = 2
INVARIANT GracefulShutdown
CHECK_DEADLOCK FALSE
