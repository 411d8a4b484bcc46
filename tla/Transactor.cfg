SPECIFICATION FairSpec
CONSTANTS
  Callers = {c1, c2}
  Steps = 2
  Capacity = 1
  MaxRetries = 1
INVARIANTS FailedBodyIsUndone ReturnGivesConnectionBack
PROPERTIES ImplementsAtomicOperation TransactionEnds
CHECK_DEADLOCK FALSE
