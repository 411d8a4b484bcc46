SPECIFICATION FairSpec
CONSTANTS
  Requests = {r1}
  Routes = {"registered", "unmatched"}
  Texts = {"utf8", "binary"}
  Limit = 2
  NetBuffer = 1
  DbFails = TRUE
  MaxBytes = 4
  MaxCrashes = 1
INVARIANTS AnsweredIsRecorded RegisteredFailureIsRecorded CapturedIsPrefix
PROPERTIES OnlyAHangingInsertBlocks
CHECK_DEADLOCK FALSE
