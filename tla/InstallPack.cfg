SPECIFICATION Spec
CONSTANTS
  Names = {a, b, old}
  Retired = {old}
  AlwaysRetried = TRUE
  MaxReleases = 3
INVARIANT DoneIsRelease
PROPERTY OthersStay
