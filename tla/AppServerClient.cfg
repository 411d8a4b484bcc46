SPECIFICATION FairClientSpec
CONSTANT MaySignal = TRUE
INVARIANT NoServerLeft
PROPERTY Ends
CHECK_DEADLOCK FALSE
