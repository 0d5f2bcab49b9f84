SPECIFICATION FairSpec
CONSTANTS
  c1 = c1
  c2 = c2
  v1 = v1
  v2 = v2
  Caller = {c1, c2}
  Value = {v1, v2}
  Missing = Missing
  MaxAttempts = 3
  RetryAfter <- Asked
  Leftover <- Anything
  MaxCalls = 2
INVARIANTS
  TypeOK
  BackedOff
PROPERTIES
  ImplementsCloudStore
  CallReturns
\* MaxCalls bounds the calls: after the last one the system stops.
CHECK_DEADLOCK FALSE
