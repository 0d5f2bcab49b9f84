SPECIFICATION FairSpec
CONSTANTS
  p1 = p1
  p2 = p2
  Process = {p1, p2}
  First = 1
  Last = 3
  Taken <- SomeFree
  Garbage <- Anything
  None = None
  Torn = Torn
INVARIANTS
  ServerGone
  TokenGranted
PROPERTIES
  CodeEndsLogin
  AgreedEndsLogin
\* Every process runs one command and ends.
CHECK_DEADLOCK FALSE
