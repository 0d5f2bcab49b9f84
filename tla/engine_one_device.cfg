SPECIFICATION FairSpec
CONSTANTS
  b = b
  a = a
  d1 = d1
  Device = {d1}
  Name = {a, b}
  MaxDepth = 2
  Op = {"add", "mkdir", "remove", "rmdir"}
  Disciplined = TRUE
  MaxCmds = 2
  MaxFaults = 2
  NoHead = NoHead
  TornHead = TornHead
INVARIANTS
  TypeOK
  NoSharing
  SnapshotIntact
  ExactStore
  ReachIsResolvable
PROPERTIES
  RefinesVaultFS
  CommandEnds
  EventuallyComplete
\* MaxCmds bounds the commands: after the last one the system stops.
CHECK_DEADLOCK FALSE
