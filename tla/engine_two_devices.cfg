SPECIFICATION Spec
CONSTANTS
  b = b
  a = a
  d2 = d2
  d1 = d1
  Device = {d1, d2}
  Name = {a, b}
  MaxDepth = 1
  Op = {"add", "mkdir", "remove", "rmdir"}
  Disciplined = FALSE
  MaxCmds = 3
  MaxFaults = 1
  NoHead = NoHead
  TornHead = TornHead
SYMMETRY Symmetry
INVARIANTS
  OwnSnapshotKept
  HeadCommitExists
PROPERTIES
  RefinesVaultFS
\* MaxCmds bounds the commands: after the last one the system stops.
CHECK_DEADLOCK FALSE
