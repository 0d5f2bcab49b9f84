SPECIFICATION Spec
CONSTANTS
  a = a
  d1 = d1
  Device = {d1}
  Name = {a}
  MaxDepth = 1
  Op = {"add", "mkdir", "remove", "rmdir"}
  Disciplined = TRUE
  MaxCmds = 2
  MaxFaults = 0
  NoHead = NoHead
  TornHead = TornHead
SYMMETRY Symmetry
INVARIANTS
  PublishedIsUploaded
\* MaxCmds bounds the commands: after the last one the system stops.
CHECK_DEADLOCK FALSE
