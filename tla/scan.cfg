SPECIFICATION ScanSpec
CONSTANTS
  a = a
  b = b
  d1 = d1
  Device = {d1}
  Name = {a, b}
  MaxDepth = 2
  Op = {"add", "rmdir"}
  Disciplined = FALSE
  MaxCmds = 2
  MaxFaults = 1
  NoHead = NoHead
  TornHead = TornHead
  ReadOp = {"list", "tree", "cat", "quick", "deep"}
SYMMETRY Symmetry
CONSTRAINT ReadLast
INVARIANTS
  CleanMeansSound
  NoFalseAlarm
  ReadersAnswer
\* MaxCmds bounds the commands: after the last one only reads go on.
CHECK_DEADLOCK FALSE
