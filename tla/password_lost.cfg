SPECIFICATION Spec
CONSTANTS
  d1 = d1
  d2 = d2
  Device = {d1, d2}
  Commands = {"init", "edit", "read"}
  FaultKinds = {"call"}
  Exclusive = {"init", "edit", "read"}
  MaxCmds = 5
  MaxFaults = 1
  NoFile = NoFile
  Torn = Torn
INVARIANTS
  PasswordSuffices
\* MaxCmds bounds the commands: after the last one the system stops.
CHECK_DEADLOCK FALSE
