SPECIFICATION Spec
CONSTANTS
  d1 = d1
  d2 = d2
  Device = {d1, d2}
  Commands = {"init", "destroy", "sync", "edit", "read"}
  Exclusive = {"destroy"}
  FaultKinds = {"call", "crash", "write"}
  MaxCmds = 5
  MaxFaults = 2
  NoFile = NoFile
  Torn = Torn
SYMMETRY Symmetry
INVARIANTS
  TypeOK
  KeysAgree
PROPERTIES
  OkMeansDone
\* MaxCmds bounds the commands: after the last one the system stops.
CHECK_DEADLOCK FALSE
