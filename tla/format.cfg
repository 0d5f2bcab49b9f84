SPECIFICATION Spec
CONSTANTS
  Base = 4
  Hash <- HashBytes
  Names <- NameBytes
  Times = {0, 7}
  MaxEntries = 2
INVARIANTS
  RoundTrip
  CutIsRefused
\* An object is written and read once.
CHECK_DEADLOCK FALSE
