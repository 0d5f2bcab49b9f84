SPECIFICATION Spec
CONSTANTS
  Byte = {171}
  MaxLen = 200
INVARIANTS
  TypeOK
  HashesPadded
  LengthReadsBack
\* finalize ends the use of a Sha256.
CHECK_DEADLOCK FALSE
