SPECIFICATION Spec
CONSTANTS
  Byte = 3
  ModBytes = 2
  ChalBytes = 1
  EllBytes = 2
  ExpBytes = 2
  Sigs <- MCSigs
INVARIANTS
  RoundTrip
  OneEncodingUnlessZero
CHECK_DEADLOCK FALSE
