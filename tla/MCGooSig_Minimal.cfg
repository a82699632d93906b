SPECIFICATION Spec
CONSTANTS
  Byte = 3
  ModBytes = 2
  ChalBytes = 1
  EllBytes = 2
  ExpBytes = 2
  Sigs <- MCSigs
INVARIANT OneEncoding
CHECK_DEADLOCK FALSE
