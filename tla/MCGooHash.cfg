SPECIFICATION Spec
CONSTANTS
  BlockSize = 4
  LengthSize = 1
  PieceLens <- MCPieceLens
  MaxSize = 13
  HashSize = 2
  KeyLens <- MCKeyLens
  MessageLens <- MCMessageLens
  MaxMessage = 5
  MaxRekeys = 1
  Users = {u1, u2}
  Seeds = {s1, s2}
  NoSeed = NoSeed
  OutLen = 2
  Lens <- MCLens
  MaxCalls = 2
  MaxInits = 3
SYMMETRY MCSymmetry
CHECK_DEADLOCK FALSE
INVARIANTS
  MacIsHmac
  SameSeedSameStream
  NoByteTwice
PROPERTIES
  ImplementsHash
