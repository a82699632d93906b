SPECIFICATION PrngSpec
CONSTANTS
  Seeds = {s1, s2}
  WordBits = 4
  NumBits = 2
  MaxDrawn = 26
  Requests <- MCRequests
INVARIANTS
  NoReuse
  NoLoss
  InOrder
PROPERTIES
  ImplementsBitSource
