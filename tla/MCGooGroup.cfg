SPECIFICATION GroupSpec
CONSTANTS
  Elems <- MCElems
  zero = 0
  one = 1
  Times <- MCTimes
  Inputs <- MCInputs
  WindowSize = 4
  PowBits = 8
  Pow2Bits = 5
  PowExps <- MCPowExps
  Pow2Exps <- MCPow2Exps
  Pow2 <- MCPowers
  Stale = {0, 5}
  MaxPpa = 17
  BitSizes <- MCBitSizes
  MaxSizes <- MCMaxSizes
  Shapes <- MCShapes
  Exponents <- MCExponents
INVARIANTS
  EachItsOwn
  FailsOnNonUnit
  DigitsSparse
  PowerIsExact
  CostsFitArray
  CheapestThatFits
  ProductIsExact
CHECK_DEADLOCK FALSE
