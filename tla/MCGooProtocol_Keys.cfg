SPECIFICATION Spec
CONSTANTS
  prover = prover
  other = other
  narrow = narrow
  verifier = verifier
  Ctxs = {narrow, verifier}
  Combs <- MCCombs
  Keys <- OddKeys
  SqrtPQ <- MCSqrtPQ
  SPrimes = {sp1}
  Msgs = {m1}
  SmallPrimes <- MCSmallPrimes
  Accepts <- MCAccepts
  ModMin = 32
  ModLim = 256
  ExpLim = 64
  ChalLim = 4
  EllLim = 16
  EllDiffMax = 2
  Scalars = {5}
  Masks <- MCMasks
  Expands = {43}
  Chals = {3}
  Ells = {11}
  MaxSigns = 1
  MaxTries = 0
INVARIANTS
  TypeOK
  SearchCovers
