SPECIFICATION Spec
CONSTANTS
  prover = prover
  other = other
  narrow = narrow
  verifier = verifier
  Ctxs = {prover, verifier}
  Combs <- MCCombs
  Keys <- OneKey
  SqrtPQ <- MCSqrtPQ
  SPrimes = {sp1}
  Msgs = {m1}
  SmallPrimes <- MCSmallPrimes
  Accepts <- MCAccepts
  ModMin = 32
  ModLim = 256
  ExpLim = 64
  ChalLim = 4
  EllLim = 16
  EllDiffMax = 2
  Scalars = {5, 62}
  Masks <- MCMasks
  Expands = {43}
  Chals = {3}
  Ells = {11, 15}
  MaxSigns = 1
  MaxTries = 1
INVARIANTS
  HonestSignatureVerifies
  OneForm
  AssertionsHold
