SPECIFICATION Spec
CONSTANTS
  prover = prover
  other = other
  narrow = narrow
  verifier = verifier
  Ctxs = {prover, other, narrow}
  Combs <- MCCombs
  Keys <- OneKey
  SqrtPQ <- MCSqrtPQ
  SPrimes = {sp1}
  Msgs = {m1}
  SmallPrimes <- RootedPrimes
  Accepts <- MCAccepts
  ModMin = 32
  ModLim = 256
  ExpLim = 64
  ChalLim = 4
  EllLim = 16
  EllDiffMax = 2
  Scalars = {5}
  Masks <- MCMasks
  Expands = {43, 60}
  Chals = {3}
  Ells = {11}
  MaxSigns = 2
  MaxTries = 0
INVARIANTS
  SignDeterministic
  OneChallenge
SYMMETRY Provers
