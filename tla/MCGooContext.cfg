SPECIFICATION Spec
CONSTANTS
  Apis = {a1}
  Ctxs = {c1, c2, c3}
  Bufs = {b1}
  None = None
INVARIANTS
  NothingLost
  ScratchWiped
  VerifierHoldsNoSecret
SYMMETRY Alike
