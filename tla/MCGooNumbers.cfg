SPECIFICATION Spec
CONSTANTS
  Moduli <- MCModuli
  Nums <- MCNums
  MaxSquarings = 8
  Candidates <- MCCandidates
  Odds <- MCOdds
  TestPrimes <- MCTestPrimes
  Bases = {3, 4, 10, 57}
  Reps = 2
  LucasLimit = 12
  LastP = 11
  SquareP = 10
  Width = 16
  ByteBits = 2
  HashLen = 1
  HashOf <- MCHashOf
  Keys <- MCKeys
  MinBits = 4
  MaxBits = 11
  Slack = 2
  Messages <- MCMessages
  OaepSeeds <- MCSeeds
  Labels <- MCLabels
  Draws <- MCDraws
  Ciphertexts <- MCCiphertexts
INVARIANTS
  RoundTrip
  DecodesAsSpecified
  VeilIsExact
  RootExactly
  NoPrimeRefused
  NoCompositeAccepted
PROPERTIES
  EndsForPrimes
CHECK_DEADLOCK FALSE
