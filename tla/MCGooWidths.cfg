SPECIFICATION Spec
CONSTANTS
  ContextBits <- MCContextBits
  GroupBits <- MCGroupBits
  KeyBits <- MCKeyBits
  Roundings <- MCRoundings
INVARIANTS
  WideEnough
  ArraysHold
  EqFits
CHECK_DEADLOCK FALSE
