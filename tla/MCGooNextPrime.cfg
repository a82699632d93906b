SPECIFICATION Spec
CONSTANTS
  Accepted <- MCPrimes
  Starts <- MCStarts
  Maxes <- MCMaxes
INVARIANTS
  BoundedSearch
  UnboundedSearch
PROPERTIES
  SearchEnds
