SPECIFICATION Spec
CONSTANTS
  p1 = p1
  p2 = p2
  glm = glm
  nearGlm = nearGlm
  twoDates = twoDates
  nGlm = nGlm
  nDated = nDated
  Providers <- MCProviders
  Models <- MCModels
  Names <- MCNames
  Canonical <- MCCanonical
  Pairs <- MCPairs
  Eligible <- MCEligible
  MaxMoves = 1
  MaxFaults = 1
INVARIANTS
  ListedWasServable
  OneEntryPerName
  SteadyIsListed
CHECK_DEADLOCK FALSE
