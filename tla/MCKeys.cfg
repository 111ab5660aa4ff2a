SPECIFICATION Spec
CONSTANTS
  Offered <- MCOffered
  Patterns <- MCPatterns
  Requests <- MCRequests
  MaxAllowed = 1
  MaxRows = 2
  ProviderPrefixes <- MCPrefixes
  Dates = {"20241022", "20250929"}
  Versions = {"v2", "v3"}
  Aliases <- MCAliases
INVARIANTS
  KeyKeepsToItsModels
  HostedElsewhereIsNotServed
PROPERTIES
  SpellingDoesNotMatter
  CopiedNameIsServed
