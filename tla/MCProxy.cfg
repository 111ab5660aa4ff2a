SPECIFICATION FairSpec
CONSTANTS
  ppq = ppq
  tin = tin
  m1 = m1
  h1 = h1
  h2 = h2
  kAny = kAny
  r1 = r1
  Provider = {ppq, tin}
  Model = {m1}
  Name = {"n"}
  Host = {h1}
  Request = {r1}
  Key = {kAny}
  Canonical <- MCCanonical
  Catalog <- MCCatalog
  Eligible <- MCEligible
  ConfigRow <- MCConfigRow
  AdminRow <- MCAdminRow
  KeyProviders <- MCKeyProviders
  KeyNames <- MCKeyNames
  Unparsable = {}
  NoRow = NoRow
  NoClient = NoClient
  NoEvidence = NoEvidence
  NoPending = NoPending
  NoRoute = NoRoute
  NoSecret = NoSecret
  NoUsage = NoUsage
  NoAsk = NoAsk
  MaxEdits = 1
  MaxFaults = 1
INVARIANTS TypeOK SealedForItsRoute UsageNamesAnswerer SentAsTheRouteDemands
PROPERTIES EveryRequestEnds NoProviderTwice NoFailoverAfterHead ImplementsGateway
