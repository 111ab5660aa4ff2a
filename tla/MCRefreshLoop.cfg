SPECIFICATION FairSpec
CONSTANTS
  ppq = ppq
  m1 = m1
  m2 = m2
  h1 = h1
  h2 = h2
  Provider = {ppq}
  Model = {m1, m2}
  Name = {"n"}
  Host = {h1, h2}
  Canonical <- MCCanonical
  Catalog <- MCCatalog
  Eligible <- MCEligible
  ConfigRow <- MCConfigRow
  AdminRow <- MCAdminRow
  NoRow = NoRow
  NoClient = NoClient
  NoVerdict = NoVerdict
  NoJob = NoJob
  NoEvidence = NoEvidence
  NoPending = NoPending
  TTL = 1
  MaxEdits = 1
  MaxFaults = 1

PROPERTIES SweepEnds EveryPairTakenUp StaleVerdictDies ImplementsRegistry
