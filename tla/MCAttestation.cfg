SPECIFICATION Spec
CONSTANTS
  ppq = ppq
  tin = tin
  m1 = m1
  m2 = m2
  h1 = h1
  h2 = h2
  Provider = {ppq, tin}
  Model = {m1, m2}
  Name = {"n"}
  Host = {h1, h2}
  Canonical <- MCCanonical
  Catalog <- MCCatalog
  Eligible <- MCEligible
  ConfigRow <- MCConfigRow
  AdminRow <- MCAdminRow
  NoRow = NoRow
  NoClient = NoClient
  NoVerdict = NoVerdict
  NoJob = NoJob
  NoEvidence = NoEvidence
  NoPending = NoPending
  TTL = 2
  MaxEdits = 1
  MaxFaults = 1
INVARIANTS TypeOK FreshEvidence OnlyEligibleJudged ClientAgreesWithVerdict NoRefreshLost
PROPERTIES LiveVerdictRunsOut
