SPECIFICATION ServicesSpec
CONSTANTS
  \* LocalRunAPI
  w = w
  p = p
  q = q
  w1 = w1
  w2 = w2
  w3 = w3
  p1 = p1
  q1 = q1
  kw = kw
  kp = kp
  kq = kq
  kpw = kpw
  kqw = kqw
  o1 = o1
  o2 = o2
  none = none
  None = none
  Keys = {kw, kp, kq, kpw, kqw}
  RunOf <- MCRunOf
  Frozen <- MCFrozen
  Expiring <- MCExpiring
  WorkstationKey <- MCWorkstationKey
  InitialCursor = 0
  RunIDs = {w, p, q}
  Snapshots = {w1, w2, w3, p1, q1}
  Rollable = {w1, w2, w3}
  Deadlined = {p1}
  Owners = {o1, o2}
  Cursors = {0, 1}
  MaxActiveRuns = 2
  MaxRevision = 12
  Requests <- AllRequests
  Inventories <- AllInventories
  \* Gateway
  GwBrowsers = {"b1", "b2"}
  GwRuns = {"x", "y", "z"}
  GwLocalRuns = {"y"}
  GwKeys = {"k1", "k2"}
  GwMaxFlows = 2
  GwMaxAge = 1
  GwLoginAge = 1
  GwHorizon = 1
  GwConfigs <- MCGwConfigs
  GwClaims <- MCGwClaims
  GwTargets <- MCGwTargets
  \* ClaimEnrichment
  EnrConfigs <- MCEnrConfigs
  EnrClaims <- MCEnrClaims
  EnrPages <- MCEnrPages
  EnrMaxItems = 2
  EnrMaxBytes = 4
  EnrMaxNodes = 3
  \* CredentialPortal
  PtlModes = {"broker", "secret", "file"}
  PtlUsers = {"u"}
  PtlWebIDs = {1}
  PtlIDs = {e1, e2}
  PtlConcurrent = 1
  PtlMaxSessions = 1
  PtlTimeout = 1
  PtlAge = 2
  PtlLeaseTerm = 1
  PtlHorizon = 1
SYMMETRY Symmetry
INVARIANTS
  TypeOK
  OnlyRevertBreaksRows
  OwnershipMatchesSnapshot
  GroupExclusive
  SessionsEarned
  RunsKeptApart
  EnrichmentSound
  EnrolmentsSettle
  LeaseFromEvaluation
PROPERTIES
  EveryChangeBumpsRevision
  TombstonesFinal
CHECK_DEADLOCK FALSE
