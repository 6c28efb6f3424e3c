SPECIFICATION EgressSpec
CONSTANTS
  \* EgressRender
  RenderSpecs <- MCRenderSpecs
  RenderEnvs <- MCRenderEnvs
  MaxRestarts = 1
  \* EgressTunnels
  TunnelConns = {c1, c2, c3}
  TunnelMax = 1
  TunnelConfigs <- MCTunnelConfigs
  TunnelRequests <- MCTunnelRequests
  TunnelPrefaces <- MCTunnelPrefaces
  TunnelAnswers <- MCTunnelAnswers
  \* EgressInjection
  InjRequests = {r1, r2, r3}
  InjKeys <- MCInjKeys
  InjGranted <- MCInjKeys
  InjHeaders <- MCInjHeaders
  InjShapes <- MCInjShapes
  InjTTL = 2
  InjMargin = 1
  InjMaxCache = 1
  InjQuota = 1
  InjQueueSize = 1
  InjBatchSize = 2
  InjHorizon = 2
  \* LocalEgressCA
  CANames = {"a", "b", "c"}
  MaxCAGen = 3
  CARevises = FALSE
SYMMETRY Symmetry
INVARIANTS
  
  RenderersAgree
  TunnelsAccounted
  
  MaterialBounded
  TrafficAccounted
  CARecoverable
  OnlyRecoverySplitsTrust
PROPERTIES
  ForeignCAKept
CHECK_DEADLOCK FALSE
