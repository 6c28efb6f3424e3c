SPECIFICATION ControllerFairSpec
CONSTANTS
  ws = ws
  pr = pr
  w1 = w1
  w2 = w2
  w3 = w3
  w4 = w4
  p1 = p1
  kw = kw
  kp = kp
  kpw = kpw
  none = none
  None = none
  o1 = o1
  o2 = o2
  o3 = o3
  Keys = {kw, kp, kpw}
  RunOf <- MCRunOf
  Frozen <- MCFrozen
  Expiring <- MCExpiring
  WorkstationKey <- MCWorkstationKey
  InitialCursor = 0
  Cursors = {0}
  RunIDs = {ws}
  Snapshots = {w1}
  Rollable = {w1}
  Persistent = {w1}
  Unsupported = {}
  Deadlined = {}
  Owners = {o1, o2, o3}
  MaxActiveRuns = 1
  MaxRevision = 40
  MaxLive = 1
  MaxFaults = 2
  MaxCalls = 1
  Requests <- NoRequests
  Inventories <- OneWorkstation
PROPERTIES
  RunsProgress
CHECK_DEADLOCK FALSE
