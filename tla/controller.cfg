SPECIFICATION ControllerSpec
CONSTANTS
  ws = ws
  pr = pr
  w1 = w1
  w2 = w2
  w3 = w3
  w4 = w4
  p1 = p1
  kw = kw
  kp = kp
  kpw = kpw
  none = none
  None = none
  o1 = o1
  o2 = o2
  o3 = o3
  Keys = {kw, kp, kpw}
  RunOf <- MCRunOf
  Frozen <- MCFrozen
  Expiring <- MCExpiring
  WorkstationKey <- MCWorkstationKey
  InitialCursor = 0
  Cursors = {0}
  RunIDs = {ws, pr}
  Snapshots = {w1, w2, w3, w4, p1}
  Rollable = {w1, w2, w3, w4}
  Persistent = {w1, w2, w3, w4}
  Unsupported = {w4}
  Deadlined = {p1}
  Owners = {o1, o2, o3}
  MaxActiveRuns = 1
  MaxRevision = 40
  MaxLive = 1
  MaxFaults = 3
  MaxCalls = 2
  Requests <- WorkRequests
  Inventories <- AllInventories
SYMMETRY Symmetry
INVARIANTS
  NothingLeftBehind
  
  
PROPERTIES
  StopsAsAsked
ACTION_CONSTRAINT SamePart
CHECK_DEADLOCK FALSE
