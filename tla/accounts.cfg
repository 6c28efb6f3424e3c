SPECIFICATION PartsSpec
CONSTANTS
  None = None
  p1 = p1
  p2 = p2
  A = A
  B = B
  enrollA = enrollA
  enrollB = enrollB
  enrollOther = enrollOther
  reconnect = reconnect
  revoke = revoke
  ask = ask
  renew = renew
  Action <- MCAction
  Target <- MCTarget
  Owner <- MCOwner
  Templates = {A, B}
  Principals = {p1, p2}
  Mutations = {enrollA, enrollB, enrollOther, reconnect, revoke, ask, renew}
  Admissions = {a1}
  Handlers = {h1}
  SwitchRequests = {r1}
  MaxAccounts = 1
  MaxOperations = 3
  MaxFaults = 2
INVARIANTS
  OneTemplate
  OnlyReservedSwitchUnloadable
  StorageIsHonest
  OperationsOnce
CHECK_DEADLOCK FALSE
