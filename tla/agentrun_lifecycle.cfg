SPECIFICATION ReconcilerSafety
CONSTANTS
  Runs = {"a", "b"}
  Specs <- MCSpecs
  Scenarios <- MCScenarios
  Environments = {1, 2}
  RefusedIn = {2}
  Concurrent = 2
  CacheLags = FALSE
  MaxGeneration = 2
  MaxFaults = 2
  MaxPods = 2
INVARIANTS
  AccessFollowsRun
  PodsMatchInputs
  
PROPERTIES
  ImplementsRunLifecycle
CHECK_DEADLOCK FALSE
