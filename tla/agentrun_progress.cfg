SPECIFICATION ReconcilerSpec
CONSTANTS
  Runs = {"a", "b"}
  Specs <- MCSpecs
  Scenarios <- MCProgress
  Environments = {1, 2}
  RefusedIn = {2}
  Concurrent = 2
  CacheLags = TRUE
  MaxGeneration = 2
  MaxFaults = 2
  MaxPods = 2
PROPERTIES
  RunsEnd
CHECK_DEADLOCK FALSE
