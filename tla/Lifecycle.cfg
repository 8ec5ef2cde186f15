CONSTANTS
  Scenarios <- MCScenarios
  MaxPids = 7
SPECIFICATION FairSpec
INVARIANTS Exclusive StatusReachable
PROPERTIES TermStops CrashRestarts OrphansEnd
CHECK_DEADLOCK FALSE
