CONSTANTS
  Scenarios <- MCDaemons
  MaxPids = 6
SPECIFICATION Spec
INVARIANT SingleInstance
CHECK_DEADLOCK FALSE
