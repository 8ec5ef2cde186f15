CONSTANTS
  Cap = 16
  Sizes = {1, 2}
  LogBuf = 3
  Lives = 3
  MaxRecs = 7
  MaxLag = 5
  RPS_N = 3
  Minite = 2
  MaxClock = 7
  MaxHits = 3
  MaxDeaths = 1
SPECIFICATION SegSpec
INVARIANTS WriterInBounds FollowsTheLog SlotExact MonitorExact LastSecond
PROPERTY EverythingPrinted
CHECK_DEADLOCK FALSE
