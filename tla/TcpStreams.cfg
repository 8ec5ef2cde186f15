CONSTANTS
  c1 = c1
  c2 = c2
  o1 = o1
  o2 = o2
  Conns <- AllConns
  Service <- InService
  NoFin <- Plain
  max_stream = 2
  Traffic = {"old", "next", "fills", "ahead", "purges"}
  MaxCrashes = 1
SPECIFICATION Spec
INVARIANTS ConnCounts ClosedIsFreed TableSound
SYMMETRY Symmetry
CHECK_DEADLOCK FALSE
