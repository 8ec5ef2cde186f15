CONSTANTS
  d1 = d1
  d2 = d2
  h1 = h1
  Datagrams = {d1, d2}
  Hosts = {h1}
  HostOf <- OneHost
  Size = 4
  CutsOf <- MixedCuts
  IPFRAG_HIGH_THRESH = 11
  IPFRAG_LOW_THRESH = 6
  IP_FRAG_TIME = 1
  Half = 4
  MaxNow = 3
  CapLens <- MCCapLens
  MaxHl = 8
  MaxPtr = 13
  Radix = 8
  MaxSum = 63
SPECIFICATION LayerSpec
INVARIANTS InputSound QueuesSound ExpiresInTime GluedIsWhole WaitsOnlyForMissing
