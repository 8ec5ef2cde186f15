CONSTANTS
  queue_limit = 2
  MaxPackets = 6
SPECIFICATION FairSpec
INVARIANTS InOrder TeardownSafe Bounded
PROPERTY EveryPacketHanded
