CONSTANTS
  MaxMsgs = 2
  MaxNow = 1
  Requests <- AnyRequests
  Responses <- AnyResponses
  BodyLimit = 4
  CatchCodes = {500}
  CatchNames = {"xhost"}
  Closings = {"tcp_closed", "tcp_reset", "tcp_timeout"}
  HalfDuplex = FALSE
SPECIFICATION Spec
INVARIANTS NothingUnreported HitsCoverLog BodyAccounted OwnedIsAllocated
PROPERTY BlindForever
