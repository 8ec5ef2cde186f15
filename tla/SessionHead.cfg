CONSTANTS
  MaxMsgs = 2
  MaxNow = 1
  Requests <- HeadRequests
  Responses <- HeadResponses
  BodyLimit = 4
  CatchCodes = {500}
  CatchNames = {"xhost"}
  Closings = {"tcp_closed", "tcp_reset"}
  HalfDuplex = TRUE
SPECIFICATION Spec
INVARIANT AnsweredIsLogged
