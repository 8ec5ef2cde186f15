CONSTANTS
  MaxMsgs = 2
  MaxNow = 3
  Requests <- PoliteRequests
  Responses <- PoliteResponses
  BodyLimit = 4
  CatchCodes = {500}
  CatchNames = {"xhost"}
  Closings = {"tcp_closed", "tcp_reset"}
  HalfDuplex = TRUE
SPECIFICATION FairSpec
INVARIANTS TimesAddUp NoLeak AnsweredIsLogged
PROPERTIES LogsEveryExchange EveryRequestLogged
