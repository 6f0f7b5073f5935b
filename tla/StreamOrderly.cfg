SPECIFICATION FairSpec
CONSTANTS
  Ids <- MCIds
  NumRequests = 2
  WireCap = 2
  MaxChunks = 3
  MaxStream = 2
  MaxServed = 2
  MaxOpen = 2
  MayRecycle = FALSE
  MayAbort = FALSE
  MayMisbehave = TRUE
INVARIANTS TypeOK DispatchWhole
PROPERTIES OneResponse RequestSettled
CHECK_DEADLOCK FALSE
