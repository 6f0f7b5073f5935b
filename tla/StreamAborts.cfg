SPECIFICATION FairSpec
CONSTANTS
  Ids <- MCIds
  NumRequests = 3
  WireCap = 2
  MaxChunks = 1
  MaxStream = 2
  MaxServed = 3
  MaxOpen = 2
  MayRecycle = TRUE
  MayAbort = TRUE
  MayMisbehave = FALSE
INVARIANT DispatchUnmixed
PROPERTY RequestSettled
CHECK_DEADLOCK FALSE
