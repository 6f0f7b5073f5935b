SPECIFICATION Spec
CONSTANTS
  h1 = h1
  h2 = h2
  Handlers <- MCOneHandler
  NumRequests = 3
  MaxFrames = 3
INVARIANTS TypeOK ScopeRestored 
CHECK_DEADLOCK FALSE
