SPECIFICATION Spec
CONSTANTS
  h1 = h1
  h2 = h2
  Handlers <- MCTwoHandlers
  NumRequests = 2
  MaxFrames = 1
INVARIANT ReadsOwn
SYMMETRY Symmetry
CHECK_DEADLOCK FALSE
