SPECIFICATION Spec
CONSTANTS
  Programs <- MCRefused
  MaxBlocks = 1
  MaxDepth = 1
INVARIANTS BlockCloses
