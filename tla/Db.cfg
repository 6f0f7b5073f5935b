SPECIFICATION Spec
CONSTANTS
  Programs <- MCPrograms
  MaxBlocks = 2
  MaxDepth = 2
INVARIANTS TypeOK FlagAgreesUndisturbed BlockKeptUndisturbed 
