SPECIFICATION Spec
CONSTANTS
  Labels = {"a", "b", "_1_"}
  SepLocal = {"_1_"}
  MaxUnits = 3
  MaxDepth = 3
  MaxMistakes = 1
  Names = {"x", "y"}
  MaxBlocks = 3
  Deepest = 3
  MaxRewrites = 2
  x = x
  y = y
  Identifiers <- MCIdentifiers
  Types <- MCTypes
  MaxLists = 30
  MaxLength = 2
  MaxSteps = 3
  Files = {"root", "a", "b"}
  Root = "root"
  MaxImports = 2
  Categories <- MCCategories
  KindOf <- MCKindOf
  MaxNesting = 2
  MaxTries = 3
  MaxOperators = 3
SYMMETRY IdentifiersPermuted
INVARIANTS BlocksKept ScopeExact ImportsKept HandlingKept ExpressionsKept
 
CHECK_DEADLOCK FALSE
