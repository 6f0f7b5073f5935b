SPECIFICATION Spec
CONSTANTS
  Labels = {"a", "b", "_1_"}
  SepLocal = {"_1_"}
  MaxUnits = 2
  MaxDepth = 3
  MaxMistakes = 1
  EditorKinds = {"SEP", "try"}
  MaxLines = 6
  WorkspaceFiles = {"f", "g"}
  Below <- MCBelow
  SepNames = {"s"}
  Tags = {"x", "y"}
  MaxEdits = 4
  PinNames = {"GP0", "SDA", "SCL", "A6"}
  MaxProgramLines = 4
  Locals = {"x"}
  MaxStatements = 3
  MaxOpen = 2
  Seps = {"a", "b"}
INVARIANTS EditorKept BoardsKept FirmwareKept
PROPERTY WorkspaceKept
CHECK_DEADLOCK FALSE
