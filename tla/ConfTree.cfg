SPECIFICATION Spec
CONSTANTS
  Paths <- MCPaths
  RemovePaths <- MCPaths
  RemoveLoaded = FALSE
  Vals = {v1, v2}
  Docs <- MCDocs
  Dashed <- MCDashed
  MaxNodes = 24
  MaxCalls = 2
  MaxLoads = 1
  NoNode = NoNode
  NoVal = NoVal
  v1 = v1
  v2 = v2
SYMMETRY ValSymmetry
CHECK_DEADLOCK FALSE
INVARIANTS TreeSound SetIsSeen LoadedAsWritten NamesUnique
