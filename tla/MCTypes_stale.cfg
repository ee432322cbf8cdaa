CONSTANTS
  a = a
  b = b
  c = c
  Handles <- MCPair
  FieldLists <- MCPairLists
  ParamLists <- MCPairParams
  Plain = "long"
  Offsets <- MCOffsets
  Sizes <- MCSizes
  Aligns <- MCAligns
  MaxOwned = 2
  MaxCalls = 5
  Faults = {"stale"}
SPECIFICATION Spec
CHECK_DEADLOCK FALSE
INVARIANTS
  LayoutRight
