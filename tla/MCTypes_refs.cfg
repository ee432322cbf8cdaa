CONSTANTS
  a = a
  b = b
  c = c
  Handles <- MCHandles
  FieldLists <- MCFieldLists
  ParamLists <- MCParamLists
  Plain = "long"
  Offsets <- MCOffsets
  Sizes <- MCSizes
  Aligns <- MCAligns
  MaxOwned = 2
  MaxCalls = 4
  Faults = {}
SPECIFICATION Spec
SYMMETRY Interchangeable
CHECK_DEADLOCK FALSE
INVARIANTS
  RefsCounted
  LayoutRight
