SPECIFICATION Spec
CONSTANTS
  Regs <- ShortRegs
  GlobalRegs <- ShortGlobal
  CallUsed <- ShortCalled
  ValueList <- MoreValues
  Constants <- MCConstants
  Temporaries <- NoTemporaries
  Counts <- MoreCounts
  Forms <- ShortForms
  Arrivals <- FullArrivals
  Outgoing = {}
  MaxRegValues = 2
  MinUsed = 3
  MaxInsns = 1
  Faults = {"home"}
INVARIANT InputsReady

CHECK_DEADLOCK FALSE
