SPECIFICATION Spec
CONSTANTS
  Regs <- MCRegs
  GlobalRegs <- LastGlobal
  CallUsed <- CalledLast
  ValueList <- MCValues
  Constants <- MCConstants
  Temporaries <- MCTemporaries
  Counts <- MCCounts
  Forms <- BlockForms
  Arrivals <- MCArrivals
  Outgoing = {0, 1}
  MaxRegValues = 2
  MinUsed = 3
  MaxInsns = 2
  Faults = {}
INVARIANTS LoadsRight InputsReady HomeAtExit ArgumentsKept

CHECK_DEADLOCK FALSE
