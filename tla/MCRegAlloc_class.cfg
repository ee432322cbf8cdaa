SPECIFICATION Spec
CONSTANTS
  Regs <- MCRegs
  GlobalRegs <- FirstGlobal
  CallUsed <- CalledFirst
  ValueList <- MCValues
  Constants <- MCConstants
  Temporaries <- MCTemporaries
  Counts <- MCCounts
  Forms <- ClassForms
  Arrivals <- MCArrivals
  Outgoing = {0, 2}
  MaxRegValues = 2
  MinUsed = 3
  MaxInsns = 2
  Faults = {"class"}
INVARIANT LoadsRight

CHECK_DEADLOCK FALSE
