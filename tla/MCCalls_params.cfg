CONSTANTS
  ParamTypes <- MCParamTypes
  ReturnTypes <- MCReturnTypes
  MaxStack = 16
  Faults = {}
SPECIFICATION Spec
CHECK_DEADLOCK FALSE
INVARIANTS
  AsConvention
  ApplyMeetsCallee
  ClosureMeetsCaller
  ArgumentsFit
  ResultMeets
