SPECIFICATION Spec
CONSTANTS
  x = x
  c = c
  Local = {x}
  Const = {c}
  None = None
  MaxTemp = 4
  MaxLabel = 2
  MaxLinks = 32
  Menu <- ControlMenus
  Habit = {"code after a branch"}
PROPERTY RemovedBranchHasNoEffect
CHECK_DEADLOCK FALSE
