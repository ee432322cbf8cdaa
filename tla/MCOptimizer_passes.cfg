SPECIFICATION Spec
CONSTANTS
  x = x
  c = c
  Local = {x}
  Const = {c}
  None = None
  MaxTemp = 4
  MaxLabel = 2
  MaxLinks = 32
  Menu <- MCMenu
  Habit = {}
INVARIANTS BuiltAsAsked FlagsSound
PROPERTY PassesKeepMeaning
CHECK_DEADLOCK FALSE
