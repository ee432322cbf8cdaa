SPECIFICATION Spec
CONSTANTS
  Byte = 2
  Short = 4
  Word = 8
  Wraps = TRUE
  Menus <- MCMenus
INVARIANT SignIsSign
