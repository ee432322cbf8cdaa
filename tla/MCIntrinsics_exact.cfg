SPECIFICATION Spec
CONSTANTS
  Byte = 2
  Short = 4
  Word = 8
  Wraps = TRUE
INVARIANTS OverflowIsReported DivisionIsExact
