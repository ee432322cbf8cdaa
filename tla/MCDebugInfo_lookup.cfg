SPECIFICATION Spec
CONSTANTS
    BufSize = 16
    MaxMarks = 3
    Offset <- MCOffset
    Gap <- MCGap
INVARIANTS BufferFits LookupRight
CHECK_DEADLOCK FALSE
