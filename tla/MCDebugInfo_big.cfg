SPECIFICATION Spec
CONSTANTS
    BufSize = 16
    MaxMarks = 3
    Offset <- MCBigOffset
    Gap <- MCGap
INVARIANT ReadsBackWhatWasMarked
CHECK_DEADLOCK FALSE
