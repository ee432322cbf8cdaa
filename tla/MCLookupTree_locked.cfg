SPECIFICATION Spec
CONSTANTS
    Node <- MCNode
    Size = 2
    Counter <- MCCounter
    head = head
    nil = nil
    Locked = TRUE
INVARIANTS HoldsPublished RedBlack
PROPERTIES IndexSpec
CHECK_DEADLOCK FALSE
