SPECIFICATION Spec
CONSTANTS
    Node <- MCFewNodes
    Size = 2
    Counter <- MCCounter
    head = head
    nil = nil
    Locked = FALSE
PROPERTY PublishedIsFound
CHECK_DEADLOCK FALSE
