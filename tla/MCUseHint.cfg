SPECIFICATION MCSpec
CONSTANTS
    Corners <- MCCorners
    Step = 256
    Changes <- MCChanges
    Sets <- MCSets
    Operands = {}
    Coeffs = 64
    Layouts <- MCLayouts
INVARIANT AvxUsesHints
CHECK_DEADLOCK FALSE
