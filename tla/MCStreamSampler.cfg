SPECIFICATION Spec
CONSTANTS
    N = 4
    Polys = 2
    Rate = 5
    MaxBlocks = 8
INVARIANT InBuffer
PROPERTY ImplementsSampling
CHECK_DEADLOCK FALSE
