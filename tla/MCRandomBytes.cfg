SPECIFICATION Spec
CONSTANTS
    t1 = t1
    t2 = t2
    t3 = t3
    Thread <- MCThread
    Environment <- MCEnvironment
    MaxOpen = 4
INVARIANTS FillsTheBuffer AbortHasCause DescriptorsBounded
PROPERTY CallsEnd
CHECK_DEADLOCK FALSE
