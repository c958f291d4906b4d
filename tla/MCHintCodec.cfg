SPECIFICATION Spec
CONSTANTS
    N = 5
    K = 2
    OMEGA = 3
INVARIANTS TypeOK RoundTrip Canonical ComputesHintsOk
CHECK_DEADLOCK FALSE
