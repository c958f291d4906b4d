SPECIFICATION MCSpec
CONSTANTS
    BlockLen = 3
    Limit = 12
    CtrMod = 4
    Requests <- MCRequests
    DBlock = 3
    Base = 2
    VLen = 3
    Seeds = {"seed"}
    Lengths = {0, 2, 3, 4, 9}
    MaxCalls = 2
    Count = 11
INVARIANTS IsKeyStream WithinMaxlen DrbgStream RespondsToRequests
CHECK_DEADLOCK FALSE
