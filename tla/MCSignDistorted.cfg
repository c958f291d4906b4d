SPECIFICATION Spec
CONSTANTS
    s1 = s1
    s2 = s2
    N = 2
    K = 1
    OMEGA = 1
    Seed <- One
    Rnd <- Zero
    Text <- MCText
    Context <- MCContext
    MaxLen = 2
    MsgPtr <- MCMsgPtr
    L = 1
    NonceMod = 2
    UninitLen <- Zero
    MaxCalls = 2
    MaxDamage = 1
INVARIANT DistortedIsRefused
