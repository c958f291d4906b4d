SPECIFICATION Spec
CONSTANTS
    s1 = s1
    s2 = s2
    N = 2
    K = 1
    OMEGA = 1
    Seed <- One
    Rnd <- TwoRnd
    Text <- LoopText
    Context <- LoopContext
    MaxLen = 1
    MsgPtr <- InPlaceOnly
    L = 2
    NonceMod = 7
    UninitLen <- Unassigned
    MaxCalls = 2
    MaxDamage = 0
INVARIANTS TypeOK FreshStreams
PROPERTY CallsReturn
