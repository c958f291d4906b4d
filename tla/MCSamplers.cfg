SPECIFICATION MCSpec
CONSTANTS
    N = 4
    V = 2
    Envs <- MCEnvs
    Shapes <- MCShapes
    CN = 5
    Tau = 3
    SRate = 4
    SignBytes = 2
    CMaxBlocks = 3
    Elems = {0, 1, 2, 3}
    Word = 2
    Words = 3
    MaxMsg = 13
    MaxGiven = 13
INVARIANTS Sampled InPolynomial RowsReady ChallengeShape FourSponges
CHECK_DEADLOCK FALSE
