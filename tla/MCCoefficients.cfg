SPECIFICATION MCSpec
CONSTANTS
    Corners <- MCCorners
    Step = 256
    Changes <- MCChanges
    Sets <- MCSets
    Operands <- MCOperands
    Coeffs = 64
    Layouts <- MCLayouts
INVARIANTS DecomposeOk AvxRounds HintRecovers RangesOk NttOk MultiplyOk OneBitStream UnpacksWhatWasPacked KeysComeBack
CHECK_DEADLOCK FALSE
