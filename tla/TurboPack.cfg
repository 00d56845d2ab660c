SPECIFICATION Spec
CONSTANTS
    P = 7
    mParties = 5
    mBatchSize = 2
    mThreshold = 2
    Gates <- MCGates
    InputVectors <- MCInputVectors
    Seeds = {1}
INVARIANTS
    PreprocessingRight
    MuMasks
    EndsRight
CHECK_DEADLOCK FALSE
