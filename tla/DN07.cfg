SPECIFICATION Spec
CONSTANTS
    P = 7
    mParties = 5
    mThreshold = 2
    Gates <- MCGates
    Inputs <- MCInputs
    Seed = 1
INVARIANTS SharesRight EndsRight
CHECK_DEADLOCK FALSE
