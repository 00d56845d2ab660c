SPECIFICATION Spec
CONSTANTS
    P = 7
    mParties = 4
    mThreshold = 1
    Gates <- MCGates
    Inputs <- MCInputs
    Seed = 1
INVARIANT EndsRight
CHECK_DEADLOCK FALSE
