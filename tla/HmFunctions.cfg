CONSTANTS
    E = 5
    W = 6
    D = 2
    Blinds <- MCBlinds
    Rowss <- MCRowss
    Images <- MCImages
SPECIFICATION Spec
INVARIANTS ArithmeticRight TruncationClose BitsRight  LayoutRight
CHECK_DEADLOCK FALSE
