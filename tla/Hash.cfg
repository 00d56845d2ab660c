CONSTANTS
    WordBytes = 8
    Cutoff = 2
    Byte = {0, 1}
    MaxPiece = 8
    MaxMessage = 9
SPECIFICATION Spec
INVARIANTS
    DigestOfMessage
CHECK_DEADLOCK FALSE
