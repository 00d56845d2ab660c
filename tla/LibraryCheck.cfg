CONSTANTS
    P = 31
    H = 3
    N = 4
    K = 2
    T = 2
    Values = {0, 1, 12}
    Width = 8
    MAX_READ_SIZE = 4
    BLOCK_SIZE = 4
    Base = 2
    CachedSizes = {1, 2}
    Keys = {1, 2}
    MaxRequests = 4
SPECIFICATION LibrarySpec
INVARIANTS ParsedRight AlgebraRight ShamirRight PackedRight FreshBytes
CHECK_DEADLOCK FALSE
