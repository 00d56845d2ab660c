CONSTANTS
    Producers = {p1, p2}
    Groups = {{c1}, {c2, c3}}
    Peekers = {c1}
    MaxPush = 4
SPECIFICATION FairSpec
INVARIANTS
    NothingLost
    PeekStable
    ItemsAttended
PROPERTIES
    NoLostWakeup
CHECK_DEADLOCK FALSE
