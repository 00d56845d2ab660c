CONSTANTS
    N = 4
    Me = 0
    ClaimedIds = {0, 1, 2, 3, 4}
SPECIFICATION BSpec
INVARIANTS
    ListsRight
    SetupRight
PROPERTIES
    Ends
    EveryoneConnects
CHECK_DEADLOCK FALSE
