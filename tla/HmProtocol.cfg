SPECIFICATION Spec
CONSTANTS
    E = 5
    W = 6
    D = 2
    N = 3
    T = 1
    Pking = 0
    Size = 4
    Seeds = {1, 4}
    Programs <- MCPrograms
    Input <- MCInput
INVARIANTS PRGInStep QueuesRight NothingLeft
PROPERTIES ImplementsIdeal
