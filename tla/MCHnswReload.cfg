CONSTANTS
    Count = 3
    Coord = {0, 1, 3}
    MaxLevel = 1
    M = 1
    M0 = 2
    EfConstruct = 2
    EfSearch = {1}
    TopK = {1, 3}
    L2 = TRUE
SPECIFICATION Spec
INVARIANT LoadsBack
CHECK_DEADLOCK FALSE
