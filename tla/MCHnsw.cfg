CONSTANTS
    Count = 4
    Coord <- Signed
    MaxLevel = 2
    M = 1
    M0 = 2
    EfConstruct = 2
    EfSearch = {1}
    TopK = {1, 3}
    L2 = FALSE
SPECIFICATION Spec
INVARIANTS TypeOK GraphIsLayered OnlyTheEntryIsShort LoadsBackOrRefuses QueriesFillUp WideQueriesAreExact RetriesFindNothing
CHECK_DEADLOCK FALSE
