CONSTANTS
    Id = {i1, i2, i3}
    Vector = {0, 1}
    Filter <- AtOne
    Limit = {0, 2}
    Target = {0}
    TopK = {1, 2}
    MaxSegments = 2
    MaxRows = 6
    RatioNum = 3
    RatioDen = 10
SYMMETRY Symmetry
SPECIFICATION Spec
INVARIANTS TypeOK ScrollIsStable QueryReturnsTheBest
