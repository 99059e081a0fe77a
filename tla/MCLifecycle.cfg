SPECIFICATION Spec
CONSTANTS
    Id = {i1, i2}
    Vector = {v1}
    Payload = {}
    NoPayload = NoPayload
    NoRow = NoRow
    NoOverlay = NoOverlay
    RatioNum = 3
    RatioDen = 10
    Torn = Torn
    Name = {a, b}
    Dim = {2, 3}
    StaleHandles = TRUE
    MaxCreates = 2
    MaxLsn = 5
    MaxSegId = 2
    MaxCrashes = 1
INVARIANTS TypeOK OpenSucceedsUnlessExcused ShownUnlessExcused ManifestMirrorsMemory SegmentsAreOwnedOnce
SYMMETRY Symmetry
