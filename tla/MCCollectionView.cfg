SPECIFICATION Spec
CONSTANTS
    Id = {i1, i2}
    Vector = {v1}
    Payload = {p1}
    NoPayload = NoPayload
    NoRow = NoRow
    NoOverlay = NoOverlay
    RatioNum = 3
    RatioDen = 10
    Writer = {w1, w2}
    NoWriter = NoWriter
    AutoFlushPoints = 2
    MaxSegments = 2
    MaxBatch = 3
SYMMETRY Symmetry
INVARIANTS TypeOK AtMostOneAlive CountIsLive OverfullIsBeingFlushed StagedIsCurrent UpsertLoopIsBatch DeleteLoopIsBatch PayloadLoopIsBatch CompactLoopIsMerge
PROPERTIES ImplementsPointStore CallsTakeEffect
