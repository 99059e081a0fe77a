SPECIFICATION Spec
CONSTANTS
    Id = {i1}
    Vector = {v1}
    Payload = {}
    NoPayload = NoPayload
    NoRow = NoRow
    NoOverlay = NoOverlay
    RatioNum = 3
    RatioDen = 10
    Torn = Torn
    Name = {a}
    Dim = {2}
    StaleHandles = FALSE
    MaxCreates = 1
    MaxLsn = 4
    MaxSegId = 1
    MaxCrashes = 1
INVARIANT OpenSucceeds
