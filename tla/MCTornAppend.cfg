SPECIFICATION Spec
CONSTANTS
    i1 = i1
    i2 = i2
    v1 = v1
    p1 = p1
    Id = {i1, i2}
    Vector = {v1}
    Payload = {p1}
    NoPayload = NoPayload
    NoRow = NoRow
    NoOverlay = NoOverlay
    RatioNum = 3
    RatioDen = 10
    Torn = Torn
    Gone = Gone
    Ops <- MCOps
    Faults = {"frame"}
    MaxLsn = 4
    MaxSegId = 0
    MaxFaults = 2
    MaxOpens = 1
INVARIANT ShowsWhatMayBe
CHECK_DEADLOCK FALSE
