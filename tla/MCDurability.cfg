SPECIFICATION FairSpec
CONSTANTS
    i1 = i1
    i2 = i2
    v1 = v1
    p1 = p1
    Id = {i1, i2}
    Vector = {v1}
    Payload = {p1}
    NoPayload = NoPayload
    NoRow = NoRow
    NoOverlay = NoOverlay
    RatioNum = 3
    RatioDen = 10
    Torn = Torn
    Ops <- MCOps
    MaxLsn = 4
    MaxSegId = 4
    MaxCrashes = 2
INVARIANTS TypeOK SegmentsAreThere DiskMirrorsMemory RecoveredViewsAreWellFormed LsnsIncrease DurableUnlessLsnReused ShowsWhatWasLogged
PROPERTY CallsEnd
