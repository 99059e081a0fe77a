CONSTANTS
    Id = {1, 2}
    Field = {"lang"}
    Value <- SomeValues
    Bound = {0, 1}
    MaxSize = 4
SPECIFICATION Spec
INVARIANTS JsonKeepsMeaningWithoutAny MissingNeverMatches
CHECK_DEADLOCK FALSE
