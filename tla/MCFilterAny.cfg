CONSTANTS
    Id = {1, 2}
    Field = {"lang"}
    Value <- SomeValues
    Bound = {0, 1}
    MaxSize = 3
SPECIFICATION Spec
INVARIANT JsonKeepsMeaning
CHECK_DEADLOCK FALSE
