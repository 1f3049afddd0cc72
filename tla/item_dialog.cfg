SPECIFICATION Spec
CONSTANTS
    i1 = i1
    i2 = i2
    p1 = p1
    p2 = p2
    Item = {i1, i2}
    Project = {p1, p2}
    Press = {1}
    None = None
    Role = "admin"
    Kinds = {"plain", "subtask"}
    Initial <- OneBug
    MaxForeign = 1
    MaxGone = 1
    MaxInputs = 4
    MaxGets = 1
INVARIANTS
    NoLostUpdate
    RetryFindsNoConflict
PROPERTIES
    EverySaveEnds
CHECK_DEADLOCK FALSE
