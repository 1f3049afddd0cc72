SPECIFICATION Spec
CONSTANTS
    b1 = b1
    i1 = i1
    i2 = i2
    t1 = t1
    t2 = t2
    NumSprints = 2
    Sprint <- MCSprint
    Board = {b1}
    BoardOf <- MCBoardOf
    Issue = {i1, i2}
    Parents = {i1, i2}
    Tx = {t1}
    Backlog = Backlog
    NewSprint = NewSprint
    NoTx = NoTx
    AnyVersion = AnyVersion
    AllowParallel = TRUE
    Ops = {"start", "complete", "cancel", "update", "add", "remove", "move", "transition"}
    Destinations = {Backlog, NewSprint, 2}
    Dispositions <- BacklogExceptions
    MaxVersion = 3
SYMMETRY IssueSymmetry
INVARIANTS
    ScopeMatchesHistory
    NoOpenWorkInClosedSprint
