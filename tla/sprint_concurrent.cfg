SPECIFICATION Spec
CONSTANTS
    b1 = b1
    i1 = i1
    i2 = i2
    t1 = t1
    t2 = t2
    NumSprints = 2
    Sprint <- MCSprint
    Board = {b1}
    BoardOf <- MCBoardOf
    Issue = {i1}
    Parents = {}
    Tx = {t1, t2}
    Backlog = Backlog
    NewSprint = NewSprint
    NoTx = NoTx
    AnyVersion = AnyVersion
    AllowParallel = FALSE
    Ops = {"start", "complete", "cancel", "add", "move", "transition"}
    Destinations = {Backlog, NewSprint}
    Dispositions <- NoExceptions
    MaxVersion = 3
SYMMETRY TxSymmetry
INVARIANTS
    OneActivePerBoard
    EndedHoldsFinished
PROPERTIES
    LifecycleFromSeenVersion
    ClosedHistoryIsFinal
    ImplementsBoard
