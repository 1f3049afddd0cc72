SPECIFICATION Spec
CONSTANTS
    i1 = i1
    i2 = i2
    r1 = r1
    r2 = r2
    main = main
    dev = dev
    Item = {i1, i2}
    None = None
    Text = {t1}
    File = {f1, f2}
    Run = {1, 2}
    Repo = {r1, r2}
    Base = {main, dev}
    ReposOf <- TwoRepos
    RepoBase <- Defaults
    ProjectBase = dev
    AtFirst <- OneBranch
    MaxRows = 2
    Parts = {"sections", "events", "audit", "planning"}
    MaxInputs <- AllInputs
    Event = {1, 2}
    Task = {1, 2}
    MaxEdits = 1
    MaxReads = 1
    Topic = {1, 2}
    Sought = {1}
    PageOfAudit = 1
    MaxTrail = 4
    MaxLoads = 1
    Sprint = {1, 2}
INVARIANTS
    TypeOK
    EachItemItsOwn
    SentOnceInFull
    CreatedAsConfirmed
    ListIsCurrent
    EventsRight
    PagesRight
CHECK_DEADLOCK FALSE
