SPECIFICATION Spec
CONSTANTS
    ia = ia
    ib = ib
    ic = ic
    s1 = s1
    s2 = s2
    todo = todo
    doing = doing
    done = done
    left = left
    right = right
    Issue = {ia, ib, ic}
    Sprint = {s1, s2}
    Status = {todo, doing, done}
    Done = {done}
    None = None
    NoData = NoData
    Backlog = Backlog
    ListOrder <- Pages
    Order0 <- Lists
    Status0 <- AllTodo
    States0 <- OneOrTwo
    Parallel = TRUE
    Column = {left, right}
    Statuses <- TwoColumns
    Limit <- Limits
    Filters <- OneHidden
    Budgets <- Mixed
INVARIANTS
    TypeOK
    BacklogRight
    BoardRight
    DropLandsWhereShown
CHECK_DEADLOCK FALSE
