SPECIFICATION Spec
CONSTANTS
    n1 = n1
    n2 = n2
    n3 = n3
    Note <- MCNote
    User <- MCUser
    Owner <- MCOwner
    Runner = {r1}
    AnswersLost = FALSE
    Switches = TRUE
    MaxCrashes = 1
INVARIANTS
    AtMostOnce
    NoSilentLoss
PROPERTIES
    ReleasedWasNotSent
    EventuallyMailed
CHECK_DEADLOCK FALSE
