SPECIFICATION Spec
CONSTANTS
    n1 = n1
    n2 = n2
    n3 = n3
    Note <- MCNoteOne
    User <- MCUserOne
    Owner <- MCOwnerOne
    Runner = {r1, r2}
    AnswersLost = FALSE
    Switches = FALSE
    MaxCrashes = 0
INVARIANTS
    AtMostOnce
CHECK_DEADLOCK FALSE
