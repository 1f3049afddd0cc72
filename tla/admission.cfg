SPECIFICATION Spec
CONSTANTS
    Request = {q1, q2, q3, q4}
    Outside = {o1}
    PoolSize = 3
    Threads = 1
    MaxTrips = 2
INVARIANTS
    NoPoolDeadlock
PROPERTIES
    EverySessionEnds
