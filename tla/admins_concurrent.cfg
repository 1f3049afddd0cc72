SPECIFICATION Spec
CONSTANTS
    User = {u1, u2, u3}
    Tx = {t1, t2}
    Keep = Keep
    Role = {"admin", "manager"}
    NoRequest = NoRequest
    Overlapping = {}
SYMMETRY Symmetry
INVARIANTS
    AdminRemains
PROPERTIES
    ManagersSpareAdmins
