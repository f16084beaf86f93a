SPECIFICATION Spec
CONSTANTS
    User = {u1, u2}
    Request = {r1, r2, r3, r4}
    None = None
SYMMETRY Symmetry
INVARIANTS
    TypeOK
    SessionsLast
    NewCustomersStop
CHECK_DEADLOCK FALSE
