SPECIFICATION Spec
CONSTANTS
    User = {u1, u2}
    Organization = {o1}
    Collaboration = {c1}
    Account = {a1, a2}
    Request = {r1, r2}
    None = None
INVARIANTS
    AcceptedAccountWasAble
SYMMETRY Symmetry
CHECK_DEADLOCK FALSE
