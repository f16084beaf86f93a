SPECIFICATION Spec
CONSTANTS
    User = {u1, u2}
    Campaign = {c1}
    Donation = {d1, d2}
    Post = {p1}
    Request = {r1, r2}
    MaxAsked = 2
    None = None
INVARIANTS
    TypeOK
    VerdictsAreTold
    AlertsReachDonors
    HookTellsDonorsOnce
SYMMETRY Symmetry
CHECK_DEADLOCK FALSE
