SPECIFICATION Spec
CONSTANTS
    User = {u1}
    LastYear = 2
    MaxDonations = 5
    Receipt = {k1, k2}
    Request = {r1, r2}
    None = None
INVARIANTS
    TypeOK
    ReceiptsListTheYear
PROPERTIES
    ReceiptsSettle
CHECK_DEADLOCK FALSE
