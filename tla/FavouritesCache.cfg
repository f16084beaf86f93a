SPECIFICATION FairSpec
CONSTANTS
    User = {u1, u2}
    Campaign = {c1}
    Request = {r1, r2, r3}
INVARIANTS
    TypeOK
    ListsAreTheUsers
PROPERTIES
    OnlyAnOldReadHidesAFavourite
    CacheCatchesUp
CHECK_DEADLOCK FALSE
