SPECIFICATION MCSpec
CONSTANTS
    User = {u1}
    Campaign = {"c1"}
    Fundraiser = {f1, f2}
    Intent = {i1, i2}
    Transfer = {}
    Donation = {d1, d2, d3}
    GiftCard = {g1}
    Delivery = {a1, a2, a3, a4}
    Amount = {150}
    Whole = 2
    Reward = {1}
    Challenge = {h1}
    MCCategory = k1
    Category = {k1}
    CategoryOf <- AllOne
    Run = {r1, r2, r3}
    Terms <- OneOrTwo
    MaxTime = 0
    MaxStalls = 1
    MaxFaults = 1
    MaxDuplicates = 1
    MaxTries = 3
    None = None
    Unknown = Unknown
INVARIANTS
    RewardsAreBacked
PROPERTIES
    PaymentIsRecorded
    PaidIsRewarded
CHECK_DEADLOCK FALSE
