SPECIFICATION Spec
CONSTANTS
    User = {u1}
    Campaign = {c1}
    Fundraiser = {f1}
    Intent = {i1}
    Transfer = {t1, t2}
    Donation = {d1}
    GiftCard = {}
    Delivery = {a1}
    Amount = {1000}
    Whole = 5
    Reward = {1}
    MaxFaults = 0
    MaxDuplicates = 0
    MaxTries = 1
    None = None
    Unknown = Unknown
INVARIANTS
    RewardGoesToOrganization
CHECK_DEADLOCK FALSE
