SPECIFICATION MCSpec
CONSTANTS
    User = {u1}
    Campaign = {c1}
    Fundraiser = {f1, f2}
    Intent = {i1, i2}
    Transfer = {t1, t2}
    Donation = {d1, d2, d3}
    GiftCard = {g1, g2}
    Delivery = {a1, a2, a3, a4}
    Amount = {1050}
    Whole = 20
    Reward = {7, 10, 30}
    MaxFaults = 1
    MaxDuplicates = 1
    MaxTries = 3
    None = None
    Unknown = Unknown
INVARIANTS
    TypeOK
    EveryDonationIsPaidFor
    NoMoreDonationsThanDeliveries
    AcknowledgedIsRecorded
    GiftCardShowsItsUse
    SplitConservesDonation
PROPERTIES
    ImplementsLedger
CHECK_DEADLOCK FALSE
