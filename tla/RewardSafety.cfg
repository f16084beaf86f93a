SPECIFICATION MCSpec
CONSTANTS
    User = {u1}
    Challenge = {c1}
    Donation = {d1, d2}
    Category = {k1}
    Run = {r1, r2}
    Amount = {2}
    Terms <- TermsGiven
    MaxTime = 1
    MaxStalls = 1
    MaxFaults = 1
    None = None
INVARIANTS
    TypeOK
    CompletedIsRewarded
    MailedHasEarned
PROPERTIES
    LateRunsDoNotMail
    ImplementsBook
CHECK_DEADLOCK FALSE
