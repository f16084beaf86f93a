SPECIFICATION MCSpec
CONSTANTS
    Campaign = {c1}
    Category = {"k1", "k2"}
    CategoryOf <- AllOfK1
    MCTarget = 5
    Target <- AllTargets
    Donation = {d1, d2, d3}
    Amount = {2, 4}
    Time = {1, 2}
    Challenge = {h1}
    Terms <- ThreeTerms
    Request = {r1, r2}
    Take = 2
    None = None
INVARIANTS
    TypeOK
    PageAddsUp
    OpenChallengeIsShown
CHECK_DEADLOCK FALSE
