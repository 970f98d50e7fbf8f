SPECIFICATION Spec
CONSTANTS
    Procs = {p1, p2}
    None = None
    Categories = {c1}
    Assets = {a1}
    Loans = {a, b}
    Statuses = {"active"}
    Terms <- MCTerms
    LastYear = 1
    Submissions = {x, y, z}
    Users = {a, b}
    Values = {a, b}
    Limit = 1
    MaxVersion = 2
    Members = {a, b}
    Locations = {b1}
    Staff = {a, b}
    Plans <- MCPlans
    People = {m1, m2, m3}
    Branches = {b1}
    Home <- MCHome
    Batch = 1
SYMMETRY Symmetry
INVARIANTS
    TypeOK
    RegisterAgrees
    LimitsHold
    LooseFollowRaces
PROPERTIES
    GrowsWithinPlan
CHECK_DEADLOCK FALSE
