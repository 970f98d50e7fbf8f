SPECIFICATION Spec
CONSTANTS
    Procs = {p1, p2}
    None = None
    Sessions = {x, y}
    Recovery = {r1}
    MaxRevision = 1
    MaxSet = 2
    LastStep = 2
    Replicas = {x, y}
    MaxWrites = 3
    Grants = {g1, g2}
    Defaults = {g1}
    Records = {r1, r2}
    Devices = {d1}
    Writers = {p1, p2}
    Mutations = {m1}
    ServerSide = ServerSide
    MaxChanges = 2
    LastTick = 2
    Recipients = {x, y}
    Attempts = 3
    MaxMishaps = 2
    Deliveries = {d1}
    Tries = 3
    MaxAccidents = 2
    Gifts = {x, y}
    Funds = {f1}
    LastGivingYear = 1
    Schedules = {s1}
    Interval = 2
    LastDay = 4
    MaxFaults = 1
SYMMETRY Symmetry
INVARIANTS
    TypeOK
    FactorHolds
    AnsweredWritesAreSeen
    StaleFollowsRaces
    FeedReaches
    AudienceIsServed
    ShownFollowsAccidents
    
    EarlyChargesAreFaults
PROPERTIES
    CancelStands
CHECK_DEADLOCK FALSE
