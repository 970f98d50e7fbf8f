CONSTANTS
    Members = {m1}
    Regs = {r1,r2}
    Workers = {w1,w2}
    Capacity = 2
    TierCapacity = 2
    MaxDeaths = 1
    None = None
SPECIFICATION Spec
SYMMETRY Symmetry
INVARIANTS
    TypeOK
    TicketWasCharged
    AdmissionsAgree
PROPERTIES
    CancelledStaysOut
    AnsweredHasTicket
CHECK_DEADLOCK FALSE
