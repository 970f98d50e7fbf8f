SPECIFICATION BroadcastFairSpec
CONSTANTS
    Procs = {p1, p2}
    None = None
    Recipients = {x}
    Attempts = 2
    MaxMishaps = 0
PROPERTIES
    ScheduledIsSent
CHECK_DEADLOCK FALSE
