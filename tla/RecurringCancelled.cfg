SPECIFICATION RecurringSpec
CONSTANTS
    Procs = {p1, p2}
    None = None
    Schedules = {s1}
    Interval = 2
    LastDay = 4
    MaxFaults = 0
PROPERTIES
    CancelledIsNotCharged
CHECK_DEADLOCK FALSE
