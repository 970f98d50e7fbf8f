CONSTANTS
    Mails = {m1, m2}
    Workers = {s}
    Scanner = s
    MaxAttempts = 2
    RetryWindow = 2
    Lease = 1
    Base = 1
    Cap = 2
    Backoff <- MCBackoff
    Page = 1
    Pause = 0
    SendLimit = 0
    WireLimit = 0
    KeyLife = 2
    MaxNow = 4
    None = None
SPECIFICATION FairSpec
PROPERTIES
    DueIsTaken
CHECK_DEADLOCK FALSE
