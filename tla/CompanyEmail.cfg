CONSTANTS
    Mails = {m1}
    Workers = {s, w1, w2}
    Scanner = s
    MaxAttempts = 2
    RetryWindow = 6
    Lease = 3
    Base = 2
    Cap = 3
    Backoff <- MCBackoff
    Page = 1
    Pause = 1
    SendLimit = 1
    WireLimit = 1
    KeyLife = 8
    MaxNow = 9
    None = None
SPECIFICATION Spec
SYMMETRY Symmetry
INVARIANTS
    OneSender
    SentWasAccepted
    NoDuplicateDelivery
    RetriesStop
PROPERTIES
    SettledIsFinal
    FirstAttemptFixed
CHECK_DEADLOCK FALSE
