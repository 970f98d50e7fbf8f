CONSTANTS
    Refs = {r1, r2}
    Workers = {w1, w2}
    Recovery = w1
    Plans = {"essentials", "community"}
    Cycles = {"monthly"}
    Schedulable = {"essentials"}
    Rank <- MCRank
    Length <- MCLength
    QuoteTTL = 2
    InitGrace = 0
    RecoveryWindow = 2
    MaxNow = 3
    MaxQuotes = 1
    None = None
SPECIFICATION Spec
SYMMETRY Symmetry
INVARIANTS
    OnePending
    SuccessWasCharged
    OneAppliedPerBase
    ConfirmationsAreTrue
PROPERTIES
    SuccessIsFinal
    AccessNeverReduced
    KeepsPromise
CHECK_DEADLOCK FALSE
