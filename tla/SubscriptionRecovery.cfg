CONSTANTS
    Refs = {r1, r2}
    Workers = {w1}
    Recovery = w1
    Plans = {"essentials"}
    Cycles = {"monthly"}
    Schedulable = {}
    Rank <- MCRank
    Length <- MCLength
    QuoteTTL = 1
    InitGrace = 0
    RecoveryWindow = 1
    MaxNow = 3
    MaxQuotes = 1
    None = None
SPECIFICATION FairSpec
PROPERTIES
    ChargedIsRecorded
CHECK_DEADLOCK FALSE
