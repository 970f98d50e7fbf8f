SPECIFICATION FeedSpec
CONSTANTS
    Records = {r1}
    Devices = {d1}
    Writers = {p1, p2}
    Mutations = {m1}
    ServerSide = ServerSide
    MaxChanges = 2
    LastTick = 2
INVARIANTS
    NothingIsSkipped
CHECK_DEADLOCK FALSE
