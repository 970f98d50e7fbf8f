CONSTANTS
    Mutations = {m1, m2}
    Records = {e1}
    Workers = {w1, w2}
    MaxNow = 3
    MaxRequests = 3
    MaxOutages = 1
    None = None
SPECIFICATION Spec
SYMMETRY Symmetry
INVARIANTS
    AppliedOnce
    NoLostUpdate
    AnswersAreTrue
CHECK_DEADLOCK FALSE
