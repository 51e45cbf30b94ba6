SPECIFICATION Spec
CONSTANTS
    Workers = {w1, w2}
    num_reqs = 3
    Rates = {1, 3}
    BadRequests <- MCBadRequests
    MaxNow = 9
INVARIANTS
    TypeOK
    CountIsExact
    RateIsKept
PROPERTIES
    TesterEnds
