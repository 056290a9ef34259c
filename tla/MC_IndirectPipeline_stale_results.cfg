SPECIFICATION Spec
CONSTANTS
    TOTAL_TICKETS = 1
    Purchases <- TwoFilesPurchases
    Benchmarks <- TwoFiles
    w1 = w1
    w2 = w2
    Stores <- TwoWorkers
    Prefetch = 2
    MaxFaults <- ClientGivesUp
CHECK_DEADLOCK FALSE
INVARIANT DoneOnlyWhenComplete
