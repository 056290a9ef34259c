SPECIFICATION Spec
CONSTANTS
    TOTAL_TICKETS = 2
    Purchases <- NumberedPurchases
    Benchmarks <- Numbered
    w1 = w1
    w2 = w2
    Stores <- TwoWorkers
    Prefetch = 2
    MaxFaults <- RedisFails
CHECK_DEADLOCK FALSE
INVARIANT SuccessMatchesSold
