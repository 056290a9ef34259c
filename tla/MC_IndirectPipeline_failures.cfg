SPECIFICATION Spec
CONSTANTS
    TOTAL_TICKETS = 2
    Purchases <- NumberedPurchases
    Benchmarks <- Numbered
    w1 = w1
    w2 = w2
    Stores <- TwoWorkers
    Prefetch = 2
    MaxFaults <- WorkersComeAndGo
SYMMETRY WorkersAlike
CHECK_DEADLOCK FALSE
INVARIANTS
    TypeOK
    NoRequestLost
    ResultsMatchLedger
    ReplaysNeedFailures
    DoneOnlyWhenComplete
    WaitsOnlyForResults
    SuccessMatchesSold
PROPERTY AnswersStand
