SPECIFICATION FairSpec
CONSTANTS
    TOTAL_TICKETS = 1
    Purchases <- UnnumberedPurchases
    Benchmarks <- Unnumbered
    w1 = w1
    w2 = w2
    Stores <- OneWorker
    Prefetch = 2
    MaxFaults <- AllButTheQueuesFail
CHECK_DEADLOCK FALSE
INVARIANT ReplaysNeedFailures
PROPERTY RunsFinish
