SPECIFICATION FairSpec
CONSTANTS
    TOTAL_TICKETS = 1
    Purchases <- SeatPurchases
    Benchmarks <- SeatAgain
    Stores <- TwoServers
    Concurrency = 1
    MaxFails = 1
    Tries = 2
    Faults <- FaultKinds
    MaxFaults = 2
CHECK_DEADLOCK FALSE
INVARIANTS
    TypeOK
    AnswersMatchLedger
    ReplaysHaveCauses
    OnlyStruckRequestsFail
    LoadViewsAgree
PROPERTIES
    ImplementsStore
    RunsFinish
