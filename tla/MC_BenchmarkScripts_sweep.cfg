SPECIFICATION FairScriptSpec
CONSTANTS
    TOTAL_TICKETS = 2
    Purchases <- FilePurchases
    Benchmarks <- SeatAgain
    Stores <- TwoWorkers
    Prefetch = 1
    Steps <- FaultTestThenSweep
    MaxFaults <- ClientsGiveUp
CHECK_DEADLOCK FALSE
INVARIANTS
    ScriptTypeOK
    StepsDoNotMix
    StepsLeaveNothing
    DoneOnlyWhenComplete
    NothingVanishes
    StepAnswersMatchLedger
PROPERTIES
    LoadMovesOn
    ScriptsEnd
    ImplementsStore
