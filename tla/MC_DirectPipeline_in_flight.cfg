SPECIFICATION Spec
CONSTANTS
    TOTAL_TICKETS = 1
    Purchases <- ThreePurchases
    Benchmarks <- ThreeLines
    Stores <- TwoServers
    Concurrency = 2
    MaxFails = 1
    Tries = 2
    Faults <- Crashes
    MaxFaults = 1
CHECK_DEADLOCK FALSE
INVARIANT CrashesAreTransparent
