SPECIFICATION AuditSpec
CONSTANTS
    TOTAL_TICKETS = 2
    Purchases <- UnnumberedBenchmark
    Stores <- TwoWorkers
    Deliveries = {0, 1, 2, 3}
    MaxClock = 0
    Benchmark = "unnumbered"
    AuditedArch = "indirect"
INVARIANT QuietChecksPass
