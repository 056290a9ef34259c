SPECIFICATION Spec
CONSTANTS
    TOTAL_TICKETS = 1
    Purchases <- TimedPurchases
    Stores <- OneEach
    Deliveries = {0, 1, 2}
    MaxClock = 2
INVARIANTS
    LatencyBounds
    WindowCoversService
