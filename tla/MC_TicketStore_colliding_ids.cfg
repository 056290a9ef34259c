SPECIFICATION Spec
CONSTANTS
    TOTAL_TICKETS = 2
    Purchases <- CollidingPurchases
    Stores <- OneEach
    Deliveries = {0, 1, 2}
    MaxClock = 0
INVARIANT NoDoubleSell
