SPECIFICATION Spec
CONSTANTS
    TOTAL_TICKETS = 2
    Purchases <- MixedPurchases
    Stores <- OneEach
    Deliveries = {0, 1, 2, 3}
    MaxClock = 0
INVARIANTS
    TypeOK
    NoOverselling
    OneSeatPerSale
    AnswersAgree
    NoSpuriousRejection
    NoDoubleSell
    MetricsMatchLedger
PROPERTY ImplementsSale
