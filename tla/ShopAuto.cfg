SPECIFICATION Spec
CONSTANTS
    alice = alice
    bob = bob
    house = house
    w1 = w1
    w2 = w2
    pend = pend
    rec = rec
    Buyers <- OneBuyer
    House = house
    Workers <- OneWorker
    PendJob = pend
    RecJob = rec
    Plans <- OnePlan
    AutoPay = TRUE
    DailyLimit = 2
    DayLength = 2
    PendingTTL = 1
    Window = 3
    QueryLimit = 1
    MaxActive = 2
    MaxOrders = 1
    MaxClock = 3
    MaxUsed = 0
    MaxClears = 1
    MaxDeletes = 1
    MaxDbErrors = 1
    MaxOutages = 1
    MaxCallbacks = 0
INVARIANTS
    TypeOK
    NeverUnlimited
    ApprovedWasGranted
    GrantsBounded
    ExpiredWasNotGranted
CHECK_DEADLOCK FALSE
