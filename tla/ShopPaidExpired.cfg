SPECIFICATION LiveSpec
CONSTANTS
    alice = alice
    bob = bob
    house = house
    w1 = w1
    w2 = w2
    pend = pend
    rec = rec
    Buyers <- TwoBuyers
    House = house
    Workers <- NoWorkers
    PendJob = pend
    RecJob = rec
    Plans <- OnePlan
    AutoPay = TRUE
    DailyLimit = 2
    DayLength = 2
    PendingTTL = 1
    Window = 5
    QueryLimit = 2
    MaxActive = 2
    MaxOrders = 2
    MaxClock = 3
    MaxUsed = 0
    MaxClears = 0
    MaxDeletes = 0
    MaxDbErrors = 0
    MaxOutages = 0
    MaxCallbacks = 0
PROPERTIES
    PaidExpiredIsProvisioned
CHECK_DEADLOCK FALSE
