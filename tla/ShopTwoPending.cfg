SPECIFICATION Spec
CONSTANTS
    alice = alice
    bob = bob
    house = house
    w1 = w1
    w2 = w2
    pend = pend
    rec = rec
    Buyers <- OneBuyer
    House = house
    Workers <- TwoWorkers
    PendJob = pend
    RecJob = rec
    Plans <- OnePlan
    AutoPay = FALSE
    DailyLimit = 2
    DayLength = 2
    PendingTTL = 1
    Window = 2
    QueryLimit = 1
    MaxActive = 2
    MaxOrders = 2
    MaxClock = 1
    MaxUsed = 1
    MaxClears = 0
    MaxDeletes = 0
    MaxDbErrors = 0
    MaxOutages = 0
    MaxCallbacks = 0
INVARIANTS
    OnePendingPerBuyer
CHECK_DEADLOCK FALSE
