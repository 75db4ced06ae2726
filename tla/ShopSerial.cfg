SPECIFICATION Spec
CONSTANTS
    alice = alice
    bob = bob
    house = house
    w1 = w1
    w2 = w2
    pend = pend
    rec = rec
    Buyers <- OneBuyer
    House = house
    Workers <- OneWorker
    PendJob = pend
    RecJob = rec
    Plans <- OnePlan
    AutoPay = TRUE
    DailyLimit = 2
    DayLength = 2
    PendingTTL = 1
    Window = 2
    QueryLimit = 1
    MaxActive = 1
    MaxOrders = 2
    MaxClock = 3
    MaxUsed = 3
    MaxClears = 0
    MaxDeletes = 0
    MaxDbErrors = 0
    MaxOutages = 0
    MaxCallbacks = 1
INVARIANTS
    GrantsBounded
    QuotaFloor
    NoFreeQuota
    ServedWhilePaid
PROPERTIES
    LedgerKept
CHECK_DEADLOCK FALSE
