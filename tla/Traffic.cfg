SPECIFICATION Spec
CONSTANTS
    i1 = i1
    Inbounds <- OneInbound
    MonthLengths <- FallingMonths
    ResetDays = {0, 2}
    LongestMonth = 3
    DefaultPolicy <- Default
    Nobody = Nobody
    MaxTraffic = 2
    MaxRequests = 2
INVARIANTS
    TypeOK
    Accounted
    PeriodsDisjoint
PROPERTIES
    OncePerDueDate
CHECK_DEADLOCK FALSE
