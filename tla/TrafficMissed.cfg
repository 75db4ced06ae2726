SPECIFICATION Spec
CONSTANTS
    i1 = i1
    Inbounds <- OneInbound
    MonthLengths <- ShortMonths
    ResetDays = {0, 3}
    LongestMonth = 3
    DefaultPolicy <- Default
    Nobody = Nobody
    MaxTraffic = 2
    MaxRequests = 1
INVARIANTS
    NoMonthSkipped
CHECK_DEADLOCK FALSE
