SPECIFICATION FairSpec
CONSTANTS
    i1 = i1
    e1 = e1
    o1 = o1
    flag = flag
    watchdog = watchdog
    s1 = s1
    s2 = s2
    s3 = s3
    Inbounds <- OneInbound
    Editors <- OneEditor
    Operators <- OneOperator
    FlagJob = flag
    Watchdog = watchdog
    Slots <- ThreeSlots
    Nobody = Nobody
    MaxEdits = 1
    MaxOps = 1
    MaxFailures = 1
INVARIANTS
    TypeOK
    NoRequestLost
    NoStrayProcess
PROPERTIES
    RequestHonoured
    CrashRepaired
CHECK_DEADLOCK FALSE
