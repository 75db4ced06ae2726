SPECIFICATION FairSpec
CONSTANTS
    c1 = c1
    c2 = c2
    Clients <- TwoClients
    SendCap = 1
    BroadcastCap = 1
    RegisterCap = 1
    UnregisterCap = 1
    PoolSize = 2
    MaxCasts = 2
INVARIANTS
    TypeOK
    OpenIffServed
    NoSendOnClosed
    InOrder
PROPERTIES
    LaggardsCutOff
    GoneForgotten
    ShutdownCompletes
CHECK_DEADLOCK FALSE
