SPECIFICATION DashFairSpec
CONSTANTS
    cpu0 = cpu0
    cpu1 = cpu1
    Cpu = {cpu0, cpu1}
    MaxRequests = 2
    Query = {{2}}
    RingSize = 2
    Capacity = 2
    Word = {0}
    MaxVerdicts = 3
    Nothing = Nothing
INVARIANTS DashTypeOK StoreIsRecent SelectionFollows
PROPERTIES XdpVerdictsExplained ReaderStops CatchesUp TurnsOffline
CHECK_DEADLOCK FALSE
