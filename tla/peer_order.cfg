SPECIFICATION AgentSpec
CONSTANTS
    None = None
    FileCopy = FileCopy
    k1 = k1
    k2 = k2
    web = web
    Conn = {k1, k2}
    Address <- MCAddress
    Map <- MCMap
    MaxSocks = 3
    MaxStarts = 1
INVARIANTS PeersFindEachOther
SYMMETRY Connections
CHECK_DEADLOCK FALSE
