SPECIFICATION FairSpec
CONSTANTS
    boot = boot
    conn1 = conn1
    conn2 = conn2
    c1 = c1
    c2 = c2
    c6 = c6
    g1 = g1
    p1 = p1
    deny1 = deny1
    deny2 = deny2
    allow1 = allow1
    Cidr = {c1, c2, c6}
    Cgroup = {g1}
    Port = {p1}
    Rule = {deny1, deny2, allow1}
    AllowRule = {allow1}
    Unsupported = {c6}
    NoRule = NoRule
    NoPolicy = NoPolicy
    NoPacket = NoPacket
    Free = Free
    Packet <- MCPackets
    Policy <- MCPolicies
    Swapper = {"server"}
    Applier <- Connections
    SwapperOf <- ServerOnly
    Cpu = {"cpu0"}
    MaxEntries = 2
    GenCount = 3
    MaxApplies = 3
INVARIANTS TypeOK ActiveComplete NoResidue DropSound PassSoundWhileActive
PROPERTIES AtomicReload ApplyReturns
