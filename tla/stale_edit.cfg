SPECIFICATION EditSpec
CONSTANTS
    conn1 = conn1
    conn2 = conn2
    c1 = c1
    c6 = c6
    g1 = g1
    p1 = p1
    deny1 = deny1
    deny2 = deny2
    boot101 = boot101
    Cidr = {c1, c6}
    Cgroup = {g1}
    Port = {p1}
    Rule = {deny1, deny2, boot101}
    AllowRule = {}
    Unsupported = {c6}
    NoRule = NoRule
    NoPolicy = NoPolicy
    NoPacket = NoPacket
    Free = Free
    Packet <- MCPackets
    Policy <- MCPolicies
    Swapper = {"server"}
    Applier <- Connections
    SwapperOf <- ServerOnly
    Cpu = {}
    MaxEntries = 2
    GenCount = 4
    MaxApplies = 1
    Editor = {"main"}
    EditRule = boot101
    MaxEdits = 1
INVARIANTS EditsTakeEffect
CHECK_DEADLOCK FALSE
