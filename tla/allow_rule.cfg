SPECIFICATION Spec
CONSTANTS
    k1 = k1
    k2 = k2
    net10 = net10
    v6 = v6
    g1 = g1
    Conn = {k1, k2}
    Cidr = {net10, v6}
    Cgroup = {g1}
    Port <- MCPort
    Rule <- MCRule
    AllowRule <- MCAllow
    NoRule = NoRule
    Policy <- AllowPolicy
    Packet <- MCPacket
    CidrText <- MCCidrText
    CidrOf <- MCCidrOf
    Malformed = Malformed
    Source <- AllowSource
    Peer <- MCPeer
    Nobody <- MCNobody
    Unsupported = {v6}
    Registered = {500}
    Request <- AllowRequest
    None = None
SYMMETRY MCSymmetry
INVARIANTS PoliciesEnforced
CHECK_DEADLOCK FALSE
