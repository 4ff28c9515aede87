SPECIFICATION Spec
CONSTANTS
    k1 = k1
    k2 = k2
    net10 = net10
    v6 = v6
    g1 = g1
    Conn = {k1, k2}
    Cidr = {net10, v6}
    Cgroup = {g1}
    Port <- MCPort
    Rule <- MCRule
    AllowRule <- MCAllow
    NoRule = NoRule
    Policy <- MCPolicy
    Packet <- MCPacket
    CidrText <- MCCidrText
    CidrOf <- MCCidrOf
    Malformed = Malformed
    Source <- MCSource
    Peer <- MCPeer
    Nobody <- MCNobody
    Unsupported = {v6}
    Registered = {500}
    Request <- MCRequest
    None = None
SYMMETRY MCSymmetry
INVARIANTS TypeOK ResponsesTruthful PlainPoliciesEnforced RuleIdsExplain
PROPERTIES OnlyOperatorsInstall ServerAppliesAtomically
CHECK_DEADLOCK FALSE
