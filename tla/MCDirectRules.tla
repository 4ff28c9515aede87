---------------------------- MODULE MCDirectRules ----------------------------
(* Small instance of DirectRules for TLC: the agent's start-up edits against *)
(* the control server's reloads. *)
EXTENDS DirectRules

CONSTANTS conn1, conn2, c1, c6, g1, p1, deny1, deny2, boot101

E(k, r) == [key |-> k, rule |-> r]

MCPolicies == {<<E(c1, deny1), E(p1, deny1)>>, <<E(g1, deny2)>>}

MCPackets == {[cgroup |-> {g1}, src |-> {c1}, port |-> {p1}]}

Connections == {conn1, conn2}

ServerOnly == [a \in Applier |-> "server"]
=============================================================================
