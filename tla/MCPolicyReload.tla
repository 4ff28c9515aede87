--------------------------- MODULE MCPolicyReload ---------------------------
(* Small instances of PolicyReload for TLC. *)
EXTENDS PolicyReload

CONSTANTS boot, conn1, conn2, c1, c2, c6, g1, p1, deny1, deny2, allow1

E(k, r) == [key |-> k, rule |-> r]

(***************************************************************************)
(* Strict fills both slots of the LPM trie; Mixed overwrites a key it has  *)
(* staged and allows a port; Bad fails after one entry is staged.          *)
(***************************************************************************)
Strict == <<E(c1, deny1), E(c2, deny1), E(g1, deny1), E(p1, deny1)>>

Mixed == <<E(c1, deny1), E(c1, deny2), E(p1, allow1)>>

Bad == <<E(c2, deny2), E(c6, deny2)>>

MCPolicies == {Strict, Mixed, Bad}

Short == <<E(c1, deny1), E(p1, deny1)>>

Other == <<E(c1, deny2), E(g1, deny2)>>

ShortPolicies == {Short, Other}

MCPackets ==
    {[cgroup |-> {g1}, src |-> {}, port |-> {p1}],
     [cgroup |-> {}, src |-> {c1, c2}, port |-> {p1}]}

ShortPackets == {[cgroup |-> {g1}, src |-> {c1}, port |-> {p1}]}

(***************************************************************************)
(* The control server's connections share one MapSwapper; the agent's      *)
(* start-up code in main() has a MapSwapper of its own.                    *)
(***************************************************************************)
ServerOnly == [a \in Applier |-> "server"]

ServerAndBoot == [a \in Applier |-> IF a = boot THEN "boot" ELSE "server"]

Connections == {conn1, conn2}

BootAndConnection == {boot, conn1}
=============================================================================
