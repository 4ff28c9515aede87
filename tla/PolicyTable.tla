----------------------------- MODULE PolicyTable -----------------------------
(***************************************************************************)
(* What one policy generation holds in the three rule maps of the XDP      *)
(* program (lpm_blocklist, cgroup_identity_map, port_rules_map), which     *)
(* table a compiled policy stands for, and the verdict a table gives a     *)
(* packet.  A table is a function from the keys of the three maps, without *)
(* their generation field, to the rule stored there or NoRule.             *)
(***************************************************************************)
EXTENDS Naturals, Sequences

CONSTANTS
    Cidr,       \* keys of lpm_blocklist: IPv4 prefixes
    Cgroup,     \* keys of cgroup_identity_map: cgroup v2 ids
    Port,       \* keys of port_rules_map: destination port and protocol
    Rule,       \* rule ids of the policies
    AllowRule,  \* the rules whose action is "allow"
    NoRule,     \* no entry under this key
    Policy,     \* the compiled policies an operator may apply
    Packet      \* the IPv4 packets the hook may see

Key == Cidr \cup Cgroup \cup Port

Table == [Key -> Rule \cup {NoRule}]

EmptyTable == [k \in Key |-> NoRule]

(***************************************************************************)
(* A compiled policy: the entries in the order ApplyPolicyAtomic stages    *)
(* them, CIDRBlocks then CgroupBlocks then PortRules.                      *)
(***************************************************************************)
Entry == [key : Key, rule : Rule]

(***************************************************************************)
(* What xdp_firewall_func extracts from a packet: the cgroup of the        *)
(* current task, the prefixes that cover the source address, and the       *)
(* destination port (a set with at most one member: ICMP has none, and     *)
(* dst_port 0 is not looked up).                                           *)
(***************************************************************************)
PacketFields == [cgroup : SUBSET Cgroup, src : SUBSET Cidr, port : SUBSET Port]

ASSUME KeysDisjoint ==
    /\ Cidr \cap Cgroup = {}
    /\ Cidr \cap Port = {}
    /\ Cgroup \cap Port = {}

ASSUME NoRuleAssumption == NoRule \notin Rule

ASSUME AllowRuleAssumption == AllowRule \subseteq Rule

ASSUME PolicyAssumption == Policy \subseteq Seq(Entry)

ASSUME PacketAssumption == Packet \subseteq PacketFields

-----------------------------------------------------------------------------
(***************************************************************************)
(* Table t holds under key k what the first n entries of policy p leave in *)
(* an empty generation: map Put overwrites, so the last entry of a key     *)
(* decides.                                                                *)
(***************************************************************************)
StagedAt(t, p, n, k) ==
    \/ /\ t[k] = NoRule
       /\ \A i \in 1..n : p[i].key # k
    \/ \E i \in 1..n :
          /\ p[i].key = k
          /\ t[k] = p[i].rule
          /\ \A j \in 1..n : j > i => p[j].key # k

Staged(t, p, n) == \A k \in Key : StagedAt(t, p, n, k)

Realizes(t, p) == Staged(t, p, Len(p))

-----------------------------------------------------------------------------
(***************************************************************************)
(* The three lookups of xdp_firewall_func on one table.  An entry of the   *)
(* cgroup map or of the LPM trie drops the packet whatever the action of   *)
(* its rule; only a port entry carries an action.                          *)
(***************************************************************************)
CgroupHit(t, pkt) == \E k \in pkt.cgroup : t[k] # NoRule

LpmHit(t, pkt) == \E k \in pkt.src : t[k] # NoRule

PortDeny(t, pkt) == \E k \in pkt.port : t[k] \in Rule \ AllowRule

Drops(t, pkt) == CgroupHit(t, pkt) \/ LpmHit(t, pkt) \/ PortDeny(t, pkt)
=============================================================================
