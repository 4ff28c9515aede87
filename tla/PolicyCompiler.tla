--------------------------- MODULE PolicyCompiler ---------------------------
(***************************************************************************)
(* The policy compiler (pkg/compiler): Validate and Compile, from a parsed *)
(* policy to the entries ApplyPolicyAtomic stages, and, beside them, what  *)
(* a policy says about a packet, stated on the policy's rules.             *)
(*                                                                         *)
(* Actions and protocols stand for their text after ToLower and TrimSpace: *)
(* Validate, Compile and StagePortRule all normalise before they compare.  *)
(* CIDRs are texts, several of which may name the same key.                *)
(***************************************************************************)
EXTENDS PolicyTable, SequencesExt

CONSTANTS
    CidrText,   \* the texts under srcCIDRs
    CidrOf,     \* the map key of a text, or Malformed
    Malformed,  \* neither a CIDR nor an IP address
    Source      \* the parsed policies

ASSUME CidrOfAssumption == CidrOf \in [CidrText -> Cidr \cup {Malformed}]

(***************************************************************************)
(* Rule and Policy of dsl.go.  `header' says that apiVersion and kind are  *)
(* the expected ones; a text that is not YAML at all is rejected as one    *)
(* without them is.                                                        *)
(***************************************************************************)
SourceRule ==
    [id : Nat, action : STRING, cidrs : Seq(CidrText), cgroups : Seq(Cgroup),
     ports : Seq(Nat), protos : Seq(STRING)]

(***************************************************************************)
(* Keys of the port map are a port number and a protocol.                  *)
(***************************************************************************)
ASSUME PortAssumption == Port \subseteq Nat \X STRING

ASSUME SourceAssumption ==
    Source \subseteq [header : BOOLEAN, default : STRING, rules : Seq(SourceRule)]

-----------------------------------------------------------------------------
RuleValid(r) ==
    /\ r.id # 0
    /\ r.action \in {"allow", "deny"}
    /\ \A t \in ToSet(r.cidrs) : CidrOf[t] # Malformed
    /\ 0 \notin ToSet(r.ports)
    /\ ToSet(r.protos) \subseteq {"tcp", "udp", "icmp"}

Validate_AllowsDuplicates(p) ==
    /\ p.header
    /\ p.default \in {"", "allow", "deny"}
    /\ \A i \in DOMAIN p.rules : RuleValid(p.rules[i])

Validate(p) ==
    /\ p.header
    /\ p.default \in {"", "allow", "deny"}
    /\ \A i \in DOMAIN p.rules :
          /\ RuleValid(p.rules[i])
          /\ \A j \in 1..(i - 1) : p.rules[j].id # p.rules[i].id

(***************************************************************************)
(* What one rule contributes to the three lists of a CompiledPolicy.       *)
(***************************************************************************)
Verdict(r) == <<r.id, r.action>>

(***************************************************************************)
(* The constants of PolicyTable cover what the policies compile to: the    *)
(* verdicts of valid rules, told apart by their action, and their ports.   *)
(***************************************************************************)
ASSUME VerdictAssumption ==
    \A p \in Source : Validate(p) =>
        \A i \in DOMAIN p.rules :
            /\ Verdict(p.rules[i]) \in Rule
            /\ Verdict(p.rules[i]) \in AllowRule <=> p.rules[i].action = "allow"
            /\ ToSet(p.rules[i].ports) \X {"tcp", "udp", "icmp"} \subseteq Port

CIDRBlocks(r) ==
    [i \in DOMAIN r.cidrs |-> [key |-> CidrOf[r.cidrs[i]], rule |-> Verdict(r)]]

CgroupBlocks(r) ==
    [i \in DOMAIN r.cgroups |-> [key |-> r.cgroups[i], rule |-> Verdict(r)]]

Protocols_TcpOnly(r) ==
    IF r.protos = <<>> /\ r.ports # <<>> THEN <<"tcp">> ELSE r.protos

Protocols(r) ==
    IF r.protos = <<>> /\ r.ports # <<>> THEN <<"tcp", "udp">> ELSE r.protos

PortRules(r) ==
    FlattenSeq([i \in DOMAIN r.ports |->
                   [j \in DOMAIN Protocols(r) |->
                       [key |-> <<r.ports[i], Protocols(r)[j]>>, rule |-> Verdict(r)]]])

(***************************************************************************)
(* The entries of a policy in the order they are staged.  Compile stores   *)
(* the default action too, which nothing reads.                            *)
(***************************************************************************)
Compile(p) ==
    LET Of(List(_)) == FlattenSeq([i \in DOMAIN p.rules |-> List(p.rules[i])])
    IN  Of(CIDRBlocks) \o Of(CgroupBlocks) \o Of(PortRules)

-----------------------------------------------------------------------------
(***************************************************************************)
(* The reference, read off the rules and not off what Compile makes of     *)
(* them.  NamesPort: a rule without protocols means both tcp and udp.      *)
(* Names: the rule lists the key of a map entry.                           *)
(***************************************************************************)
NamesPort(r, k) ==
    /\ k[1] \in ToSet(r.ports)
    /\ k[2] \in (IF r.protos = <<>> THEN {"tcp", "udp"} ELSE ToSet(r.protos))

Names(r, k) ==
    IF k \in Cidr THEN \E t \in ToSet(r.cidrs) : CidrOf[t] = k
    ELSE IF k \in Cgroup THEN k \in ToSet(r.cgroups)
    ELSE NamesPort(r, k)

(***************************************************************************)
(* A rule applies to the packets that match each selector it lists: the    *)
(* source address, the cgroup, the destination port and the protocol.  (A  *)
(* packet without a port, ICMP included, keeps no protocol in this model.) *)
(***************************************************************************)
Applies(r, pkt) ==
    /\ r.cidrs # <<>> => \E t \in ToSet(r.cidrs) : CidrOf[t] \in pkt.src
    /\ r.cgroups # <<>> => \E g \in ToSet(r.cgroups) : g \in pkt.cgroup
    /\ r.ports # <<>> => \E k \in pkt.port : NamesPort(r, k)
    /\ r.protos # <<>> => \E k \in pkt.port : k[2] \in ToSet(r.protos)

DefaultAction(p) == IF p.default = "" THEN "allow" ELSE p.default

(***************************************************************************)
(* What a policy says of a packet: the action of a rule that applies, the  *)
(* default if none does.  When rules with both actions apply the policy    *)
(* says both, for nothing in the repository gives one precedence.          *)
(***************************************************************************)
Says(p, pkt) ==
    LET applying == {i \in DOMAIN p.rules : Applies(p.rules[i], pkt)}
    IN  IF applying = {} THEN {DefaultAction(p)} ELSE {p.rules[i].action : i \in applying}

Enforces(t, p, pkt) == (IF Drops(t, pkt) THEN "deny" ELSE "allow") \in Says(p, pkt)

(***************************************************************************)
(* The policies the three maps can express.  lpm_blocklist and             *)
(* cgroup_identity_map hold no action (the parameter `action' of           *)
(* StageCIDRRule and StageCgroupRule is not used), the maps are looked up  *)
(* independently of each other, and CompiledPolicy.DefaultAction is read   *)
(* by nobody: a plain policy has no default but allow, and each of its     *)
(* rules denies some CIDRs, or denies some cgroups, or lists ports.        *)
(* configs/policy_allow_web.yaml and the policies of the tests are plain.  *)
(***************************************************************************)
PlainRule(r) ==
    \/ /\ r.action = "deny" /\ r.ports = <<>> /\ r.protos = <<>>
       /\ r.cidrs # <<>> <=> r.cgroups = <<>>
    \/ r.ports # <<>> /\ r.cidrs = <<>> /\ r.cgroups = <<>>

Plain(p) ==
    /\ DefaultAction(p) = "allow"
    /\ \A i \in DOMAIN p.rules : PlainRule(p.rules[i])
=============================================================================
