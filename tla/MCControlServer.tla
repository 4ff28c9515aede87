--------------------------- MODULE MCControlServer ---------------------------
(* A small control plane for TLC: policies with overlapping rules, peers of *)
(* every role. *)
EXTENDS ControlServer

CONSTANTS k1, k2, net10, v6, g1

R(id, action, cidrs, cgroups, ports, protos) ==
    [id |-> id, action |-> action, cidrs |-> cidrs, cgroups |-> cgroups,
     ports |-> ports, protos |-> protos]

P(rs) == [header |-> TRUE, default |-> "allow", rules |-> rs]

(***************************************************************************)
(* Overlap: a port denied by the first rule and allowed, for tcp only, by  *)
(* the second; one prefix spelled twice.  Wide: an empty protocol list.    *)
(* Trusted: an allow rule with a CIDR, and a default of deny.              *)
(***************************************************************************)
Overlap == P(<<R(1, "deny", <<>>, <<>>, <<80>>, <<>>),
               R(2, "allow", <<>>, <<>>, <<80>>, <<"tcp">>),
               R(3, "deny", <<"10.0.0.0/8", "10.1.0.0/8">>, <<>>, <<>>, <<>>)>>)

Wide == P(<<R(1, "allow", <<>>, <<>>, <<80>>, <<>>),
            R(2, "deny", <<>>, <<g1>>, <<>>, <<>>),
            R(3, "deny", <<>>, <<>>, <<80>>, <<"udp", "icmp">>)>>)

Duplicate == P(<<R(1, "deny", <<"10.0.0.0/8">>, <<>>, <<>>, <<>>),
                 R(1, "deny", <<>>, <<g1>>, <<>>, <<>>)>>)

V6 == P(<<R(1, "deny", <<"fd00::/8">>, <<>>, <<>>, <<>>)>>)

Garbled == P(<<R(1, "deny", <<"10.0.0">>, <<>>, <<>>, <<>>)>>)

Trusted == [P(<<R(1, "allow", <<"10.0.0.0/8">>, <<>>, <<80>>, <<"tcp">>)>>)
                EXCEPT !.default = "deny"]

AllowCidr == P(<<R(1, "allow", <<"10.0.0.0/8">>, <<>>, <<>>, <<>>)>>)

MCSource == {Overlap, Wide, Duplicate, V6, Garbled, Trusted}

MCCidrText == {"10.0.0.0/8", "10.1.0.0/8", "fd00::/8", "10.0.0"}

MCCidrOf == [t \in MCCidrText |->
                CASE t = "fd00::/8" -> v6 [] t = "10.0.0" -> Malformed [] OTHER -> net10]

MCPort == {80} \X {"tcp", "udp", "icmp"}

MCRule == {1, 2, 3} \X {"allow", "deny"}

MCAllow == {1, 2, 3} \X {"allow"}

MCPolicy == {Compile(s) : s \in {t \in MCSource : Validate(t)}}

MCPacket == [cgroup : {{}, {g1}}, src : {{}, {net10}},
             port : {{}, {<<80, "tcp">>}, {<<80, "udp">>}}]

MCPeer == {[uid |-> 0, gid |-> 0], [uid |-> 500, gid |-> 500], [uid |-> 1000, gid |-> 27]}

MCRequest ==
    [command : {"apply_policy"}, lower : {TRUE}, source : MCSource]
    \cup {[command |-> "apply_policy", lower |-> FALSE, source |-> Wide],
          [command |-> "get_status", lower |-> TRUE, source |-> None],
          [command |-> "dump_maps", lower |-> TRUE, source |-> None],
          [command |-> "other", lower |-> TRUE, source |-> None]}

(***************************************************************************)
(* One policy that no plain policy says: what an allow rule does.          *)
(***************************************************************************)
AllowSource == {AllowCidr}

AllowPolicy == {Compile(AllowCidr)}

AllowRequest == [command : {"apply_policy"}, lower : {TRUE}, source : AllowSource]

MCSymmetry == Permutations(Conn)

MCNobody == [uid |-> 65534, gid |-> 65534]
==============================================================================
