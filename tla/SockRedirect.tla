---------------------------- MODULE SockRedirect ----------------------------
(***************************************************************************)
(* Socket redirection: sockops_identity_func (bpf/sockops_identity.c)      *)
(* registers the ends of local TCP connections in the sock_hash map of its *)
(* load, and proxy_redirect_func (bpf/proxy_redirect.c) looks up the peer  *)
(* of a sending socket there.  Which maps exist, and which programs are    *)
(* attached, is AgentLifecycle's business.                                 *)
(***************************************************************************)
EXTENDS Naturals, FiniteSets

CONSTANTS
    Conn,       \* IPv4 TCP connections between two sockets of the host
    Address,    \* Address[c][role]: ip and port of an end
    Map,        \* sock_hash maps, one per load of the sockops objects
    MaxSocks,   \* max_entries of a sock_hash (65536)
    None

ASSUME RedirectAssumption == MaxSocks \in Nat

VARIABLES
    open,       \* ends that are established
    sockHash    \* per map, the entries [key, sock]

redirectVars == <<open, sockHash>>

End == [conn : Conn, role : {"client", "server"}]

Peer(e) == [e EXCEPT !.role = IF @ = "client" THEN "server" ELSE "client"]

Local(e) == Address[e.conn][e.role]

Remote(e) == Local(Peer(e))

(***************************************************************************)
(* A port in a 32-bit word, and bpf_ntohl of it.  On the little-endian     *)
(* targets of the build the two orders of a port differ: in network order  *)
(* its bytes are the upper half of the word.                               *)
(***************************************************************************)
ByteOrder == {"host", "network"}

Port(n, o) == [port |-> n, order |-> o]

ntohl(w) == [w EXCEPT !.order = IF @ = "host" THEN "network" ELSE "host"]

(***************************************************************************)
(* linux/bpf.h on sk_msg_md.remote_port: "Stored in network byte order".   *)
(***************************************************************************)
RemotePortOrder == "network"

(***************************************************************************)
(* struct sock_key as sockops registers a socket: local_port comes in host *)
(* order and remote_port in network order.                                 *)
(***************************************************************************)
RegKey(e) ==
    [sip |-> Local(e).ip, dip |-> Remote(e).ip,
     sport |-> Port(Local(e).port, "host"),
     dport |-> ntohl(Port(Remote(e).port, "network"))]

(***************************************************************************)
(* The key sk_msg looks up when e sends and remote_port is in order o.     *)
(***************************************************************************)
PeerKey_NotSwapped(e, o) ==
    [sip |-> Local(e).ip, dip |-> Remote(e).ip,
     sport |-> Port(Local(e).port, "host"),
     dport |-> Port(Remote(e).port, o)]

PeerKey(e, o) ==
    [sip |-> Remote(e).ip, dip |-> Local(e).ip,
     sport |-> Port(Remote(e).port, o),
     dport |-> Port(Local(e).port, "host")]

(***************************************************************************)
(* Where a message of e goes: to the socket found, or (None) through the   *)
(* TCP/IP stack; proxy_redirect_func never drops it.                       *)
(***************************************************************************)
Destination(m, e, o) ==
    LET found == {s \in sockHash[m] : s.key = PeerKey(e, o)}
    IN IF found = {} THEN None ELSE (CHOOSE s \in found : TRUE).sock

(***************************************************************************)
(* bpf_sock_hash_update(BPF_NOEXIST): refused when the key is taken or the *)
(* map is full.                                                            *)
(***************************************************************************)
Register(entries, e) ==
    IF \/ \E s \in entries : s.key = RegKey(e)
       \/ Cardinality(entries) >= MaxSocks
    THEN entries
    ELSE entries \cup {[key |-> RegKey(e), sock |-> e]}

(***************************************************************************)
(* The ACTIVE_ESTABLISHED callback of the client, or the                   *)
(* PASSIVE_ESTABLISHED one of the server, under every attached program.    *)
(***************************************************************************)
Established(e, attached) ==
    /\ e \notin open
    /\ open' = open \cup {e}
    /\ sockHash' = [m \in Map |-> IF m \in attached THEN Register(sockHash[m], e)
                                  ELSE sockHash[m]]

(***************************************************************************)
(* A socket closes; the kernel takes it out of every map.                  *)
(***************************************************************************)
SocketCloses(e) ==
    /\ e \in open
    /\ open' = open \ {e}
    /\ sockHash' = [m \in Map |-> {s \in sockHash[m] : s.sock # e}]

-----------------------------------------------------------------------------
Registered(m) == {s.sock : s \in sockHash[m]}

(***************************************************************************)
(* What a registered socket sends is redirected to the other end of its    *)
(* own connection while that end is open, or takes the stack, and never    *)
(* reaches another socket: with maps coming and going, sockets refused by  *)
(* a full map, and whichever order the kernel stores remote_port in.       *)
(***************************************************************************)
NeverMisdelivered ==
    \A m \in Map, o \in ByteOrder : \A e \in Registered(m) :
        Destination(m, e, o) \in ({Peer(e)} \cap open) \cup {None}
=============================================================================
