--------------------------- MODULE AgentLifecycle ---------------------------
(***************************************************************************)
(* The life of firewall-agent processes on one interface: NewFirewallLoader,*)
(* LoadSockops, main and Close (pkg/bpf/loader.go,                         *)
(* cmd/firewall-agent/main.go), with a failure at every step, death at any *)
(* time and restarts.  A process may start while another is still up or    *)
(* shutting down.  What a process holds by a descriptor (XDP link, sockops *)
(* link, objects) goes when it dies; the qdisc, its filters and the pins   *)
(* stay on the host.                                                       *)
(***************************************************************************)
EXTENDS SockRedirect

CONSTANTS
    MaxStarts,  \* bound: agent processes started
    FileCopy    \* the TC program as compiled in pkg/bpf/tc_bpf.o

Process == 1..MaxStarts

ASSUME ProcessAssumption ==
    /\ MaxStarts \in Nat
    /\ Map = Process
    /\ None \notin Process /\ FileCopy \notin Process /\ FileCopy # None

VARIABLES
    pc,
    holds,      \* what each process holds by a descriptor
    enabled,    \* FirewallLoader.sockopsEnabled
    pinPathSet, \* FirewallLoader.sockHashPinPath is set
    qdisc,      \* the interface has a clsact qdisc
    filters,    \* its ingress filters: who added it, whose program it runs
    tcPin,      \* whose program is pinned at tcPinPath
    sockPin,    \* whose sock_hash is pinned at /sys/fs/bpf/sock_hash
    skmsg,      \* maps to which an sk_msg program is attached
    solo        \* history: no other process was alive during this one's life

processVars == <<pc, holds, enabled, pinPathSet, solo>>
tcVars == <<qdisc, filters, tcPin>>
sockVars == <<sockPin, skmsg>>
agentVars == <<processVars, tcVars, sockVars>>

Starting == {"load", "attach", "tcload", "unpin", "pin", "qdisc", "filter", "reader"}
LoadingSockops == {"so_load", "so_unpin", "so_pin", "so_skmsg", "so_cgroup", "so_attach"}
Closing == {"c_reader", "c_xdp", "c_qdisc", "c_unpin", "c_detach", "c_link", "c_sockunpin",
            "c_objs"}
Up == {"flags", "rules", "running"}
Pc == Starting \cup Up \cup LoadingSockops \cup Closing \cup {"new", "closed", "dead"}

SockParts == {"sockopsObjs", "skmsgObjs", "sockopsLink"}
Part == {"objs", "xdpLink", "tcObjs", "reader"} \cup SockParts

Alive(p) == pc[p] \notin {"new", "closed", "dead"}

AgentTypeOK ==
    /\ pc \in [Process -> Pc]
    /\ holds \in [Process -> SUBSET Part]
    /\ enabled \in [Process -> BOOLEAN]
    /\ pinPathSet \in [Process -> BOOLEAN]
    /\ solo \in [Process -> BOOLEAN]
    /\ qdisc \in BOOLEAN
    /\ filters \subseteq [by : Process, runs : Process \cup {FileCopy}]
    /\ tcPin \in Process \cup {None}
    /\ sockPin \in Process \cup {None}
    /\ skmsg \subseteq Process
    /\ open \subseteq End
    /\ \A m \in Map : Registered(m) \subseteq open

AgentInit ==
    /\ pc = [p \in Process |-> "new"]
    /\ holds = [p \in Process |-> {}]
    /\ enabled = [p \in Process |-> FALSE]
    /\ pinPathSet = [p \in Process |-> FALSE]
    /\ solo = [p \in Process |-> FALSE]
    /\ qdisc = FALSE
    /\ filters = {}
    /\ tcPin = None
    /\ sockPin = None
    /\ skmsg = {}
    /\ open = {}
    /\ sockHash = [m \in Map |-> {}]

Step(p, from, to) == pc[p] = from /\ pc' = [pc EXCEPT ![p] = to]

Acquire(p, part) == holds' = [holds EXCEPT ![p] = @ \cup {part}]

Release(p, parts) == holds' = [holds EXCEPT ![p] = @ \ parts]

-----------------------------------------------------------------------------
(***************************************************************************)
(* Processes start in the order of their numbers.                          *)
(***************************************************************************)
Start(p) ==
    /\ Step(p, "new", "load")
    /\ \A q \in Process : q < p => pc[q] # "new"
    /\ solo' = [q \in Process |-> IF q = p THEN ~\E r \in Process : Alive(r)
                                  ELSE solo[q] /\ ~Alive(q)]
    /\ UNCHANGED <<holds, enabled, pinPathSet, tcVars, sockVars>>

(***************************************************************************)
(* NewFirewallLoader.  An interface takes one XDP program, so attaching    *)
(* fails while another process holds the link.                             *)
(***************************************************************************)
Load(p) ==
    /\ \/ Step(p, "load", "attach") /\ Acquire(p, "objs")
       \/ /\ Step(p, "attach", "tcload")
          /\ \A q \in Process : "xdpLink" \notin holds[q]
          /\ Acquire(p, "xdpLink")
       \/ Step(p, "tcload", "unpin") /\ Acquire(p, "tcObjs")
       \/ Step(p, "reader", "flags") /\ Acquire(p, "reader")
    /\ UNCHANGED <<enabled, pinPathSet, solo, tcVars, sockVars>>

(***************************************************************************)
(* os.Remove(tcPinPath), then Pin, whose failure is only a warning (it     *)
(* fails if the path exists).  The error of os.Remove is ignored in the    *)
(* code; that root can remove a file of bpffs is assumed here.             *)
(***************************************************************************)
Unpin_Kept(p) ==
    /\ Step(p, "unpin", "pin")
    /\ UNCHANGED <<holds, enabled, pinPathSet, solo, tcVars, sockVars>>

Unpin(p) ==
    /\ Step(p, "unpin", "pin")
    /\ tcPin' = None
    /\ UNCHANGED <<holds, enabled, pinPathSet, solo, qdisc, filters, sockVars>>

Pin(p) ==
    /\ Step(p, "pin", "qdisc")
    /\ tcPin' \in {tcPin} \cup (IF tcPin = None THEN {p} ELSE {})
    /\ UNCHANGED <<holds, enabled, pinPathSet, solo, qdisc, filters, sockVars>>

(***************************************************************************)
(* tc qdisc add (fails harmlessly when there is one) and tc filter add     *)
(* with the pinned program, else with the object file; the result of the   *)
(* second attempt is ignored.                                              *)
(***************************************************************************)
AddQdisc(p) ==
    /\ Step(p, "qdisc", "filter")
    /\ qdisc' \in {qdisc, TRUE}
    /\ UNCHANGED <<holds, enabled, pinPathSet, solo, filters, tcPin, sockVars>>

AddFilter_NoFallback(p) ==
    /\ Step(p, "filter", "reader")
    /\ \/ qdisc /\ filters' = filters \cup {[by |-> p, runs |-> tcPin]}
       \/ UNCHANGED filters
    /\ UNCHANGED <<holds, enabled, pinPathSet, solo, qdisc, tcPin, sockVars>>

AddFilter(p) ==
    /\ Step(p, "filter", "reader")
    /\ \/ /\ qdisc
          /\ \E prog \in {tcPin, FileCopy} \ {None} :
                filters' = filters \cup {[by |-> p, runs |-> prog]}
       \/ UNCHANGED filters
    /\ UNCHANGED <<holds, enabled, pinPathSet, solo, qdisc, tcPin, sockVars>>

-----------------------------------------------------------------------------
(***************************************************************************)
(* main: --enable-sockops or not.                                          *)
(***************************************************************************)
Flags(p) ==
    /\ Step(p, "flags", "so_load") \/ Step(p, "flags", "rules")
    /\ UNCHANGED <<holds, enabled, pinPathSet, solo, tcVars, sockVars>>

(***************************************************************************)
(* LoadSockops, as far as nothing fails.                                   *)
(***************************************************************************)
SockopsLoad(p) ==
    /\ \/ /\ Step(p, "so_load", "so_unpin")
          /\ Acquire(p, "sockopsObjs")
          /\ UNCHANGED <<enabled, pinPathSet, sockVars>>
       \/ /\ Step(p, "so_unpin", "so_pin")
          /\ pinPathSet' = [pinPathSet EXCEPT ![p] = TRUE]
          /\ sockPin' = None
          /\ UNCHANGED <<holds, enabled, skmsg>>
       \/ /\ Step(p, "so_pin", "so_skmsg")
          /\ sockPin = None
          /\ sockPin' = p
          /\ UNCHANGED <<holds, enabled, pinPathSet, skmsg>>
       \/ /\ Step(p, "so_skmsg", "so_cgroup")
          /\ Acquire(p, "skmsgObjs")
          /\ UNCHANGED <<enabled, pinPathSet, sockVars>>
       \/ /\ Step(p, "so_cgroup", "so_attach")
          /\ Acquire(p, "sockopsLink")
          /\ UNCHANGED <<enabled, pinPathSet, sockVars>>
       \/ /\ Step(p, "so_attach", "rules")
          /\ skmsg' = skmsg \cup {p}
          /\ enabled' = [enabled EXCEPT ![p] = TRUE]
          /\ UNCHANGED <<holds, pinPathSet, sockPin>>
    /\ UNCHANGED <<solo, tcVars>>

(***************************************************************************)
(* A step of LoadSockops fails: what the earlier ones did is undone, from  *)
(* the third step on the pin too, and the agent goes on without            *)
(* redirection.                                                            *)
(***************************************************************************)
Undone_LinkKept == SockParts \ {"sockopsLink"}

Undone == SockParts

SockopsFails(p) ==
    /\ pc[p] \in LoadingSockops \ {"so_unpin"}
    /\ Step(p, pc[p], "rules")
    /\ Release(p, Undone)
    /\ sockPin' = IF pc[p] \in {"so_load", "so_pin"} THEN sockPin ELSE None
    /\ UNCHANGED <<enabled, pinPathSet, solo, tcVars, skmsg>>

(***************************************************************************)
(* Start-up rules are in (DirectRules, PolicyReload) and signal.Notify has *)
(* run; later a signal arrives and the deferred Close begins.              *)
(***************************************************************************)
Operate(p) ==
    /\ Step(p, "rules", "running") \/ Step(p, "running", "c_reader")
    /\ UNCHANGED <<holds, enabled, pinPathSet, solo, tcVars, sockVars>>

-----------------------------------------------------------------------------
(***************************************************************************)
(* Close, step by step.  Deleting the qdisc takes every filter with it.    *)
(* The paths are removed whoever put something there.  The code ignores    *)
(* the errors of tc qdisc del and of the removals; they are assumed not to *)
(* happen to root.                                                         *)
(***************************************************************************)
CloseHooks(p) ==
    /\ \/ Step(p, "c_reader", "c_xdp") /\ Release(p, {"reader"})
       \/ Step(p, "c_xdp", "c_qdisc") /\ Release(p, {"xdpLink"})
       \/ Step(p, "c_link", "c_sockunpin") /\ Release(p, {"sockopsLink"})
    /\ UNCHANGED <<enabled, pinPathSet, solo, tcVars, sockVars>>

CloseTc_PinKept(p) ==
    /\ \/ Step(p, "c_qdisc", "c_unpin") /\ qdisc' = FALSE /\ filters' = {}
       \/ Step(p, "c_unpin", "c_detach") /\ UNCHANGED <<qdisc, filters>>
    /\ UNCHANGED <<holds, enabled, pinPathSet, solo, tcPin, sockVars>>

CloseTc(p) ==
    /\ \/ Step(p, "c_qdisc", "c_unpin") /\ qdisc' = FALSE /\ filters' = {} /\ UNCHANGED tcPin
       \/ Step(p, "c_unpin", "c_detach") /\ tcPin' = None /\ UNCHANGED <<qdisc, filters>>
    /\ UNCHANGED <<holds, enabled, pinPathSet, solo, sockVars>>

CloseSockops(p) ==
    /\ \/ Step(p, "c_detach", "c_link") /\ skmsg' = skmsg \ {p} /\ UNCHANGED sockPin
       \/ /\ Step(p, "c_sockunpin", "c_objs")
          /\ sockPin' = IF pinPathSet[p] THEN None ELSE sockPin
          /\ UNCHANGED skmsg
    /\ UNCHANGED <<holds, enabled, pinPathSet, solo, tcVars>>

CloseObjects(p) ==
    /\ Step(p, "c_objs", "closed")
    /\ Release(p, Part)
    /\ UNCHANGED <<enabled, pinPathSet, solo, tcVars, sockVars>>

(***************************************************************************)
(* The process ends without Close: the error returns of NewFirewallLoader  *)
(* (they close what the exit would release anyway) and the log.Fatalf that *)
(* follows, the log.Fatalf on a refused start-up rule, a signal before     *)
(* signal.Notify, a crash.                                                 *)
(***************************************************************************)
Die(p) ==
    /\ Alive(p)
    /\ Step(p, pc[p], "dead")
    /\ Release(p, Part)
    /\ enabled' = [enabled EXCEPT ![p] = FALSE]
    /\ pinPathSet' = [pinPathSet EXCEPT ![p] = FALSE]
    /\ UNCHANGED <<solo, tcVars, sockVars>>

-----------------------------------------------------------------------------
(***************************************************************************)
(* A map is freed with its last reference, a descriptor or the pin.        *)
(***************************************************************************)
MapLive(m) == "sockopsObjs" \in holds[m] \/ sockPin = m

FreeMaps ==
    /\ sockHash' = [m \in Map |-> IF MapLive(m)' THEN sockHash[m] ELSE {}]
    /\ UNCHANGED open

Attached == {p \in Process : "sockopsLink" \in holds[p]}

AgentStep(p) ==
    \/ Start(p) \/ Load(p) \/ Unpin(p) \/ Pin(p) \/ AddQdisc(p) \/ AddFilter(p)
    \/ Flags(p) \/ SockopsLoad(p) \/ SockopsFails(p) \/ Operate(p)
    \/ CloseHooks(p) \/ CloseTc(p) \/ CloseSockops(p) \/ CloseObjects(p) \/ Die(p)

AgentNext ==
    \/ \E p \in Process : AgentStep(p) /\ FreeMaps
    \/ \E e \in End : (Established(e, Attached) \/ SocketCloses(e)) /\ UNCHANGED agentVars

AgentSpec == AgentInit /\ [][AgentNext]_<<agentVars, redirectVars>>

-----------------------------------------------------------------------------
(***************************************************************************)
(* A filter runs the program of the process that added it, or the copy in  *)
(* the object file, never a program another process left pinned, even when *)
(* processes overlap: the pin path is theirs alone while they hold the XDP *)
(* link.  (The filter of a process that died stays attached and goes on    *)
(* running that process's program.)                                        *)
(***************************************************************************)
OwnFilter == \A f \in filters : f.runs \in {f.by, FileCopy}

(***************************************************************************)
(* "Close detaches XDP, TC, Sockops & Sk_msg links, closes ringbuf reader, *)
(* and unloads BPF objects" (loader.go:590): when the latest process had   *)
(* the host to itself and ended through Close, nothing is left behind, nor *)
(* what earlier processes left when they died.                             *)
(***************************************************************************)
CleanExit ==
    \A p \in Process :
        pc[p] = "closed" /\ solo[p] /\ (\A q \in Process : q > p => pc[q] = "new") =>
            /\ ~qdisc /\ filters = {} /\ tcPin = None
            /\ sockPin # p /\ (pinPathSet[p] => sockPin = None)
            /\ sockHash[p] = {}

(***************************************************************************)
(* Outside LoadSockops and Close redirection is either on with all of its  *)
(* parts, or off with none of them and no map of this process left pinned: *)
(* a failure half way leaves nothing that hooks sockets.                   *)
(***************************************************************************)
SockopsAllOrNothing ==
    \A p \in Process :
        pc[p] \in Starting \cup Up =>
            IF enabled[p] THEN SockParts \subseteq holds[p] /\ p \in skmsg
            ELSE SockParts \cap holds[p] = {} /\ p \notin skmsg /\ sockPin # p

(***************************************************************************)
(* "The bpf_ntohl() applied during sockops registration and the raw access *)
(* here produce matching keys" (proxy_redirect.c:53): once the sk_msg      *)
(* program is attached, of two ends that are both registered each is found *)
(* by the other.                                                           *)
(***************************************************************************)
PeersFindEachOther ==
    \A m \in skmsg : \A e \in Registered(m) :
        Peer(e) \in Registered(m) => Destination(m, e, RemotePortOrder) = Peer(e)
=============================================================================
