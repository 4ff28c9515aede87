------------------------ MODULE AgentLifecycleProofs ------------------------
(***************************************************************************)
(* Proofs about AgentLifecycle, and the SockRedirect it drives, for every  *)
(* number of processes, every set of connections and every size of the     *)
(* sock_hash maps.                                                         *)
(***************************************************************************)
EXTENDS AgentLifecycle, TLAPS

(***************************************************************************)
(* Freeing maps and the two socket callbacks keep registered ends open.    *)
(***************************************************************************)
LEMMA SocketTypes ==
    ASSUME AgentTypeOK,
           \/ FreeMaps
           \/ \E e \in End : Established(e, Attached) \/ SocketCloses(e)
    PROVE  /\ (open \subseteq End)'
           /\ (\A m \in Map : Registered(m) \subseteq open)'
  <1>1. \A m \in Map : \A s \in sockHash[m] : s.sock \in open
    BY DEF AgentTypeOK, Registered
  <1>2. open \subseteq End
    BY DEF AgentTypeOK
  <1> SUFFICES /\ open' \subseteq End
               /\ \A m \in Map : \A s \in sockHash'[m] : s.sock \in open'
    BY DEF Registered
  <1>3. CASE FreeMaps
    BY <1>1, <1>2, <1>3 DEF FreeMaps
  <1>4. ASSUME NEW e \in End, Established(e, Attached)
        PROVE  /\ open' \subseteq End
               /\ \A m \in Map : \A s \in sockHash'[m] : s.sock \in open'
    <2>1. open' = open \cup {e}
      BY <1>4 DEF Established
    <2>2. ASSUME NEW m \in Map PROVE sockHash'[m] \subseteq sockHash[m] \cup {[key |-> RegKey(e), sock |-> e]}
      BY <1>4 DEF Established, Register
    <2> QED
      BY <1>1, <1>2, <2>1, <2>2
  <1>5. ASSUME NEW e \in End, SocketCloses(e)
        PROVE  /\ open' \subseteq End
               /\ \A m \in Map : \A s \in sockHash'[m] : s.sock \in open'
    BY <1>1, <1>2, <1>5 DEF SocketCloses
  <1> QED
    BY <1>3, <1>4, <1>5

(***************************************************************************)
(* The types of what the processes and the host hold, without the sockets. *)
(***************************************************************************)
HostTypeOK ==
    /\ pc \in [Process -> Pc]
    /\ holds \in [Process -> SUBSET Part]
    /\ enabled \in [Process -> BOOLEAN]
    /\ pinPathSet \in [Process -> BOOLEAN]
    /\ solo \in [Process -> BOOLEAN]
    /\ qdisc \in BOOLEAN
    /\ filters \subseteq [by : Process, runs : Process \cup {FileCopy}]
    /\ tcPin \in Process \cup {None}
    /\ sockPin \in Process \cup {None}
    /\ skmsg \subseteq Process

(***************************************************************************)
(* Every step of a process keeps these types.                              *)
(***************************************************************************)
LEMMA HostTypes ==
    ASSUME HostTypeOK, NEW p \in Process, AgentStep(p)
    PROVE  HostTypeOK'
  <1> USE DEF HostTypeOK, Step, Acquire, Release, tcVars, sockVars
  <1> USE DEF Pc, Starting, Up, LoadingSockops, Closing, Part, SockParts
  <1>1. CASE Start(p)
    <2>1. solo' \in [Process -> BOOLEAN]
      BY <1>1, Zenon DEF Start
    <2> QED
      BY <1>1, <2>1 DEF Start
  <1>2. CASE Load(p)
    BY <1>2 DEF Load
  <1>3. CASE Unpin(p) \/ Pin(p)
    BY <1>3 DEF Unpin, Pin
  <1>4. CASE AddQdisc(p)
    BY <1>4 DEF AddQdisc
  <1>5. CASE AddFilter(p)
    <2>1. filters' \subseteq [by : Process, runs : Process \cup {FileCopy}]
      BY <1>5 DEF AddFilter
    <2> QED
      BY <1>5, <2>1 DEF AddFilter
  <1>6. CASE Flags(p) \/ Operate(p)
    BY <1>6 DEF Flags, Operate
  <1>7. CASE SockopsLoad(p)
    <2>1. pc' \in [Process -> Pc] /\ holds' \in [Process -> SUBSET Part]
      BY <1>7 DEF SockopsLoad
    <2>2. enabled' \in [Process -> BOOLEAN] /\ pinPathSet' \in [Process -> BOOLEAN]
      BY <1>7 DEF SockopsLoad
    <2>3. sockPin' \in Process \cup {None} /\ skmsg' \subseteq Process
      BY <1>7 DEF SockopsLoad
    <2>4. UNCHANGED <<solo, qdisc, filters, tcPin>>
      BY <1>7 DEF SockopsLoad
    <2> QED
      BY <2>1, <2>2, <2>3, <2>4
  <1>8. CASE SockopsFails(p)
    BY <1>8 DEF SockopsFails, Undone
  <1>9. CASE CloseHooks(p)
    BY <1>9 DEF CloseHooks
  <1>10. CASE CloseTc(p)
    <2>1. pc' \in [Process -> Pc]
      BY <1>10 DEF CloseTc
    <2>2. /\ qdisc' \in BOOLEAN /\ tcPin' \in {tcPin, None} /\ filters' \in {filters, {}}
          /\ UNCHANGED <<holds, enabled, pinPathSet, solo, sockPin, skmsg>>
      BY <1>10 DEF CloseTc
    <2> QED
      BY <2>1, <2>2
  <1>11. CASE CloseSockops(p) \/ CloseObjects(p)
    BY <1>11 DEF CloseSockops, CloseObjects
  <1>12. CASE Die(p)
    BY <1>12 DEF Die
  <1> QED
    BY <1>1, <1>2, <1>3, <1>4, <1>5, <1>6, <1>7, <1>8, <1>9, <1>10, <1>11, <1>12
    DEF AgentStep

(***************************************************************************)
(* Processes, host and sockets together start out well typed and stay so.  *)
(***************************************************************************)
LEMMA AgentTypeInit == AgentInit => AgentTypeOK
  BY DEF AgentInit, AgentTypeOK, Pc, Registered

(***************************************************************************)
(* Every step of a process, and every socket that opens, registers or      *)
(* closes, keeps the types.                                                *)
(***************************************************************************)
LEMMA AgentTypeStep == AgentTypeOK /\ [AgentNext]_<<agentVars, redirectVars>> => AgentTypeOK'
  <1> SUFFICES ASSUME AgentTypeOK, [AgentNext]_<<agentVars, redirectVars>> PROVE AgentTypeOK'
    OBVIOUS
  <1>1. HostTypeOK
    BY DEF AgentTypeOK, HostTypeOK
  <1>2. ASSUME NEW p \in Process, AgentStep(p), FreeMaps PROVE AgentTypeOK'
    <2>1. HostTypeOK'
      BY <1>1, <1>2, HostTypes
    <2>2. (open \subseteq End)' /\ (\A m \in Map : Registered(m) \subseteq open)'
      BY <1>2, SocketTypes
    <2> QED
      BY <2>1, <2>2 DEF HostTypeOK, AgentTypeOK
  <1>3. ASSUME NEW e \in End, Established(e, Attached) \/ SocketCloses(e), UNCHANGED agentVars
        PROVE  AgentTypeOK'
    <2>1. HostTypeOK'
      BY <1>1, <1>3 DEF HostTypeOK, agentVars, processVars, tcVars, sockVars
    <2>2. (open \subseteq End)' /\ (\A m \in Map : Registered(m) \subseteq open)'
      BY <1>3, SocketTypes
    <2> QED
      BY <2>1, <2>2 DEF HostTypeOK, AgentTypeOK
  <1>4. CASE UNCHANGED <<agentVars, redirectVars>>
    BY <1>4 DEF AgentTypeOK, Registered, agentVars, processVars, tcVars, sockVars, redirectVars
  <1> QED
    BY <1>2, <1>3, <1>4 DEF AgentNext

(***************************************************************************)
(* Every process is at a step of main, NewFirewallLoader, LoadSockops or   *)
(* Close, filters run known programs, and only open sockets are in maps.   *)
(***************************************************************************)
THEOREM AgentTypeCorrect == AgentSpec => []AgentTypeOK
  BY AgentTypeInit, AgentTypeStep, PTL DEF AgentSpec

-----------------------------------------------------------------------------
(***************************************************************************)
(* The pin path of the TC program belongs to whoever holds the XDP link:   *)
(* a process holds it from attaching on until Close gives it up            *)
(* (LinkHeld), no two do (LinkExclusive), and between its own Unpin and    *)
(* its AddFilter nobody else can have pinned anything (PinOwned).          *)
(***************************************************************************)
LinkStage == (Starting \ {"load", "attach"}) \cup Up \cup LoadingSockops \cup {"c_reader", "c_xdp"}

LinkHeld == \A p \in Process : pc[p] \in LinkStage => "xdpLink" \in holds[p]

LinkExclusive ==
    \A p, q \in Process : "xdpLink" \in holds[p] /\ "xdpLink" \in holds[q] => p = q

PinOwned == \A p \in Process : pc[p] \in {"pin", "qdisc", "filter"} => tcPin \in {None, p}

FilterInv == LinkHeld /\ LinkExclusive /\ PinOwned /\ OwnFilter


(***************************************************************************)
(* A step that gives nobody the link or a pin keeps FilterInv, if those    *)
(* who still need the link keep it.                                        *)
(***************************************************************************)
LEMMA FilterFrame ==
    ASSUME FilterInv,
           \A q \in Process :
              /\ "xdpLink" \in holds'[q] => "xdpLink" \in holds[q]
              /\ pc'[q] \in LinkStage => "xdpLink" \in holds'[q]
              /\ pc'[q] \in {"pin", "qdisc", "filter"} => pc[q] \in {"pin", "qdisc", "filter"},
           tcPin' \in {tcPin, None},
           filters' \subseteq filters
    PROVE  FilterInv'
  <1>1. LinkHeld'
    BY DEF LinkHeld
  <1>2. LinkExclusive'
    BY DEF FilterInv, LinkExclusive
  <1>3. PinOwned'
    BY DEF FilterInv, PinOwned
  <1>4. OwnFilter'
    BY DEF FilterInv, OwnFilter
  <1> QED
    BY <1>1, <1>2, <1>3, <1>4 DEF FilterInv

(***************************************************************************)
(* Only the process that holds the link pins, and it pins its own program. *)
(***************************************************************************)
LEMMA FilterStep ==
    ASSUME AgentTypeOK, FilterInv, NEW p \in Process, AgentStep(p)
    PROVE  FilterInv'
  <1> USE DEF Step, Acquire, Release, tcVars
  <1>0. /\ pc \in [Process -> Pc] /\ holds \in [Process -> SUBSET Part]
        /\ \A q \in Process : pc[q] \in LinkStage => "xdpLink" \in holds[q]
    BY DEF AgentTypeOK, FilterInv, LinkHeld
  <1>1. CASE Start(p) \/ Flags(p) \/ Operate(p) \/ AddQdisc(p)
    <2>1. \A q \in Process :
              /\ pc'[q] \in LinkStage => pc[q] \in LinkStage
              /\ pc'[q] \in {"pin", "qdisc", "filter"} => pc[q] \in {"pin", "qdisc", "filter"}
      BY <1>0, <1>1 DEF Start, Flags, Operate, AddQdisc, LinkStage, Starting, Up, LoadingSockops
    <2>2. UNCHANGED <<holds, tcPin, filters>>
      BY <1>1 DEF Start, Flags, Operate, AddQdisc
    <2> QED
      BY <1>0, <2>1, <2>2, FilterFrame
  <1>2. CASE Load(p)
    <2>1. CASE pc[p] = "attach"
      <3>1. /\ pc' = [pc EXCEPT ![p] = "tcload"]
            /\ \A q \in Process : "xdpLink" \notin holds[q]
            /\ holds' = [holds EXCEPT ![p] = @ \cup {"xdpLink"}]
            /\ UNCHANGED <<tcPin, filters>>
        BY <1>2, <2>1 DEF Load
      <3>2. LinkHeld' /\ LinkExclusive' /\ PinOwned' /\ OwnFilter'
        BY <1>0, <3>1 DEF FilterInv, LinkHeld, LinkExclusive, PinOwned, OwnFilter
      <3> QED
        BY <3>2 DEF FilterInv
    <2>2. CASE pc[p] # "attach"
      <3>1. \A q \in Process :
              /\ "xdpLink" \in holds'[q] <=> "xdpLink" \in holds[q]
              /\ pc'[q] \in LinkStage => pc[q] \in LinkStage
              /\ pc'[q] \in {"pin", "qdisc", "filter"} => pc[q] \in {"pin", "qdisc", "filter"}
        BY <1>0, <1>2, <2>2 DEF Load, LinkStage, Starting, Up, LoadingSockops
      <3>2. UNCHANGED <<tcPin, filters>>
        BY <1>2 DEF Load
      <3> QED
        BY <1>0, <3>1, <3>2, FilterFrame
    <2> QED
      BY <2>1, <2>2
  <1>3. CASE Unpin(p) \/ Pin(p) \/ AddFilter(p)
    <2>1. \A q \in Process : pc'[q] \in LinkStage => pc[q] \in LinkStage
      BY <1>0, <1>3 DEF Unpin, Pin, AddFilter, LinkStage, Starting, Up, LoadingSockops
    <2>2. holds' = holds
      BY <1>3 DEF Unpin, Pin, AddFilter
    <2>3. LinkHeld' /\ LinkExclusive'
      BY <1>0, <2>1, <2>2 DEF FilterInv, LinkHeld, LinkExclusive
    <2>4. PinOwned'
      <3>1. CASE Unpin(p)
        BY <3>1 DEF Unpin, PinOwned
      <3>2. CASE Pin(p)
        <4> SUFFICES ASSUME NEW q \in Process, pc'[q] \in {"pin", "qdisc", "filter"}
                     PROVE  tcPin' \in {None, q}
          BY DEF PinOwned
        <4>1. pc[p] = "pin" /\ tcPin' \in {None, tcPin, p} /\ (tcPin' # tcPin => tcPin' = p)
          BY <3>2 DEF Pin
        <4>2. pc[q] \in {"pin", "qdisc", "filter"}
          BY <1>0, <3>2 DEF Pin
        <4>3. "xdpLink" \in holds[p] /\ "xdpLink" \in holds[q]
          BY <1>0, <4>1, <4>2 DEF LinkStage, Starting
        <4>4. q = p
          BY <4>3 DEF FilterInv, LinkExclusive
        <4> QED
          BY <4>1, <4>2, <4>4 DEF FilterInv, PinOwned
      <3>3. CASE AddFilter(p)
        BY <1>0, <3>3 DEF AddFilter, FilterInv, PinOwned
      <3> QED
        BY <1>3, <3>1, <3>2, <3>3
    <2>5. OwnFilter'
      <3>1. CASE Unpin(p) \/ Pin(p)
        BY <3>1 DEF Unpin, Pin, FilterInv, OwnFilter
      <3>2. CASE AddFilter(p)
        <4>1. tcPin \in {None, p}
          BY <3>2 DEF AddFilter, FilterInv, PinOwned
        <4>2. \A f \in filters' : f \in filters \/ (f.by = p /\ f.runs \in {p, FileCopy})
          BY <3>2, <4>1 DEF AddFilter
        <4> QED
          BY <4>2 DEF FilterInv, OwnFilter
      <3> QED
        BY <1>3, <3>1, <3>2
    <2> QED
      BY <2>3, <2>4, <2>5 DEF FilterInv
  <1>4. CASE SockopsLoad(p)
    <2>1. \A q \in Process :
              /\ "xdpLink" \in holds'[q] <=> "xdpLink" \in holds[q]
              /\ pc'[q] \in LinkStage => pc[q] \in LinkStage
              /\ pc'[q] \in {"pin", "qdisc", "filter"} => pc[q] \in {"pin", "qdisc", "filter"}
      BY <1>0, <1>4 DEF SockopsLoad, LinkStage, Up, LoadingSockops
    <2>2. UNCHANGED <<tcPin, filters>>
      BY <1>4 DEF SockopsLoad
    <2> QED
      BY <1>0, <2>1, <2>2, FilterFrame
  <1>5. CASE SockopsFails(p)
    <2>1. \A q \in Process :
              /\ "xdpLink" \in holds'[q] <=> "xdpLink" \in holds[q]
              /\ pc'[q] \in LinkStage => pc[q] \in LinkStage
              /\ pc'[q] \in {"pin", "qdisc", "filter"} => pc[q] \in {"pin", "qdisc", "filter"}
      BY <1>0, <1>5 DEF SockopsFails, Undone, SockParts, LinkStage, Up, LoadingSockops
    <2>2. UNCHANGED <<tcPin, filters>>
      BY <1>5 DEF SockopsFails
    <2> QED
      BY <1>0, <2>1, <2>2, FilterFrame
  <1>6. CASE CloseHooks(p) \/ CloseTc(p) \/ CloseSockops(p) \/ CloseObjects(p) \/ Die(p)
    <2>1. \A q \in Process :
              /\ "xdpLink" \in holds'[q] => "xdpLink" \in holds[q]
              /\ q # p => holds'[q] = holds[q] /\ pc'[q] = pc[q]
      BY <1>0, <1>6 DEF CloseHooks, CloseTc, CloseSockops, CloseObjects, Die
    <2>2. /\ pc'[p] \in Closing \cup {"closed", "dead"}
          /\ pc'[p] \in LinkStage => pc[p] = "c_reader" /\ "xdpLink" \in holds'[p]
      BY <1>0, <1>6 DEF CloseHooks, CloseTc, CloseSockops, CloseObjects, Die, Closing,
                        LinkStage, Starting, Up, LoadingSockops
    <2>3. pc'[p] \notin {"pin", "qdisc", "filter"}
      BY <2>2 DEF Closing
    <2>4. tcPin' \in {tcPin, None} /\ filters' \subseteq filters
      BY <1>6 DEF CloseHooks, CloseTc, CloseSockops, CloseObjects, Die
    <2>5. \A q \in Process :
              /\ pc'[q] \in LinkStage => "xdpLink" \in holds'[q]
              /\ pc'[q] \in {"pin", "qdisc", "filter"} => pc[q] \in {"pin", "qdisc", "filter"}
      BY <1>0, <2>1, <2>2, <2>3
    <2> QED
      BY <2>1, <2>4, <2>5, FilterFrame
  <1> QED
    BY <1>1, <1>2, <1>3, <1>4, <1>5, <1>6 DEF AgentStep

(***************************************************************************)
(* No filter ever runs a program that another process, dead or alive, left *)
(* at the pin path, however many agents start, overlap and die.            *)
(***************************************************************************)
THEOREM OwnFilterHolds == AgentSpec => []OwnFilter
  <1>1. AgentInit => AgentTypeOK /\ FilterInv
    <2>1. AgentInit => FilterInv
      BY DEF AgentInit, FilterInv, LinkHeld, LinkExclusive, PinOwned, OwnFilter, LinkStage,
             Starting, Up, LoadingSockops
    <2> QED
      BY <2>1, AgentTypeInit
  <1>2. AgentTypeOK /\ FilterInv /\ [AgentNext]_<<agentVars, redirectVars>>
            => (AgentTypeOK /\ FilterInv)'
    <2>1. ASSUME AgentTypeOK, FilterInv, UNCHANGED agentVars PROVE FilterInv'
      BY <2>1 DEF agentVars, processVars, tcVars, FilterInv, LinkHeld, LinkExclusive,
                  PinOwned, OwnFilter
    <2> QED
      BY <2>1, FilterStep, AgentTypeStep DEF AgentNext
  <1>3. FilterInv => OwnFilter
    BY DEF FilterInv
  <1> QED
    BY <1>1, <1>2, <1>3, PTL DEF AgentSpec

-----------------------------------------------------------------------------
(***************************************************************************)
(* A process changes nothing of another one, except that it may free the   *)
(* path where the other's map is pinned.                                   *)
(***************************************************************************)
LEMMA OthersKept ==
    ASSUME AgentTypeOK, NEW p \in Process, AgentStep(p), NEW q \in Process, q # p
    PROVE  /\ pc'[q] = pc[q] /\ holds'[q] = holds[q]
           /\ enabled'[q] = enabled[q] /\ pinPathSet'[q] = pinPathSet[q]
           /\ q \in skmsg' <=> q \in skmsg
           /\ sockPin' = q => sockPin = q
  <1> USE DEF Step, Acquire, Release, sockVars
  <1>0. /\ pc \in [Process -> Pc] /\ holds \in [Process -> SUBSET Part]
        /\ enabled \in [Process -> BOOLEAN] /\ pinPathSet \in [Process -> BOOLEAN]
        /\ sockPin \in Process \cup {None} /\ None \notin Process
    BY ProcessAssumption DEF AgentTypeOK
  <1>1. CASE Start(p) \/ Load(p) \/ Unpin(p) \/ Pin(p) \/ AddQdisc(p) \/ AddFilter(p)
    BY <1>0, <1>1 DEF Start, Load, Unpin, Pin, AddQdisc, AddFilter
  <1>2. CASE Flags(p) \/ Operate(p) \/ CloseHooks(p) \/ CloseTc(p) \/ CloseObjects(p) \/ Die(p)
    BY <1>0, <1>2 DEF Flags, Operate, CloseHooks, CloseTc, CloseObjects, Die
  <1>3. CASE SockopsLoad(p)
    BY <1>0, <1>3 DEF SockopsLoad
  <1>4. CASE SockopsFails(p) \/ CloseSockops(p)
    BY <1>0, <1>4 DEF SockopsFails, CloseSockops
  <1> QED
    BY <1>1, <1>2, <1>3, <1>4 DEF AgentStep

(***************************************************************************)
(* SockopsAllOrNothing speaks of a process that is not in LoadSockops; it  *)
(* rests on what LoadSockops has done at each of its steps.                *)
(***************************************************************************)
BeforeSockops == {"new", "flags", "so_load"} \cup Starting

SockopsAt(p) ==
    /\ pc[p] \in BeforeSockops \cup LoadingSockops => ~enabled[p] /\ p \notin skmsg
    /\ pc[p] \in BeforeSockops => SockParts \cap holds[p] = {}
    /\ pc[p] \in BeforeSockops \cup {"so_unpin", "so_pin"} => sockPin # p
    /\ pc[p] \in LoadingSockops \ {"so_load"} => "sockopsObjs" \in holds[p]
    /\ pc[p] \in {"so_cgroup", "so_attach"} => "skmsgObjs" \in holds[p]
    /\ pc[p] = "so_attach" => "sockopsLink" \in holds[p]
    /\ pc[p] \in {"rules", "running"} =>
          IF enabled[p] THEN SockParts \subseteq holds[p] /\ p \in skmsg
          ELSE SockParts \cap holds[p] = {} /\ p \notin skmsg /\ sockPin # p

SockopsInv == \A p \in Process : SockopsAt(p)

(***************************************************************************)
(* Nothing of redirection is there before the first process.               *)
(***************************************************************************)
LEMMA SockopsInit == AgentInit => SockopsInv
  BY ProcessAssumption DEF AgentInit, SockopsInv, SockopsAt, SockParts, LoadingSockops

(***************************************************************************)
(* LoadSockops acquires its parts in order, undoes all of them on every    *)
(* failure, and the path it frees is the one it may have pinned.           *)
(***************************************************************************)
LEMMA SockopsStep ==
    ASSUME AgentTypeOK, SockopsInv, NEW p \in Process, AgentStep(p)
    PROVE  SockopsInv'
  <1> USE DEF Step, Acquire, Release, sockVars
  <1>0. /\ pc \in [Process -> Pc] /\ holds \in [Process -> SUBSET Part]
        /\ enabled \in [Process -> BOOLEAN]
        /\ sockPin \in Process \cup {None} /\ None \notin Process
        /\ SockopsAt(p)
    BY ProcessAssumption DEF AgentTypeOK, SockopsInv
  <1>1. ASSUME NEW q \in Process, q # p PROVE SockopsAt(q)'
    <2>1. /\ pc'[q] = pc[q] /\ holds'[q] = holds[q] /\ enabled'[q] = enabled[q]
          /\ q \in skmsg' <=> q \in skmsg
          /\ sockPin' = q => sockPin = q
      BY <1>1, OthersKept
    <2>2. SockopsAt(q)
      BY DEF SockopsInv
    <2> QED
      BY <2>1, <2>2 DEF SockopsAt
  <1>2. SockopsAt(p)'
    <2> USE DEF SockopsAt, BeforeSockops, Starting, Up, LoadingSockops, SockParts
    <2>1. CASE Start(p)
      BY <1>0, <2>1 DEF Start
    <2>2. CASE Load(p)
      BY <1>0, <2>2 DEF Load
    <2>3. CASE Unpin(p) \/ Pin(p) \/ AddQdisc(p) \/ AddFilter(p)
      BY <1>0, <2>3 DEF Unpin, Pin, AddQdisc, AddFilter
    <2>4. CASE Flags(p) \/ Operate(p)
      BY <1>0, <2>4 DEF Flags, Operate
    <2>5. CASE SockopsLoad(p)
      <3>1. CASE pc[p] = "so_load" \/ pc[p] = "so_unpin" \/ pc[p] = "so_pin"
        BY <1>0, <2>5, <3>1 DEF SockopsLoad
      <3>2. CASE pc[p] = "so_skmsg" \/ pc[p] = "so_cgroup"
        BY <1>0, <2>5, <3>2 DEF SockopsLoad
      <3>3. CASE pc[p] = "so_attach"
        BY <1>0, <2>5, <3>3 DEF SockopsLoad
      <3> QED
        BY <2>5, <3>1, <3>2, <3>3 DEF SockopsLoad
    <2>6. CASE SockopsFails(p)
      BY <1>0, <2>6 DEF SockopsFails, Undone
    <2>7. CASE CloseHooks(p) \/ CloseTc(p) \/ CloseSockops(p) \/ CloseObjects(p) \/ Die(p)
      <3>1. pc'[p] \in Closing \cup {"closed", "dead"}
        BY <1>0, <2>7 DEF CloseHooks, CloseTc, CloseSockops, CloseObjects, Die, Closing
      <3> QED
        BY <3>1 DEF Closing
    <2> QED
      BY <2>1, <2>2, <2>3, <2>4, <2>5, <2>6, <2>7 DEF AgentStep
  <1> QED
    BY <1>1, <1>2 DEF SockopsInv

(***************************************************************************)
(* Redirection is on with all of its parts or off with none, whichever     *)
(* step of LoadSockops fails and whatever other processes do meanwhile.    *)
(***************************************************************************)
THEOREM SockopsAllOrNothingHolds == AgentSpec => []SockopsAllOrNothing
  <1>1. AgentInit => AgentTypeOK /\ SockopsInv
    BY AgentTypeInit, SockopsInit
  <1>2. AgentTypeOK /\ SockopsInv /\ [AgentNext]_<<agentVars, redirectVars>>
            => (AgentTypeOK /\ SockopsInv)'
    <2>1. ASSUME SockopsInv, UNCHANGED agentVars PROVE SockopsInv'
      BY <2>1 DEF agentVars, processVars, sockVars, SockopsInv, SockopsAt
    <2> QED
      BY <2>1, SockopsStep, AgentTypeStep DEF AgentNext
  <1>3. SockopsInv => SockopsAllOrNothing
    BY DEF SockopsInv, SockopsAt, SockopsAllOrNothing, BeforeSockops, Up
  <1> QED
    BY <1>1, <1>2, <1>3, PTL DEF AgentSpec

-----------------------------------------------------------------------------
(***************************************************************************)
(* Processes start in order, one that had the host to itself still has it, *)
(* and one that closed leaves nobody behind that started before it.        *)
(***************************************************************************)
StartOrder == \A p, q \in Process : q < p /\ pc[p] # "new" => pc[q] # "new"

SoloAlone == \A p, q \in Process : solo[p] /\ Alive(p) /\ q # p => ~Alive(q)

SoloLast == \A p, q \in Process : solo[p] /\ pc[p] = "closed" /\ q < p => ~Alive(q)

SoloInv == StartOrder /\ SoloAlone /\ SoloLast

(***************************************************************************)
(* A process that takes a step either starts or was alive.                 *)
(***************************************************************************)
LEMMA StepShape ==
    ASSUME AgentTypeOK, NEW p \in Process, AgentStep(p)
    PROVE  /\ pc'[p] # "new"
           /\ \A q \in Process : q # p => pc'[q] = pc[q]
           /\ Start(p) \/ (Alive(p) /\ solo' = solo)
           /\ Start(p) => pc[p] = "new" /\ pc'[p] = "load"
  <1> USE DEF Step, Alive
  <1>0. pc \in [Process -> Pc]
    BY DEF AgentTypeOK
  <1>1. CASE Start(p)
    BY <1>0, <1>1 DEF Start
  <1>2. CASE Load(p) \/ Unpin(p) \/ Pin(p) \/ AddQdisc(p) \/ AddFilter(p)
    BY <1>0, <1>2 DEF Load, Unpin, Pin, AddQdisc, AddFilter, Start
  <1>3. CASE Flags(p) \/ Operate(p) \/ SockopsLoad(p)
    BY <1>0, <1>3 DEF Flags, Operate, SockopsLoad, Start
  <1>4. CASE SockopsFails(p)
    BY <1>0, <1>4 DEF SockopsFails, LoadingSockops, Start
  <1>5. CASE CloseHooks(p) \/ CloseTc(p) \/ CloseSockops(p) \/ CloseObjects(p) \/ Die(p)
    BY <1>0, <1>5 DEF CloseHooks, CloseTc, CloseSockops, CloseObjects, Die, Start
  <1> QED
    BY <1>1, <1>2, <1>3, <1>4, <1>5 DEF AgentStep

(***************************************************************************)
(* A start is what ends the solitude of the others, and it comes after     *)
(* every process with a smaller number.                                    *)
(***************************************************************************)
LEMMA SoloStep ==
    ASSUME AgentTypeOK, SoloInv, NEW p \in Process, AgentStep(p)
    PROVE  SoloInv'
  <1>0. /\ pc'[p] # "new"
        /\ \A q \in Process : q # p => pc'[q] = pc[q]
        /\ Start(p) \/ (Alive(p) /\ solo' = solo)
        /\ Start(p) => pc[p] = "new" /\ pc'[p] = "load"
    BY StepShape
  <1>1. CASE Start(p)
    <2>1. /\ \A q \in Process : q < p => pc[q] # "new"
          /\ solo' = [q \in Process |-> IF q = p THEN ~\E r \in Process : Alive(r)
                                        ELSE solo[q] /\ ~Alive(q)]
      BY <1>1 DEF Start
    <2>2. /\ solo'[p] => \A r \in Process : ~Alive(r)
          /\ \A q \in Process : q # p /\ solo'[q] => solo[q] /\ ~Alive(q)
      BY <2>1, Zenon
    <2>3. StartOrder'
      BY <1>0, <1>1, <2>1, ProcessAssumption DEF SoloInv, StartOrder, Process
    <2>4. SoloAlone'
      BY <1>0, <1>1, <2>2 DEF SoloInv, SoloAlone, Alive
    <2>5. SoloLast'
      <3> SUFFICES ASSUME NEW a \in Process, NEW b \in Process, solo'[a],
                          pc'[a] = "closed", b < a
                   PROVE  ~Alive(b)'
        BY DEF SoloLast
      <3>1. a # p /\ solo[a] /\ pc[a] = "closed"
        BY <1>0, <1>1, <2>2
      <3>2. pc[b] # "new" /\ ~Alive(b)
        BY <3>1 DEF SoloInv, StartOrder, SoloLast
      <3> QED
        BY <1>0, <1>1, <3>2 DEF Alive
    <2> QED
      BY <2>3, <2>4, <2>5 DEF SoloInv
  <1>2. CASE Alive(p) /\ solo' = solo
    <2>1. pc[p] # "new"
      BY <1>2 DEF Alive
    <2>2. StartOrder'
      BY <1>0, <2>1 DEF SoloInv, StartOrder
    <2>3. \A q \in Process : Alive(q)' => Alive(q)
      BY <1>0, <1>2 DEF Alive
    <2>4. SoloAlone'
      BY <1>2, <2>3 DEF SoloInv, SoloAlone
    <2>5. SoloLast'
      <3> SUFFICES ASSUME NEW a \in Process, NEW b \in Process, solo'[a],
                          pc'[a] = "closed", b < a
                   PROVE  ~Alive(b)'
        BY DEF SoloLast
      <3>1. a # b
        BY ProcessAssumption DEF Process
      <3>2. CASE a = p
        BY <1>2, <2>3, <3>1, <3>2 DEF SoloInv, SoloAlone
      <3>3. CASE a # p
        BY <1>0, <1>2, <2>3, <3>3 DEF SoloInv, SoloLast
      <3> QED
        BY <3>2, <3>3
    <2> QED
      BY <2>2, <2>4, <2>5 DEF SoloInv
  <1> QED
    BY <1>0, <1>1, <1>2

(***************************************************************************)
(* Redirection hooks of a process stand on its map, a map without          *)
(* references is empty, and the path of a pinned map is remembered.        *)
(***************************************************************************)
MapInv ==
    /\ \A p \in Process : "sockopsLink" \in holds[p] => "sockopsObjs" \in holds[p]
    /\ \A p \in Process : ~MapLive(p) => sockHash[p] = {}
    /\ \A p \in Process : pc[p] = "closed" => holds[p] = {}
    /\ \A p \in Process : pc[p] \in LoadingSockops \ {"so_load", "so_unpin"} => pinPathSet[p]
    /\ \A p \in Process : sockPin = p /\ pc[p] # "dead" => pinPathSet[p]

(***************************************************************************)
(* The sockops link goes before the objects it uses, and the path of a pin *)
(* is noted before the pin is made.                                        *)
(***************************************************************************)
LEMMA MapStep ==
    ASSUME AgentTypeOK, SockopsInv, MapInv, NEW p \in Process, AgentStep(p), FreeMaps
    PROVE  MapInv'
  <1> USE DEF Step, Acquire, Release, sockVars
  <1> DEFINE At(q) == /\ "sockopsLink" \in holds[q] => "sockopsObjs" \in holds[q]
                      /\ pc[q] = "closed" => holds[q] = {}
                      /\ pc[q] \in LoadingSockops \ {"so_load", "so_unpin"} => pinPathSet[q]
                      /\ sockPin = q /\ pc[q] # "dead" => pinPathSet[q]
  <1>0. /\ pc \in [Process -> Pc] /\ holds \in [Process -> SUBSET Part]
        /\ pinPathSet \in [Process -> BOOLEAN]
        /\ sockPin \in Process \cup {None} /\ None \notin Process
        /\ SockopsAt(p)
        /\ \A q \in Process : At(q)
    BY ProcessAssumption DEF AgentTypeOK, SockopsInv, MapInv
  <1>1. \A q \in Process : ~MapLive(q)' => sockHash'[q] = {}
    BY ProcessAssumption DEF FreeMaps
  <1>2. ASSUME NEW q \in Process, q # p PROVE At(q)'
    <2>1. /\ pc'[q] = pc[q] /\ holds'[q] = holds[q] /\ pinPathSet'[q] = pinPathSet[q]
          /\ sockPin' = q => sockPin = q
      BY <1>2, OthersKept
    <2> QED
      BY <1>0, <2>1
  <1>3. At(p)'
    <2> USE DEF LoadingSockops
    <2>1. CASE Start(p) \/ Unpin(p) \/ Pin(p) \/ AddQdisc(p) \/ AddFilter(p)
      BY <1>0, <2>1 DEF Start, Unpin, Pin, AddQdisc, AddFilter
    <2>2. CASE Flags(p) \/ Operate(p)
      BY <1>0, <2>2 DEF Flags, Operate
    <2>3. CASE SockopsLoad(p)
      <3>1. pc[p] \in LoadingSockops \ {"so_load"} => "sockopsObjs" \in holds[p]
        BY <1>0 DEF SockopsAt
      <3> QED
        BY <1>0, <2>3, <3>1 DEF SockopsLoad
    <2>4. CASE SockopsFails(p)
      BY <1>0, <2>4 DEF SockopsFails, Undone, SockParts
    <2>5. CASE CloseHooks(p) \/ CloseTc(p) \/ CloseSockops(p)
      BY <1>0, <2>5 DEF CloseHooks, CloseTc, CloseSockops
    <2>6. CASE CloseObjects(p) \/ Die(p)
      BY <1>0, <2>6 DEF CloseObjects, Die, Part, SockParts
    <2>7. CASE Load(p)
      BY <1>0, <2>7 DEF Load
    <2> QED
      BY <2>1, <2>2, <2>3, <2>4, <2>5, <2>6, <2>7 DEF AgentStep
  <1> QED
    BY <1>1, <1>2, <1>3 DEF MapInv

(***************************************************************************)
(* Sockets are registered only in maps that are referenced.                *)
(***************************************************************************)
LEMMA MapSocket ==
    ASSUME AgentTypeOK, MapInv, UNCHANGED agentVars, NEW e \in End,
           Established(e, Attached) \/ SocketCloses(e)
    PROVE  MapInv'
  <1>1. UNCHANGED <<pc, holds, pinPathSet, sockPin>>
    BY DEF agentVars, processVars, sockVars
  <1>2. ASSUME NEW m \in Process, ~MapLive(m)' PROVE sockHash'[m] = {}
    <2>1. m \in Map /\ sockHash[m] = {} /\ "sockopsObjs" \notin holds[m]
      BY <1>1, <1>2, ProcessAssumption DEF MapInv, MapLive
    <2>2. m \notin Attached
      BY <2>1 DEF MapInv, Attached
    <2> QED
      BY <2>1, <2>2 DEF Established, SocketCloses
  <1> QED
    BY <1>1, <1>2 DEF MapInv

(***************************************************************************)
(* What Close of a process that has the host to itself has undone so far.  *)
(***************************************************************************)
Alone(p) ==
    solo[p] /\ (Alive(p) \/ (pc[p] = "closed" /\ \A q \in Process : q > p => pc[q] = "new"))

AfterQdisc == {"c_unpin", "c_detach", "c_link", "c_sockunpin", "c_objs", "closed"}

Undoing ==
    \A p \in Process : Alone(p) =>
        /\ pc[p] \in AfterQdisc => ~qdisc /\ filters = {}
        /\ pc[p] \in AfterQdisc \ {"c_unpin"} => tcPin = None
        /\ pc[p] \in {"c_objs", "closed"} =>
              sockPin # p /\ (pinPathSet[p] => sockPin = None)

(***************************************************************************)
(* Nobody else takes a step while a process has the host to itself, nor    *)
(* after it closed until the next one starts.                              *)
(***************************************************************************)
LEMMA AloneStep ==
    ASSUME AgentTypeOK, SoloInv, NEW p \in Process, AgentStep(p), NEW q \in Process, Alone(q)'
    PROVE  q = p /\ (Start(p) \/ Alone(p))
  <1>0. /\ pc'[p] # "new"
        /\ \A r \in Process : r # p => pc'[r] = pc[r]
        /\ Start(p) \/ (Alive(p) /\ solo' = solo)
        /\ Start(p) => pc[p] = "new" /\ pc'[p] = "load"
    BY StepShape
  <1>1. SoloInv'
    BY SoloStep
  <1>2. ASSUME q # p PROVE FALSE
    <2>1. pc'[q] = pc[q] /\ solo'[q] /\ pc'[q] # "new"
      BY <1>0, <1>2 DEF Alone, Alive
    <2>2. CASE Start(p)
      <3>1. Alive(p)'
        BY <1>0, <2>2 DEF Alive
      <3>2. ~Alive(q)' /\ ~(p > q)
        BY <1>0, <1>1, <1>2, <2>1, <2>2, <3>1 DEF SoloInv, SoloAlone, Alone
      <3>3. p < q
        BY <1>2, <3>2, ProcessAssumption DEF Process
      <3> QED
        BY <1>0, <2>1, <2>2, <3>3 DEF SoloInv, StartOrder
    <2>3. CASE Alive(p) /\ solo' = solo
      <3>1. solo[q] /\ ~Alive(q)
        BY <1>2, <2>1, <2>3 DEF SoloInv, SoloAlone
      <3>2. pc[q] = "closed" /\ ~(p > q)
        BY <1>0, <2>1, <3>1 DEF Alone, Alive
      <3>3. p < q
        BY <1>2, <3>2, ProcessAssumption DEF Process
      <3> QED
        BY <2>3, <3>1, <3>2, <3>3 DEF SoloInv, SoloLast
    <2> QED
      BY <1>0, <2>2, <2>3
  <1>3. Start(p) \/ Alone(p)
    BY <1>0, <1>2 DEF Alone
  <1> QED
    BY <1>2, <1>3

(***************************************************************************)
(* Close of a process that is alone undoes what it finds, step by step.    *)
(***************************************************************************)
LEMMA UndoingStep ==
    ASSUME AgentTypeOK, SoloInv, MapInv, Undoing, NEW p \in Process, AgentStep(p)
    PROVE  Undoing'
  <1> USE DEF Step, tcVars, sockVars
  <1>0. /\ pc \in [Process -> Pc] /\ pinPathSet \in [Process -> BOOLEAN]
        /\ sockPin \in Process \cup {None} /\ None \notin Process
    BY ProcessAssumption DEF AgentTypeOK
  <1> SUFFICES ASSUME NEW q \in Process, Alone(q)'
               PROVE  /\ pc'[q] \in AfterQdisc => ~qdisc' /\ filters' = {}
                      /\ pc'[q] \in AfterQdisc \ {"c_unpin"} => tcPin' = None
                      /\ pc'[q] \in {"c_objs", "closed"} =>
                            sockPin' # q /\ (pinPathSet'[q] => sockPin' = None)
    BY DEF Undoing
  <1>1. q = p /\ (Start(p) \/ Alone(p))
    BY AloneStep
  <1>2. CASE Start(p)
    BY <1>0, <1>1, <1>2 DEF Start, AfterQdisc
  <1>3. CASE Alone(p)
    <2>1. /\ pc[p] \in AfterQdisc => ~qdisc /\ filters = {}
          /\ pc[p] \in AfterQdisc \ {"c_unpin"} => tcPin = None
          /\ pc[p] \in {"c_objs", "closed"} =>
                sockPin # p /\ (pinPathSet[p] => sockPin = None)
          /\ sockPin = p /\ pc[p] # "dead" => pinPathSet[p]
      BY <1>3 DEF Undoing, MapInv
    <2> USE DEF AfterQdisc
    <2>2. CASE Load(p) \/ Unpin(p) \/ Pin(p) \/ AddQdisc(p) \/ AddFilter(p) \/ Flags(p)
               \/ SockopsLoad(p) \/ SockopsFails(p) \/ Operate(p) \/ Die(p)
      <3>1. pc'[p] \notin AfterQdisc
        BY <1>0, <2>2 DEF Load, Unpin, Pin, AddQdisc, AddFilter, Flags, SockopsLoad,
                          SockopsFails, Operate, Die
      <3> QED
        BY <1>1, <3>1
    <2>3. CASE CloseHooks(p)
      BY <1>0, <1>1, <2>1, <2>3 DEF CloseHooks
    <2>4. CASE CloseTc(p)
      BY <1>0, <1>1, <2>1, <2>4 DEF CloseTc
    <2>5. CASE CloseSockops(p)
      BY <1>0, <1>1, <2>1, <2>5 DEF CloseSockops
    <2>6. CASE CloseObjects(p)
      BY <1>0, <1>1, <2>1, <2>6 DEF CloseObjects
    <2> QED
      BY <1>2, <1>1, <2>2, <2>3, <2>4, <2>5, <2>6 DEF AgentStep
  <1> QED
    BY <1>1, <1>2, <1>3

(***************************************************************************)
(* The invariants of a clean exit together.                                *)
(***************************************************************************)
CleanInv == AgentTypeOK /\ SockopsInv /\ SoloInv /\ MapInv /\ Undoing

(***************************************************************************)
(* Every step keeps the invariants of a clean exit.                        *)
(***************************************************************************)
LEMMA CleanStep == CleanInv /\ [AgentNext]_<<agentVars, redirectVars>> => CleanInv'
  <1> SUFFICES ASSUME CleanInv, [AgentNext]_<<agentVars, redirectVars>> PROVE CleanInv'
    OBVIOUS
  <1>1. AgentTypeOK'
    BY AgentTypeStep DEF CleanInv
  <1>2. ASSUME NEW p \in Process, AgentStep(p), FreeMaps PROVE CleanInv'
    BY <1>1, <1>2, SockopsStep, SoloStep, MapStep, UndoingStep DEF CleanInv
  <1>3. ASSUME UNCHANGED agentVars PROVE SockopsInv' /\ SoloInv' /\ Undoing'
    <2>1. SockopsInv'
      BY <1>3 DEF CleanInv, agentVars, processVars, sockVars, SockopsInv, SockopsAt
    <2>2. SoloInv'
      BY <1>3 DEF CleanInv, agentVars, processVars, SoloInv, StartOrder, SoloAlone, SoloLast,
                  Alive
    <2>3. Undoing'
      BY <1>3 DEF CleanInv, agentVars, processVars, tcVars, sockVars, Undoing, Alone, Alive
    <2> QED
      BY <2>1, <2>2, <2>3
  <1>4. ASSUME NEW e \in End, Established(e, Attached) \/ SocketCloses(e), UNCHANGED agentVars
        PROVE  CleanInv'
    BY <1>1, <1>3, <1>4, MapSocket DEF CleanInv
  <1>5. CASE UNCHANGED <<agentVars, redirectVars>>
    <2>1. MapInv'
      BY <1>5 DEF CleanInv, agentVars, processVars, sockVars, redirectVars, MapInv, MapLive
    <2> QED
      BY <1>1, <1>3, <1>5, <2>1 DEF CleanInv
  <1> QED
    BY <1>2, <1>4, <1>5 DEF AgentNext

(***************************************************************************)
(* After an agent that had the host to itself ends through Close, no       *)
(* qdisc, filter, pin or map entry of it or of its dead predecessors is    *)
(* left.                                                                   *)
(***************************************************************************)
THEOREM CleanExitHolds == AgentSpec => []CleanExit
  <1>1. AgentInit => CleanInv
    <2>1. AgentInit => SockopsInv
      BY SockopsInit
    <2>2. AgentInit => SoloInv /\ Undoing
      BY DEF AgentInit, SoloInv, StartOrder, SoloAlone, SoloLast, Undoing, Alone, Alive
    <2>3. AgentInit => MapInv
      BY ProcessAssumption DEF AgentInit, MapInv, LoadingSockops
    <2> QED
      BY <2>1, <2>2, <2>3, AgentTypeInit DEF CleanInv
  <1>2. CleanInv => CleanExit
    <2> SUFFICES ASSUME CleanInv, NEW p \in Process, pc[p] = "closed", solo[p],
                        \A q \in Process : q > p => pc[q] = "new"
                 PROVE  /\ ~qdisc /\ filters = {} /\ tcPin = None
                        /\ sockPin # p /\ (pinPathSet[p] => sockPin = None)
                        /\ sockHash[p] = {}
      BY DEF CleanExit
    <2>1. Alone(p)
      BY DEF Alone
    <2>2. /\ ~qdisc /\ filters = {} /\ tcPin = None
          /\ sockPin # p /\ (pinPathSet[p] => sockPin = None)
      BY <2>1 DEF CleanInv, Undoing, AfterQdisc
    <2>3. sockHash[p] = {}
      BY <2>2 DEF CleanInv, MapInv, MapLive
    <2> QED
      BY <2>2, <2>3
  <1> QED
    BY <1>1, <1>2, CleanStep, PTL DEF AgentSpec

-----------------------------------------------------------------------------
(***************************************************************************)
(* The addresses of two ends on the host tell them apart: TCP has one      *)
(* connection per 4-tuple.                                                 *)
(***************************************************************************)
DistinctTuples ==
    \A e, d \in End :
        /\ Local(e).ip = Local(d).ip /\ Local(e).port = Local(d).port
        /\ Remote(e).ip = Remote(d).ip /\ Remote(e).port = Remote(d).port
        => e = d

(***************************************************************************)
(* The key sk_msg builds for e, in either order, is at most that of e's    *)
(* peer; and with remote_port in network order it is nobody's, because     *)
(* sockops registers every port in host order.                             *)
(***************************************************************************)
LEMMA KeyOfPeer ==
    ASSUME NEW e \in End, NEW d \in End
    PROVE  /\ DistinctTuples => \A o \in ByteOrder : RegKey(d) = PeerKey(e, o) => d = Peer(e)
           /\ RegKey(d) # PeerKey(e, RemotePortOrder)
  <1>1. Peer(e) \in End /\ Peer(Peer(e)) = e
    <2>1. PICK c \in Conn, r \in {"client", "server"} : e = [conn |-> c, role |-> r]
      BY DEF End
    <2>2. CASE r = "client"
      BY <2>1, <2>2 DEF Peer, End
    <2>3. CASE r = "server"
      BY <2>1, <2>3 DEF Peer, End
    <2> QED
      BY <2>2, <2>3
  <1>2. Remote(e) = Local(Peer(e)) /\ Remote(Peer(e)) = Local(e)
    BY <1>1 DEF Remote
  <1>3. ASSUME DistinctTuples, NEW o \in ByteOrder, RegKey(d) = PeerKey(e, o) PROVE d = Peer(e)
    <2>1. /\ Local(d).ip = Local(Peer(e)).ip /\ Local(d).port = Local(Peer(e)).port
          /\ Remote(d).ip = Remote(Peer(e)).ip /\ Remote(d).port = Remote(Peer(e)).port
      BY <1>2, <1>3 DEF RegKey, PeerKey, Port, ntohl
    <2> QED
      BY <1>1, <1>3, <2>1 DEF DistinctTuples
  <1>4. RegKey(d) # PeerKey(e, RemotePortOrder)
    <2>1. RegKey(d).sport.order = "host" /\ PeerKey(e, RemotePortOrder).sport.order = "network"
      BY DEF RegKey, PeerKey, Port, RemotePortOrder
    <2> QED
      BY <2>1
  <1> QED
    BY <1>3, <1>4

(***************************************************************************)
(* Every entry of a sock_hash is keyed as sockops keys its socket.         *)
(***************************************************************************)
KeyedByOwner == \A m \in Map : \A s \in sockHash[m] : s.key = RegKey(s.sock)

(***************************************************************************)
(* Registering, closing and freeing keep the keys of the entries.          *)
(***************************************************************************)
LEMMA KeyedStep == KeyedByOwner /\ [AgentNext]_<<agentVars, redirectVars>> => KeyedByOwner'
  <1> SUFFICES ASSUME KeyedByOwner, [AgentNext]_<<agentVars, redirectVars>>,
                      NEW m \in Map, NEW s \in sockHash'[m]
               PROVE  s.key = RegKey(s.sock)
    BY DEF KeyedByOwner
  <1>1. s \in sockHash[m] \/ \E e \in End : s = [key |-> RegKey(e), sock |-> e]
    <2>1. CASE FreeMaps
      BY <2>1 DEF FreeMaps
    <2>2. ASSUME NEW e \in End, Established(e, Attached)
          PROVE  s \in sockHash[m] \/ s = [key |-> RegKey(e), sock |-> e]
      BY <2>2 DEF Established, Register
    <2>3. ASSUME NEW e \in End, SocketCloses(e) PROVE s \in sockHash[m]
      BY <2>3 DEF SocketCloses
    <2>4. CASE UNCHANGED <<agentVars, redirectVars>>
      BY <2>4 DEF redirectVars
    <2> QED
      BY <2>1, <2>2, <2>3, <2>4 DEF AgentNext
  <1> QED
    BY <1>1 DEF KeyedByOwner

(***************************************************************************)
(* Every entry belongs to an open end of a connection, under its own key.  *)
(***************************************************************************)
LEMMA EntryFacts ==
    ASSUME AgentTypeOK, KeyedByOwner, NEW m \in Map
    PROVE  /\ \A s \in sockHash[m] : s.sock \in End \cap open /\ s.key = RegKey(s.sock)
           /\ Registered(m) \subseteq End
  BY DEF AgentTypeOK, KeyedByOwner, Registered

(***************************************************************************)
(* With one connection per 4-tuple, what a registered socket sends is      *)
(* redirected to its own peer, which is open, or goes through the stack,   *)
(* never to another socket (the key of proxy_redirect.c:56-61 against the  *)
(* one of sockops_identity.c:62-67), while agents load, fail, close and    *)
(* die and full maps refuse sockets, in either order of remote_port.       *)
(***************************************************************************)
THEOREM NeverMisdeliveredHolds ==
    ASSUME DistinctTuples
    PROVE  AgentSpec => []NeverMisdelivered
  <1>1. AgentInit => AgentTypeOK /\ KeyedByOwner
    BY AgentTypeInit DEF AgentInit, KeyedByOwner
  <1>2. AgentTypeOK /\ KeyedByOwner => NeverMisdelivered
    <2> SUFFICES ASSUME AgentTypeOK, KeyedByOwner,
                        NEW m \in Map, NEW o \in ByteOrder, NEW e \in Registered(m)
                 PROVE  Destination(m, e, o) \in ({Peer(e)} \cap open) \cup {None}
      BY DEF NeverMisdelivered
    <2> DEFINE found == {s \in sockHash[m] : s.key = PeerKey(e, o)}
    <2>1. /\ \A s \in sockHash[m] : s.sock \in End \cap open /\ s.key = RegKey(s.sock)
          /\ e \in End
      BY EntryFacts
    <2>2. \A s \in found : s.sock = Peer(e) /\ s.sock \in open
      BY <2>1, KeyOfPeer
    <2>3. CASE found = {}
      BY <2>3 DEF Destination
    <2>4. CASE found # {}
      <3> DEFINE hit == CHOOSE s \in found : TRUE
      <3>1. hit \in found
        BY <2>4
      <3>2. Destination(m, e, o) = hit.sock
        BY <2>4 DEF Destination
      <3> QED
        BY <2>2, <3>1, <3>2
    <2> QED
      BY <2>3, <2>4
  <1> QED
    BY <1>1, <1>2, AgentTypeStep, KeyedStep, PTL DEF AgentSpec

(***************************************************************************)
(* No message is redirected, to anyone.                                    *)
(***************************************************************************)
NothingRedirected ==
    \A m \in Map : \A e \in Registered(m) : Destination(m, e, RemotePortOrder) = None

(***************************************************************************)
(* With remote_port in network order, as linux/bpf.h declares it, the raw  *)
(* access of proxy_redirect.c:59 never builds a key that a socket was      *)
(* registered under: every message takes the stack, on every host and in   *)
(* every state.  The run peer_order shows one pair of sockets for which    *)
(* this contradicts proxy_redirect.c:51-54.                                *)
(***************************************************************************)
THEOREM NothingRedirectedHolds == AgentSpec => []NothingRedirected
  <1>1. AgentInit => AgentTypeOK /\ KeyedByOwner
    BY AgentTypeInit DEF AgentInit, KeyedByOwner
  <1>2. AgentTypeOK /\ KeyedByOwner => NothingRedirected
    <2> SUFFICES ASSUME AgentTypeOK, KeyedByOwner, NEW m \in Map, NEW e \in Registered(m)
                 PROVE  Destination(m, e, RemotePortOrder) = None
      BY DEF NothingRedirected
    <2>1. /\ \A s \in sockHash[m] : s.sock \in End \cap open /\ s.key = RegKey(s.sock)
          /\ e \in End
      BY EntryFacts
    <2>2. \A s \in sockHash[m] : s.key # PeerKey(e, RemotePortOrder)
      BY <2>1, KeyOfPeer
    <2> QED
      BY <2>2 DEF Destination
  <1> QED
    BY <1>1, <1>2, AgentTypeStep, KeyedStep, PTL DEF AgentSpec
=============================================================================
