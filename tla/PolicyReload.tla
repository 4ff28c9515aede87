---------------------------- MODULE PolicyReload ----------------------------
(***************************************************************************)
(* Policy reload: ApplyPolicyAtomic (pkg/compiler/atomic_swap.go) on the   *)
(* BPF maps of the loader (pkg/bpf/loader.go), called by several           *)
(* goroutines, against the packets xdp_firewall_func (bpf/xdp_firewall.c)  *)
(* is judging on other CPUs at the same time.                              *)
(***************************************************************************)
EXTENDS PolicyTable, FiniteSets

CONSTANTS
    Applier,     \* goroutines that call ApplyPolicyAtomic
    Swapper,     \* MapSwapper values, each with a mutex of its own
    SwapperOf,   \* the MapSwapper an applier calls it on
    Cpu,         \* CPUs that run the XDP program
    Unsupported, \* CIDRs that pass validation and that StageCIDRRule refuses (IPv6)
    MaxEntries,  \* max_entries of each rule map (1024)
    GenCount,    \* number of generation numbers (2^32 in the code)
    MaxApplies,  \* bound: how many times ApplyPolicyAtomic is called
    NoPolicy,
    NoPacket,
    Free         \* a mutex nobody holds

ASSUME SwapperAssumption == SwapperOf \in [Applier -> Swapper]

ASSUME GenAssumption == GenCount \in Nat /\ GenCount >= 2

ASSUME BoundAssumption == MaxEntries \in Nat /\ MaxApplies \in Nat

ASSUME SentinelAssumption ==
    /\ Free \notin Applier
    /\ NoPolicy \notin Policy
    /\ NoPacket \notin Packet

VARIABLES
    activeGen,  \* active_generation_map[0]
    kmap,       \* the rule maps, by generation field of the key
    smu,        \* holder of each MapSwapper.mu
    lmu,        \* who holds FirewallLoader.mu over several map operations
    pc,         \* where each applier is in ApplyPolicyAtomic
    policy,     \* its argument cp
    curGen, nextGen,
    pos,        \* how many entries of cp it has staged
    applies,    \* calls so far
    xdp,        \* what each CPU's run of the XDP program has reached
    installed,  \* history: the policy last switched to
    mayDrop,    \* history: since the packet arrived, a table was active that drops it
    mayPass,    \* history: ... one that lets it pass
    lapped      \* history: since then an apply took the packet's generation number again

mapVars == <<activeGen, kmap>>
callVars == <<pc, policy, curGen, nextGen, pos, applies>>
packetVars == <<xdp, mayDrop, mayPass, lapped>>
vars == <<activeGen, kmap, smu, lmu, pc, policy, curGen, nextGen, pos, applies,
          xdp, installed, mayDrop, mayPass, lapped>>

Gen == 0 .. GenCount - 1

(***************************************************************************)
(* idle -> waiting (s.mu.Lock) -> locked -> preclear (nextGen) -> staging  *)
(* -> purging (curGen) -> returning -> idle, or from staging to rollback   *)
(* (nextGen) and then returning.                                           *)
(***************************************************************************)
Pc == {"idle", "waiting", "locked", "preclear", "staging", "rollback",
       "purging", "returning"}

Clearing == {"preclear", "rollback", "purging"}

IdleXdp == [pkt |-> NoPacket, gen |-> 0, at |-> "idle"]

XdpState == [pkt : Packet \cup {NoPacket}, gen : Gen,
             at : {"idle", "cgroup", "lpm", "port", "drop", "pass"}]

TypeOK ==
    /\ activeGen \in Gen
    /\ kmap \in [Gen -> Table]
    /\ smu \in [Swapper -> Applier \cup {Free}]
    /\ lmu \in Applier \cup {Free}
    /\ pc \in [Applier -> Pc]
    /\ policy \in [Applier -> Policy \cup {NoPolicy}]
    /\ curGen \in [Applier -> Gen]
    /\ nextGen \in [Applier -> Gen]
    /\ pos \in [Applier -> Nat]
    /\ applies \in 0..MaxApplies
    /\ xdp \in [Cpu -> XdpState]
    /\ installed \in Policy \cup {<<>>}
    /\ mayDrop \in [Cpu -> BOOLEAN]
    /\ mayPass \in [Cpu -> BOOLEAN]
    /\ lapped \in [Cpu -> BOOLEAN]

(***************************************************************************)
(* A freshly loaded collection: every map empty, generation 0 active.      *)
(***************************************************************************)
Init ==
    /\ activeGen = 0
    /\ kmap = [g \in Gen |-> EmptyTable]
    /\ smu = [s \in Swapper |-> Free]
    /\ lmu = Free
    /\ pc = [a \in Applier |-> "idle"]
    /\ policy = [a \in Applier |-> NoPolicy]
    /\ curGen = [a \in Applier |-> 0]
    /\ nextGen = [a \in Applier |-> 0]
    /\ pos = [a \in Applier |-> 0]
    /\ applies = 0
    /\ xdp = [c \in Cpu |-> IdleXdp]
    /\ installed = <<>>
    /\ mayDrop = [c \in Cpu |-> FALSE]
    /\ mayPass = [c \in Cpu |-> FALSE]
    /\ lapped = [c \in Cpu |-> FALSE]

Goto(a, l) == pc' = [pc EXCEPT ![a] = l]

-----------------------------------------------------------------------------
(***************************************************************************)
(* ApplyPolicyAtomic is called with a compiled policy and blocks on s.mu.  *)
(***************************************************************************)
Call(a) ==
    /\ pc[a] = "idle"
    /\ applies < MaxApplies
    /\ \E p \in Policy : policy' = [policy EXCEPT ![a] = p]
    /\ applies' = applies + 1
    /\ Goto(a, "waiting")
    /\ UNCHANGED <<mapVars, smu, lmu, curGen, nextGen, pos, installed, packetVars>>

Lock(a) ==
    /\ pc[a] = "waiting"
    /\ smu[SwapperOf[a]] = Free
    /\ smu' = [smu EXCEPT ![SwapperOf[a]] = a]
    /\ Goto(a, "locked")
    /\ UNCHANGED <<mapVars, lmu, policy, curGen, nextGen, pos, applies, installed, packetVars>>

InFlight(c) == xdp[c].at # "idle"

(***************************************************************************)
(* GetActiveGeneration under l.mu, then nextGen := curGen + 1 (uint32).    *)
(***************************************************************************)
ReadGeneration_NoWrap(a) ==
    /\ pc[a] = "locked"
    /\ lmu = Free
    /\ curGen' = [curGen EXCEPT ![a] = activeGen]
    /\ nextGen' = [nextGen EXCEPT ![a] = activeGen + 1]
    /\ lapped' = [c \in Cpu |-> lapped[c] \/ (InFlight(c) /\ xdp[c].gen = nextGen'[a])]
    /\ Goto(a, "preclear")
    /\ UNCHANGED <<mapVars, smu, lmu, policy, pos, applies, installed, xdp, mayDrop, mayPass>>

ReadGeneration(a) ==
    /\ pc[a] = "locked"
    /\ lmu = Free
    /\ curGen' = [curGen EXCEPT ![a] = activeGen]
    /\ nextGen' = [nextGen EXCEPT ![a] = (activeGen + 1) % GenCount]
    /\ lapped' = [c \in Cpu |-> lapped[c] \/ (InFlight(c) /\ xdp[c].gen = nextGen'[a])]
    /\ Goto(a, "preclear")
    /\ UNCHANGED <<mapVars, smu, lmu, policy, pos, applies, installed, xdp, mayDrop, mayPass>>

(***************************************************************************)
(* ClearGenerationRules: l.mu is held while the entries of the generation  *)
(* are deleted one by one, first those of the LPM trie, then the cgroups,  *)
(* then the ports.  Packets are judged in between.                         *)
(***************************************************************************)
Target_RollsBackCurGen(a) ==
    IF pc[a] \in {"purging", "rollback"} THEN curGen[a] ELSE nextGen[a]

Target(a) == IF pc[a] = "purging" THEN curGen[a] ELSE nextGen[a]

Present(g, keys) == {k \in keys : kmap[g][k] # NoRule}

NextToDelete(g) ==
    CASE Present(g, Cidr) # {}   -> Present(g, Cidr)
      [] Present(g, Cgroup) # {} -> Present(g, Cgroup)
      [] OTHER                   -> Present(g, Port)

ClearLock(a) ==
    /\ pc[a] \in Clearing
    /\ lmu = Free
    /\ lmu' = a
    /\ UNCHANGED <<mapVars, smu, callVars, installed, packetVars>>

ClearKey(a) ==
    /\ pc[a] \in Clearing
    /\ lmu = a
    /\ \E k \in NextToDelete(Target(a)) : kmap' = [kmap EXCEPT ![Target(a)][k] = NoRule]
    /\ UNCHANGED <<activeGen, smu, lmu, callVars, installed, packetVars>>

(***************************************************************************)
(* The clear is done when its iterations are.  Their Err is never asked,   *)
(* so an iteration that broke off would end the clear early and be taken   *)
(* for a complete one; iterations are assumed to run to their end.         *)
(***************************************************************************)
ClearDone(a) ==
    /\ pc[a] \in Clearing
    /\ lmu = a
    /\ Present(Target(a), Key) = {}
    /\ lmu' = Free
    /\ Goto(a, IF pc[a] = "preclear" THEN "staging" ELSE "returning")
    /\ UNCHANGED <<mapVars, smu, policy, curGen, nextGen, pos, applies, installed, packetVars>>

(***************************************************************************)
(* StageCIDRRule, StageCgroupRule and StagePortRule: one Put of the next   *)
(* entry under nextGen.  The maps are shared by all generations, so a new  *)
(* key needs a free slot in its map.                                       *)
(***************************************************************************)
MapOf(k) == IF k \in Cidr THEN Cidr ELSE IF k \in Cgroup THEN Cgroup ELSE Port

InUse(keys) == Cardinality({gk \in Gen \X keys : kmap[gk[1]][gk[2]] # NoRule})

HasRoom(g, k) == kmap[g][k] # NoRule \/ InUse(MapOf(k)) < MaxEntries

NextEntry(a) == policy[a][pos[a] + 1]

StageRule_InCurGen(a) ==
    /\ pc[a] = "staging"
    /\ lmu = Free
    /\ pos[a] < Len(policy[a])
    /\ NextEntry(a).key \notin Unsupported
    /\ HasRoom(curGen[a], NextEntry(a).key)
    /\ kmap' = [kmap EXCEPT ![curGen[a]][NextEntry(a).key] = NextEntry(a).rule]
    /\ pos' = [pos EXCEPT ![a] = pos[a] + 1]
    /\ UNCHANGED <<activeGen, smu, lmu, pc, policy, curGen, nextGen, applies, installed, packetVars>>

StageRule(a) ==
    /\ pc[a] = "staging"
    /\ lmu = Free
    /\ pos[a] < Len(policy[a])
    /\ NextEntry(a).key \notin Unsupported
    /\ HasRoom(nextGen[a], NextEntry(a).key)
    /\ kmap' = [kmap EXCEPT ![nextGen[a]][NextEntry(a).key] = NextEntry(a).rule]
    /\ pos' = [pos EXCEPT ![a] = pos[a] + 1]
    /\ UNCHANGED <<activeGen, smu, lmu, pc, policy, curGen, nextGen, applies, installed, packetVars>>

(***************************************************************************)
(* Staging an entry fails: the CIDR is IPv6, the map is full, the cgroup   *)
(* path does not resolve or the kernel refuses the Put.                    *)
(***************************************************************************)
StageFail_NoRollback(a) ==
    /\ pc[a] = "staging"
    /\ lmu = Free
    /\ pos[a] < Len(policy[a])
    /\ Goto(a, "returning")
    /\ UNCHANGED <<mapVars, smu, lmu, policy, curGen, nextGen, pos, applies, installed, packetVars>>

StageFail(a) ==
    /\ pc[a] = "staging"
    /\ lmu = Free
    /\ pos[a] < Len(policy[a])
    /\ Goto(a, "rollback")
    /\ UNCHANGED <<mapVars, smu, lmu, policy, curGen, nextGen, pos, applies, installed, packetVars>>

(***************************************************************************)
(* SetActiveGeneration(nextGen), after every entry is staged.  The two     *)
(* history flags of a packet in flight take the new table into account.    *)
(***************************************************************************)
SetActiveGeneration_Early(a) ==
    /\ pc[a] = "staging"
    /\ lmu = Free
    /\ pos[a] + 1 >= Len(policy[a])
    /\ activeGen' = nextGen[a]
    /\ installed' = policy[a]
    /\ Goto(a, "purging")
    /\ mayDrop' = [c \in Cpu |-> mayDrop[c] \/ (InFlight(c) /\ Drops(kmap[nextGen[a]], xdp[c].pkt))]
    /\ mayPass' = [c \in Cpu |-> mayPass[c] \/ (InFlight(c) /\ ~Drops(kmap[nextGen[a]], xdp[c].pkt))]
    /\ UNCHANGED <<kmap, smu, lmu, policy, curGen, nextGen, pos, applies, xdp, lapped>>

SetActiveGeneration(a) ==
    /\ pc[a] = "staging"
    /\ lmu = Free
    /\ pos[a] = Len(policy[a])
    /\ activeGen' = nextGen[a]
    /\ installed' = policy[a]
    /\ Goto(a, "purging")
    /\ mayDrop' = [c \in Cpu |-> mayDrop[c] \/ (InFlight(c) /\ Drops(kmap[nextGen[a]], xdp[c].pkt))]
    /\ mayPass' = [c \in Cpu |-> mayPass[c] \/ (InFlight(c) /\ ~Drops(kmap[nextGen[a]], xdp[c].pkt))]
    /\ UNCHANGED <<kmap, smu, lmu, policy, curGen, nextGen, pos, applies, xdp, lapped>>

SetActiveGenerationFail(a) ==
    /\ pc[a] = "staging"
    /\ lmu = Free
    /\ pos[a] = Len(policy[a])
    /\ Goto(a, "rollback")
    /\ UNCHANGED <<mapVars, smu, lmu, policy, curGen, nextGen, pos, applies, installed, packetVars>>

(***************************************************************************)
(* The deferred s.mu.Unlock and the return to the caller.                  *)
(***************************************************************************)
Return_KeepsMutex(a) ==
    /\ pc[a] = "returning"
    /\ policy' = [policy EXCEPT ![a] = NoPolicy]
    /\ pos' = [pos EXCEPT ![a] = 0]
    /\ Goto(a, "idle")
    /\ UNCHANGED <<mapVars, smu, lmu, curGen, nextGen, applies, installed, packetVars>>

Return(a) ==
    /\ pc[a] = "returning"
    /\ smu' = [smu EXCEPT ![SwapperOf[a]] = Free]
    /\ policy' = [policy EXCEPT ![a] = NoPolicy]
    /\ pos' = [pos EXCEPT ![a] = 0]
    /\ Goto(a, "idle")
    /\ UNCHANGED <<mapVars, lmu, curGen, nextGen, applies, installed, packetVars>>

-----------------------------------------------------------------------------
(***************************************************************************)
(* xdp_firewall_func on CPU c: the generation is read once, then each map  *)
(* is looked up under it; the verdict is the end of the run.               *)
(***************************************************************************)
PacketArrives(c) ==
    /\ xdp[c].at = "idle"
    /\ \E p \in Packet :
          /\ xdp' = [xdp EXCEPT ![c] = [pkt |-> p, gen |-> activeGen, at |-> "cgroup"]]
          /\ mayDrop' = [mayDrop EXCEPT ![c] = Drops(kmap[activeGen], p)]
          /\ mayPass' = [mayPass EXCEPT ![c] = ~Drops(kmap[activeGen], p)]
    /\ lapped' = [lapped EXCEPT ![c] = FALSE]
    /\ UNCHANGED <<mapVars, smu, lmu, callVars, installed>>

Lookup(c, at, hit, miss) ==
    /\ xdp[c].at = at
    /\ xdp' = [xdp EXCEPT ![c].at = IF hit THEN "drop" ELSE miss]
    /\ UNCHANGED <<mapVars, smu, lmu, callVars, installed, mayDrop, mayPass, lapped>>

LookupCgroup(c) == Lookup(c, "cgroup", CgroupHit(kmap[xdp[c].gen], xdp[c].pkt), "lpm")

LookupLpm(c) == Lookup(c, "lpm", LpmHit(kmap[xdp[c].gen], xdp[c].pkt), "port")

(***************************************************************************)
(* A port entry carries an action, which the program reads through the     *)
(* pointer right after the lookup; the two are one step here.  Left out:   *)
(* that a reload purges the entry and a later one reuses its element of    *)
(* the preallocated map between the two reads.                             *)
(***************************************************************************)
LookupPort_NextGen(c) ==
    Lookup(c, "port", PortDeny(kmap[(xdp[c].gen + 1) % GenCount], xdp[c].pkt), "pass")

LookupPort(c) == Lookup(c, "port", PortDeny(kmap[xdp[c].gen], xdp[c].pkt), "pass")

PacketLeaves(c) ==
    /\ xdp[c].at \in {"drop", "pass"}
    /\ xdp' = [xdp EXCEPT ![c] = IdleXdp]
    /\ mayDrop' = [mayDrop EXCEPT ![c] = FALSE]
    /\ mayPass' = [mayPass EXCEPT ![c] = FALSE]
    /\ lapped' = [lapped EXCEPT ![c] = FALSE]
    /\ UNCHANGED <<mapVars, smu, lmu, callVars, installed>>

-----------------------------------------------------------------------------
Clear(a) == ClearLock(a) \/ ClearKey(a) \/ ClearDone(a)

Stage(a) == StageRule(a) \/ StageFail(a) \/ SetActiveGeneration(a) \/ SetActiveGenerationFail(a)

ApplyStep(a) == Lock(a) \/ ReadGeneration(a) \/ Clear(a) \/ Stage(a) \/ Return(a)

XdpStep(c) ==
    PacketArrives(c) \/ LookupCgroup(c) \/ LookupLpm(c) \/ LookupPort(c) \/ PacketLeaves(c)

Next ==
    \/ \E a \in Applier : Call(a) \/ ApplyStep(a)
    \/ \E c \in Cpu : XdpStep(c)

Spec == Init /\ [][Next]_vars

(***************************************************************************)
(* A goroutine that can run does run, and Go's mutex hands the lock to a   *)
(* waiter it has starved for 1ms, so a lock that keeps coming free is      *)
(* taken.                                                                  *)
(***************************************************************************)
Fairness == \A a \in Applier : WF_vars(ApplyStep(a)) /\ SF_vars(Lock(a))

FairSpec == Spec /\ Fairness

-----------------------------------------------------------------------------
(***************************************************************************)
(* Every caller uses the same MapSwapper, so the same mutex.               *)
(***************************************************************************)
OneSwapper == \A a, b \in Applier : SwapperOf[a] = SwapperOf[b]

(***************************************************************************)
(* "stages a compiled policy under nextGen, atomically switches active     *)
(* generation" (atomic_swap.go:27): whatever the appliers are doing, the   *)
(* generation packets are judged by holds exactly the entries of the       *)
(* policy last switched to, never part of a staging or of a purge.         *)
(***************************************************************************)
ActiveComplete == Realizes(kmap[activeGen], installed)

(***************************************************************************)
(* Applier a, holding its mutex, is filling or emptying generation g.      *)
(***************************************************************************)
WorksOn(a, g) ==
    /\ smu[SwapperOf[a]] = a
    /\ \/ pc[a] \in {"staging", "rollback"} /\ g = nextGen[a]
       \/ pc[a] = "purging" /\ g = curGen[a]

(***************************************************************************)
(* A generation other than the active one holds entries only while one     *)
(* applier, holding its mutex, fills or empties it: a failed or finished   *)
(* apply leaves no residue for a later one (or for a wrapped generation    *)
(* number) to switch to, and no slots of the shared maps are lost.         *)
(***************************************************************************)
NoResidue ==
    \A g \in Gen \ {activeGen} :
        Present(g, Key) # {} => \E a \in Applier : WorksOn(a, g)

(***************************************************************************)
(* A dropped packet was denied by a policy that was active while the       *)
(* packet was in the hook: staging never shows through, and rules of       *)
(* another generation never drop it ("without dropping continuous traffic  *)
(* streams", README.md:37).  The one exception is a packet that the        *)
(* generation counter overtook: it was still in the hook when an apply     *)
(* came round to stage under the packet's own generation number.           *)
(***************************************************************************)
DropSound == \A c \in Cpu : xdp[c].at = "drop" => mayDrop[c] \/ lapped[c]

(***************************************************************************)
(* A packet that passes was allowed by a policy active while it was in the *)
(* hook.                                                                   *)
(***************************************************************************)
PassSound == \A c \in Cpu : xdp[c].at = "pass" => mayPass[c]

(***************************************************************************)
(* PassSound fails when the generation a packet has read is purged under   *)
(* its lookups; that is the only way.  As long as the generation of the    *)
(* packet is active its three lookups see one policy, whatever other       *)
(* reloads clear, stage and roll back, so the packet passes only if that   *)
(* policy lets it.                                                         *)
(***************************************************************************)
PassSoundWhileActive ==
    \A c \in Cpu :
        xdp[c].at = "pass" /\ xdp[c].gen = activeGen => mayPass[c] \/ lapped[c]

(***************************************************************************)
(* Every call of ApplyPolicyAtomic returns, whoever else is applying.      *)
(***************************************************************************)
ApplyReturns == \A a \in Applier : pc[a] = "waiting" ~> pc[a] = "idle"

(***************************************************************************)
(* The reload implements AtomicPolicy: seen through the active generation, *)
(* an apply is one step that installs the whole policy, or none.           *)
(***************************************************************************)
Status(a) ==
    IF pc[a] = "idle" THEN "none"
    ELSE IF pc[a] \in {"waiting", "locked", "preclear", "staging"} THEN "pending"
    ELSE IF activeGen = nextGen[a] THEN "installed" ELSE "rejected"

Atomic == INSTANCE AtomicPolicy WITH
    table <- kmap[activeGen],
    request <- policy,
    status <- [a \in Applier |-> Status(a)]

AtomicReload == Atomic!Safety
=============================================================================
