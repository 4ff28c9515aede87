--------------------------- MODULE ConntrackProofs ---------------------------
(***************************************************************************)
(* Proofs about Conntrack for every set of flows and CPUs, every size of   *)
(* conntrack_map and every number of segments.                             *)
(***************************************************************************)
EXTENDS Conntrack, TLAPS

(***************************************************************************)
(* key_fwd and key_rev are the two entries of a flow, and there is no      *)
(* third.                                                                  *)
(***************************************************************************)
LEMMA RevFacts ==
    ASSUME NEW k \in Key
    PROVE  /\ k[1] \in Flow
           /\ Rev(k) \in Key
           /\ Rev(k)[1] = k[1]
           /\ Rev(Rev(k)) = k
           /\ \A j \in Key : j[1] = k[1] => j = k \/ j = Rev(k)
  <1>1. k = <<k[1], k[2]>> /\ k[1] \in Flow /\ k[2] \in {"out", "back"}
    BY DEF Key
  <1>2. Rev(k) \in Key /\ Rev(k)[1] = k[1] /\ Rev(Rev(k)) = k
    BY <1>1 DEF Rev, Key
  <1>3. ASSUME NEW j \in Key, j[1] = k[1] PROVE j = k \/ j = Rev(k)
    <2>1. j = <<j[1], j[2]>> /\ j[2] \in {"out", "back"}
      BY DEF Key
    <2> QED
      BY <1>1, <1>3, <2>1 DEF Rev
  <1> QED
    BY <1>1, <1>2, <1>3

(***************************************************************************)
(* No segment both opens and closes a connection.                          *)
(***************************************************************************)
LEMMA FlagFacts ==
    ASSUME NEW fl \in Flags PROVE ~(IsSyn(fl) /\ IsFinOrRst(fl))
  BY DEF Flags, IsSyn, IsFinOrRst

(***************************************************************************)
(* What a run of tc_firewall_func has in hand at each of its steps.        *)
(***************************************************************************)
InHand ==
    \A c \in Cpu :
        /\ cpu[c].at = "idle" => cpu[c].key = NoEntry
        /\ cpu[c].at # "idle" => cpu[c].key \in Key /\ cpu[c].flags \in Flags
        /\ cpu[c].at = "insertRev" => IsSyn(cpu[c].flags)
        /\ cpu[c].at = "deleteRev" => IsFinOrRst(cpu[c].flags)

TypeInv == TypeOK /\ InHand

CpuRecord ==
    [at : Stage, key : Key \cup {NoEntry}, flags : Flags \cup {{}}, ptr : Key \cup {NoEntry}]

(***************************************************************************)
(* A step that only moves CPU c on, or also lets other CPUs lose their     *)
(* pointers, keeps every CPU's segment.                                    *)
(***************************************************************************)
LEMMA GotoFacts ==
    ASSUME TypeInv, NEW c \in Cpu, NEW l \in Stage \ {"idle"}, cpu[c].at # "idle",
           Goto(c, l) \/ \E ks \in SUBSET Key : GotoFreeing(c, l, ks)
    PROVE  /\ cpu' \in [Cpu -> CpuRecord]
           /\ cpu'[c].at = l
           /\ \A d \in Cpu : /\ cpu'[d].key = cpu[d].key
                             /\ cpu'[d].flags = cpu[d].flags
                             /\ d # c => cpu'[d].at = cpu[d].at
  <1>1. cpu \in [Cpu -> CpuRecord]
    BY DEF TypeInv, TypeOK, CpuRecord
  <1>2. CASE Goto(c, l)
    BY <1>1, <1>2 DEF Goto, CpuRecord
  <1>3. ASSUME NEW ks \in SUBSET Key, GotoFreeing(c, l, ks)
        PROVE  /\ cpu' \in [Cpu -> CpuRecord]
               /\ cpu'[c].at = l
               /\ \A d \in Cpu : /\ cpu'[d].key = cpu[d].key
                                 /\ cpu'[d].flags = cpu[d].flags
                                 /\ d # c => cpu'[d].at = cpu[d].at
    BY <1>1, <1>3 DEF GotoFreeing, CpuRecord
  <1> QED
    BY <1>2, <1>3

(***************************************************************************)
(* The empty map and idle CPUs are well typed.                             *)
(***************************************************************************)
LEMMA TypeInit == Init => TypeInv
  BY BoundAssumption
  DEF Init, TypeInv, TypeOK, InHand, IdleCpu, Stage

(***************************************************************************)
(* A step of a CPU that is in the program keeps what every CPU has in hand, *)
(* provided the step it goes to fits its flags.                            *)
(***************************************************************************)
LEMMA InHandStep ==
    ASSUME TypeInv, NEW c \in Cpu, NEW l \in Stage \ {"idle"}, cpu[c].at # "idle",
           Goto(c, l) \/ \E ks \in SUBSET Key : GotoFreeing(c, l, ks),
           l = "insertRev" => IsSyn(cpu[c].flags),
           l = "deleteRev" => IsFinOrRst(cpu[c].flags)
    PROVE  InHand'
  <1>1. /\ cpu'[c].at = l
        /\ \A d \in Cpu : /\ cpu'[d].key = cpu[d].key
                          /\ cpu'[d].flags = cpu[d].flags
                          /\ d # c => cpu'[d].at = cpu[d].at
    BY GotoFacts
  <1> QED
    BY <1>1 DEF TypeInv, InHand

(***************************************************************************)
(* What an insertion does when it evicts the entries of victims, a point   *)
(* of each function at a time.                                             *)
(***************************************************************************)
InsertStep(c, k, l, victims) ==
    /\ ct' \in [Key -> TcpState \cup {NoEntry}]
    /\ \A j \in Key : ct'[j] = IF j = k THEN "SYN_SENT"
                               ELSE IF j \in victims THEN NoEntry ELSE ct[j]
    /\ GotoFreeing(c, l, victims \cup {k})
    /\ secure' \in [Flow -> BOOLEAN]
    /\ \A f \in Flow : secure'[f] <=> \/ secure[f] /\ \A v \in victims : v[1] # f
                                      \/ l = "pass" /\ f = k[1] /\ ~InHook(f, IsFinOrRst)
    /\ armed' \in [Cpu -> BOOLEAN]
    /\ \A d \in Cpu : armed'[d] <=> armed[d] /\ \A v \in victims : v[1] # FlowOf(d)
    /\ UNCHANGED <<segs, credit, overlap>>

(***************************************************************************)
(* Whatever entry the LRU hash picks, an insertion is such a step.         *)
(***************************************************************************)
LEMMA InsertFacts ==
    ASSUME TypeInv, NEW c \in Cpu, NEW k \in Key, NEW l \in Stage, Insert(c, k, l)
    PROVE  \E victims \in SUBSET Key : InsertStep(c, k, l, victims)
  <1>1. PICK victims \in Victims(k) :
              /\ ct' = [j \in Key |-> IF j = k THEN "SYN_SENT"
                                      ELSE IF j \in victims THEN NoEntry ELSE ct[j]]
              /\ GotoFreeing(c, l, victims \cup {k})
              /\ secure' = [f \in Flow |->
                               \/ secure[f] /\ f \notin {v[1] : v \in victims}
                               \/ l = "pass" /\ f = k[1] /\ ~InHook(f, IsFinOrRst)]
              /\ armed' = [d \in Cpu |-> armed[d] /\ FlowOf(d) \notin {v[1] : v \in victims}]
    BY DEF Insert
  <1>2. victims \in SUBSET Key
    BY <1>1 DEF Victims, Tracked
  <1>3. \A f : f \notin {v[1] : v \in victims} <=> \A v \in victims : v[1] # f
    OBVIOUS
  <1>4. /\ ct' \in [Key -> TcpState \cup {NoEntry}]
        /\ \A j \in Key : ct'[j] = IF j = k THEN "SYN_SENT"
                                   ELSE IF j \in victims THEN NoEntry ELSE ct[j]
    BY <1>1 DEF TypeInv, TypeOK, TcpState
  <1>5. /\ secure' \in [Flow -> BOOLEAN]
        /\ \A f \in Flow :
              secure'[f] <=> \/ secure[f] /\ f \notin {v[1] : v \in victims}
                             \/ l = "pass" /\ f = k[1] /\ ~InHook(f, IsFinOrRst)
    BY <1>1, Zenon
  <1>6. /\ armed' \in [Cpu -> BOOLEAN]
        /\ \A d \in Cpu : armed'[d] <=> armed[d] /\ FlowOf(d) \notin {v[1] : v \in victims}
    BY <1>1, Zenon
  <1>7. GotoFreeing(c, l, victims \cup {k}) /\ UNCHANGED <<segs, credit, overlap>>
    BY <1>1 DEF Insert
  <1>8. /\ \A f \in Flow :
              secure'[f] <=> \/ secure[f] /\ \A v \in victims : v[1] # f
                             \/ l = "pass" /\ f = k[1] /\ ~InHook(f, IsFinOrRst)
        /\ \A d \in Cpu : armed'[d] <=> armed[d] /\ \A v \in victims : v[1] # FlowOf(d)
    BY <1>3, <1>5, <1>6, Zenon
  <1>9. InsertStep(c, k, l, victims)
    BY <1>4, <1>5, <1>6, <1>7, <1>8, Zenon DEF InsertStep
  <1> QED
    BY <1>2, <1>9

(***************************************************************************)
(* Every step of the program preserves the types.                          *)
(***************************************************************************)
LEMMA TypeInsert ==
    ASSUME TypeInv, NEW c \in Cpu, InsertFwd(c) \/ InsertRev(c)
    PROVE  TypeInv'
  <1>1. cpu[c].at # "idle" /\ cpu[c].key \in Key
    BY DEF InsertFwd, InsertRev, TypeInv, InHand
  <1>2. PICK k \in Key, l \in {"insertRev", "pass"} :
             Insert(c, k, l) /\ (l = "insertRev" => IsSyn(cpu[c].flags))
    BY <1>1, RevFacts DEF InsertFwd, InsertRev
  <1>3. l \in Stage \ {"idle"}
    BY DEF Stage
  <1>4. PICK victims \in SUBSET Key : InsertStep(c, k, l, victims)
    BY <1>2, <1>3, InsertFacts
  <1>5. \E ks \in SUBSET Key : GotoFreeing(c, l, ks)
    BY <1>4 DEF InsertStep
  <1>6. InHand' /\ cpu' \in [Cpu -> CpuRecord]
    BY <1>1, <1>2, <1>3, <1>5, InHandStep, GotoFacts
  <1>7. /\ ct' \in [Key -> TcpState \cup {NoEntry}]
        /\ secure' \in [Flow -> BOOLEAN] /\ armed' \in [Cpu -> BOOLEAN]
        /\ UNCHANGED <<segs, credit, overlap>>
    BY <1>4 DEF InsertStep
  <1> QED
    BY <1>6, <1>7 DEF TypeInv, TypeOK, CpuRecord

(***************************************************************************)
(* A segment that arrives starts a run of the hook with a typed record:    *)
(* its key, its flags and the pointer the first lookup returned.           *)
(***************************************************************************)
LEMMA TypeArrive ==
    ASSUME TypeInv, NEW c \in Cpu, Arrive(c)
    PROVE  TypeInv'
  <1>1. PICK k \in Key, fl \in Flags :
          /\ cpu' = [cpu EXCEPT ![c] =
                        [at |-> IF ct[k] # NoEntry THEN "tracked" ELSE "lookupRev",
                         key |-> k, flags |-> fl,
                         ptr |-> IF ct[k] # NoEntry THEN k ELSE NoEntry]]
          /\ credit' = [credit EXCEPT ![k[1]] = @ \/ IsSyn(fl)]
          /\ overlap' = [d \in Cpu |->
                            IF d = c THEN InHook(k[1], IsSyn)
                            ELSE overlap[d] \/ (Busy(d, k[1]) /\ IsSyn(fl))]
          /\ secure' = [secure EXCEPT ![k[1]] = @ /\ ~IsFinOrRst(fl)]
          /\ armed' = [d \in Cpu |->
                            IF d = c THEN secure[k[1]] /\ ~IsFinOrRst(fl)
                            ELSE armed[d] /\ ~(Busy(d, k[1]) /\ IsFinOrRst(fl))]
    BY DEF Arrive
  <1>2. cpu' \in [Cpu -> CpuRecord]
    BY <1>1 DEF TypeInv, TypeOK, CpuRecord, Stage
  <1>3. InHand'
    BY <1>1 DEF TypeInv, TypeOK, InHand
  <1>4. credit' \in [Flow -> BOOLEAN] /\ secure' \in [Flow -> BOOLEAN]
    BY <1>1 DEF TypeInv, TypeOK, IsSyn, IsFinOrRst
  <1>5. overlap' \in [Cpu -> BOOLEAN]
    BY <1>1, Zenon DEF TypeInv, TypeOK, InHook, IsSyn
  <1>6. armed' \in [Cpu -> BOOLEAN]
    BY <1>1, Zenon
  <1>7. segs' \in 0..MaxSegs /\ ct' = ct
    BY BoundAssumption DEF Arrive, TypeInv, TypeOK
  <1> QED
    BY <1>2, <1>3, <1>4, <1>5, <1>6, <1>7 DEF TypeInv, TypeOK, CpuRecord

(***************************************************************************)
(* Every map operation of tc_firewall_func, and an eviction, keeps the     *)
(* types.                                                                  *)
(***************************************************************************)
LEMMA TypeStep == TypeInv /\ [Next]_vars => TypeInv'
  <1> SUFFICES ASSUME TypeInv, [Next]_vars PROVE TypeInv'
    OBVIOUS
  <1>1. ASSUME NEW c \in Cpu, Arrive(c) PROVE TypeInv'
    BY <1>1, TypeArrive
  <1>2. ASSUME NEW c \in Cpu, InsertFwd(c) \/ InsertRev(c) PROVE TypeInv'
    BY <1>2, TypeInsert
  <1>3. ASSUME NEW c \in Cpu, LookupRev(c) PROVE TypeInv'
    <2>1. cpu[c].key \in Key
      BY <1>3 DEF LookupRev, TypeInv, InHand
    <2>2. Rev(cpu[c].key) \in Key
      BY <2>1, RevFacts
    <2>3. CASE ct[Rev(cpu[c].key)] # NoEntry
      BY <1>3, <2>2, <2>3 DEF LookupRev, history, TypeInv, TypeOK, InHand, Stage
    <2>4. CASE ct[Rev(cpu[c].key)] = NoEntry
      BY <1>3, <2>4 DEF LookupRev, Goto, history, TypeInv, TypeOK, InHand, Stage
    <2> QED
      BY <2>3, <2>4
  <1>4. ASSUME NEW c \in Cpu, RejectUntracked(c) PROVE TypeInv'
    BY <1>4 DEF RejectUntracked, Goto, history, TypeInv, TypeOK, InHand, Stage
  <1>5. ASSUME NEW c \in Cpu, Promote(c) PROVE TypeInv'
    <2>1. ct' \in [Key -> TcpState \cup {NoEntry}]
      BY <1>5 DEF Promote, TypeInv, TypeOK, TcpState
    <2>2. Goto(c, "promoteRev") \/ Goto(c, "account")
      BY <1>5 DEF Promote
    <2>3. cpu[c].at # "idle" /\ UNCHANGED <<segs, history>>
      BY <1>5 DEF Promote
    <2> QED
      BY <2>1, <2>2, <2>3 DEF Goto, history, TypeInv, TypeOK, InHand, Stage
  <1>6. ASSUME NEW c \in Cpu, PromoteRev(c) PROVE TypeInv'
    <2>1. ct' \in [Key -> TcpState \cup {NoEntry}]
      BY <1>6 DEF PromoteRev, TypeInv, TypeOK, TcpState
    <2>2. /\ Goto(c, "account") /\ cpu[c].at # "idle"
          /\ UNCHANGED <<segs, history>>
      BY <1>6 DEF PromoteRev
    <2> QED
      BY <2>1, <2>2 DEF Goto, history, TypeInv, TypeOK, InHand, Stage
  <1>7. ASSUME NEW c \in Cpu, Account(c) PROVE TypeInv'
    BY <1>7 DEF Account, Goto, history, TypeInv, TypeOK, InHand, Stage
  <1>8. ASSUME NEW c \in Cpu, DeleteFwd(c) PROVE TypeInv'
    <2>1. cpu[c].key \in Key /\ cpu[c].at = "account"
      BY <1>8 DEF DeleteFwd, TypeInv, InHand
    <2>2. \E ks \in SUBSET Key : GotoFreeing(c, "deleteRev", ks)
      BY <1>8, <2>1 DEF DeleteFwd
    <2>3. InHand' /\ cpu' \in [Cpu -> CpuRecord]
      BY <1>8, <2>1, <2>2, InHandStep, GotoFacts DEF DeleteFwd, Stage
    <2>4. ct' \in [Key -> TcpState \cup {NoEntry}]
      BY <1>8 DEF DeleteFwd, TypeInv, TypeOK
    <2> QED
      BY <1>8, <2>3, <2>4 DEF DeleteFwd, history, TypeInv, TypeOK, CpuRecord
  <1>9. ASSUME NEW c \in Cpu, DeleteRev(c) PROVE TypeInv'
    <2>1. cpu[c].key \in Key /\ cpu[c].at = "deleteRev"
      BY <1>9 DEF DeleteRev, TypeInv, InHand
    <2>2. \E ks \in SUBSET Key : GotoFreeing(c, "pass", ks)
      BY <1>9, <2>1, RevFacts DEF DeleteRev
    <2>3. InHand' /\ cpu' \in [Cpu -> CpuRecord]
      BY <2>1, <2>2, InHandStep, GotoFacts DEF Stage
    <2>4. ct' \in [Key -> TcpState \cup {NoEntry}]
      BY <1>9 DEF DeleteRev, TypeInv, TypeOK
    <2>5. credit' \in [Flow -> BOOLEAN]
      BY <1>9 DEF DeleteRev, TypeInv, TypeOK
    <2> QED
      BY <1>9, <2>3, <2>4, <2>5 DEF DeleteRev, TypeInv, TypeOK, CpuRecord
  <1>10. ASSUME NEW c \in Cpu, Verdict(c) PROVE TypeInv'
    BY <1>10 DEF Verdict, IdleCpu, TypeInv, TypeOK, InHand, Stage
  <1>11. CASE UNCHANGED vars
    BY <1>11 DEF vars, TypeInv, TypeOK, InHand
  <1> QED
    BY <1>1, <1>2, <1>3, <1>4, <1>5, <1>6, <1>7, <1>8, <1>9, <1>10, <1>11
    DEF Next, TcStep

(***************************************************************************)
(* Every entry of conntrack_map is in one of the two states the program    *)
(* writes, and every CPU works on a key and flags of its segment.          *)
(***************************************************************************)
THEOREM ConntrackTypeCorrect == Spec => []TypeOK
  <1>1. TypeInv => TypeOK
    BY DEF TypeInv
  <1> QED
    BY <1>1, TypeInit, TypeStep, PTL DEF Spec

(***************************************************************************)
(* SyncFromKernel names every state an entry can be in as the kernel does. *)
(***************************************************************************)
THEOREM MirrorCorrect == Spec => []MirrorNamesState
  <1>1. TypeOK => MirrorNamesState
    BY DEF TypeOK, MirrorNamesState, MirrorLabel, KernelCode, TcpState
  <1> QED
    BY <1>1, ConntrackTypeCorrect, PTL

-----------------------------------------------------------------------------
(***************************************************************************)
(* CPU d is in the program with a segment of flow f; no such segment ends  *)
(* the flow.                                                               *)
(***************************************************************************)
Holds(d, f) == cpu[d].key # NoEntry /\ cpu[d].key[1] = f

NoFin(f) == \A d \in Cpu : Holds(d, f) => ~IsFinOrRst(cpu[d].flags)

(***************************************************************************)
(* NoGhostFlow is not inductive: the end of a teardown takes the credit    *)
(* away on the strength of what happened since it began.  overlap records  *)
(* every SYN a CPU ran together with (SynOverlaps), a SYN in the program   *)
(* has its flow's credit (SynHasCredit), and a teardown that no SYN        *)
(* overlapped still finds the first of the two entries gone (FwdGone).     *)
(***************************************************************************)
SynOverlaps ==
    \A c, d \in Cpu :
        c # d /\ cpu[c].key # NoEntry /\ Holds(d, cpu[c].key[1]) /\ IsSyn(cpu[d].flags)
            => overlap[c]

SynHasCredit ==
    \A d \in Cpu : cpu[d].key # NoEntry /\ IsSyn(cpu[d].flags) => credit[cpu[d].key[1]]

FwdGone ==
    \A c \in Cpu : cpu[c].at = "deleteRev" /\ ~overlap[c] => ct[cpu[c].key] = NoEntry

GhostInv == NoGhostFlow /\ SynOverlaps /\ SynHasCredit /\ FwdGone

(***************************************************************************)
(* NoSpuriousDrop rests on what "open" promises: an open flow has an entry *)
(* and no FIN or RST in the program (OpenIsTracked), and a segment that    *)
(* met its flow open finds one of the two entries (ArmedFinds).            *)
(***************************************************************************)
OpenIsTracked ==
    \A f \in Flow : secure[f] => NoFin(f) /\ \E k \in Key : k[1] = f /\ ct[k] # NoEntry

ArmedFinds ==
    \A c \in Cpu : armed[c] =>
        /\ cpu[c].at \notin {"idle", "untracked", "drop"}
        /\ \A f \in Flow : f = cpu[c].key[1] => NoFin(f)
        /\ cpu[c].at = "lookupRev" => ct[Rev(cpu[c].key)] # NoEntry

OpenInv == OpenIsTracked /\ ArmedFinds

(***************************************************************************)
(* A CPU has a key exactly while it is in the program, and Holds is the    *)
(* specification's Busy and InHook for a flow.                             *)
(***************************************************************************)
LEMMA HoldsFacts ==
    ASSUME TypeInv, NEW d \in Cpu
    PROVE  /\ cpu[d].key # NoEntry <=> cpu[d].at # "idle"
           /\ cpu[d].key # NoEntry => /\ cpu[d].key \in Key /\ cpu[d].key[1] \in Flow
                                      /\ cpu[d].flags \in Flags
           /\ \A f \in Flow : Busy(d, f) <=> Holds(d, f)
  <1>1. /\ cpu[d].key # NoEntry <=> cpu[d].at # "idle"
        /\ cpu[d].key # NoEntry => cpu[d].key \in Key /\ cpu[d].flags \in Flags
    BY NoEntryAssumption DEF TypeInv, InHand
  <1>2. cpu[d].key # NoEntry => cpu[d].key[1] \in Flow
    BY <1>1, RevFacts
  <1>3. \A f \in Flow : Busy(d, f) <=> Holds(d, f)
    BY NoEntryAssumption DEF Busy, FlowOf, Holds
  <1> QED
    BY <1>1, <1>2, <1>3

(***************************************************************************)
(* The specification's InHook, in the terms of the two invariants.         *)
(***************************************************************************)
LEMMA InHookFacts ==
    ASSUME TypeInv, NEW f \in Flow
    PROVE  /\ ~InHook(f, IsFinOrRst) <=> NoFin(f)
           /\ InHook(f, IsSyn) <=> \E d \in Cpu : Holds(d, f) /\ IsSyn(cpu[d].flags)
  <1>1. \A d \in Cpu : Busy(d, f) <=> Holds(d, f)
    BY HoldsFacts
  <1>2. ~InHook(f, IsFinOrRst) <=> NoFin(f)
    BY <1>1, Zenon DEF InHook, NoFin
  <1>3. InHook(f, IsSyn) <=> \E d \in Cpu : Holds(d, f) /\ IsSyn(cpu[d].flags)
    BY <1>1, Zenon DEF InHook
  <1> QED
    BY <1>2, <1>3

(***************************************************************************)
(* What an arrival does, a point of each function at a time.               *)
(***************************************************************************)
ArriveStep(c, k, fl) ==
    /\ cpu'[c].key = k /\ cpu'[c].flags = fl
    /\ cpu'[c].at = IF ct[k] # NoEntry THEN "tracked" ELSE "lookupRev"
    /\ \A d \in Cpu : d # c => cpu'[d] = cpu[d]
    /\ \A f \in Flow : credit'[f] <=> credit[f] \/ (f = k[1] /\ IsSyn(fl))
    /\ overlap'[c] <=> \E d \in Cpu : Holds(d, k[1]) /\ IsSyn(cpu[d].flags)
    /\ \A d \in Cpu : d # c => (overlap'[d] <=> overlap[d] \/ (Holds(d, k[1]) /\ IsSyn(fl)))
    /\ \A f \in Flow : secure'[f] <=> secure[f] /\ (f = k[1] => ~IsFinOrRst(fl))
    /\ armed'[c] <=> secure[k[1]] /\ ~IsFinOrRst(fl)
    /\ \A d \in Cpu : d # c => (armed'[d] <=> armed[d] /\ ~(Holds(d, k[1]) /\ IsFinOrRst(fl)))
    /\ ct' = ct

(***************************************************************************)
(* Every arrival is such a step for the key and flags of its segment.      *)
(***************************************************************************)
LEMMA ArriveFacts ==
    ASSUME TypeInv, NEW c \in Cpu, Arrive(c)
    PROVE  \E k \in Key, fl \in Flags : ArriveStep(c, k, fl)
  <1>1. PICK k \in Key, fl \in Flags :
          /\ cpu' = [cpu EXCEPT ![c] =
                        [at |-> IF ct[k] # NoEntry THEN "tracked" ELSE "lookupRev",
                         key |-> k, flags |-> fl,
                         ptr |-> IF ct[k] # NoEntry THEN k ELSE NoEntry]]
          /\ credit' = [credit EXCEPT ![k[1]] = @ \/ IsSyn(fl)]
          /\ overlap' = [d \in Cpu |->
                            IF d = c THEN InHook(k[1], IsSyn)
                            ELSE overlap[d] \/ (Busy(d, k[1]) /\ IsSyn(fl))]
          /\ secure' = [secure EXCEPT ![k[1]] = @ /\ ~IsFinOrRst(fl)]
          /\ armed' = [d \in Cpu |->
                            IF d = c THEN secure[k[1]] /\ ~IsFinOrRst(fl)
                            ELSE armed[d] /\ ~(Busy(d, k[1]) /\ IsFinOrRst(fl))]
    BY DEF Arrive
  <1>2. k[1] \in Flow
    BY RevFacts
  <1>3. /\ InHook(k[1], IsSyn) <=> \E d \in Cpu : Holds(d, k[1]) /\ IsSyn(cpu[d].flags)
        /\ \A d \in Cpu : Busy(d, k[1]) <=> Holds(d, k[1])
    BY <1>2, InHookFacts, HoldsFacts
  <1>4. /\ cpu'[c].key = k /\ cpu'[c].flags = fl
        /\ cpu'[c].at = IF ct[k] # NoEntry THEN "tracked" ELSE "lookupRev"
        /\ \A d \in Cpu : d # c => cpu'[d] = cpu[d]
    BY <1>1 DEF TypeInv, TypeOK
  <1>5. /\ \A f \in Flow : credit'[f] <=> credit[f] \/ (f = k[1] /\ IsSyn(fl))
        /\ \A f \in Flow : secure'[f] <=> secure[f] /\ (f = k[1] => ~IsFinOrRst(fl))
    BY <1>1, <1>2 DEF TypeInv, TypeOK, IsSyn, IsFinOrRst
  <1>6. /\ overlap'[c] <=> InHook(k[1], IsSyn)
        /\ \A d \in Cpu : d # c => (overlap'[d] <=> overlap[d] \/ (Busy(d, k[1]) /\ IsSyn(fl)))
    BY <1>1, Zenon
  <1>7. /\ armed'[c] <=> secure[k[1]] /\ ~IsFinOrRst(fl)
        /\ \A d \in Cpu : d # c => (armed'[d] <=> armed[d] /\ ~(Busy(d, k[1]) /\ IsFinOrRst(fl)))
    BY <1>1, Zenon
  <1>8. ct' = ct
    BY DEF Arrive
  <1>9. /\ overlap'[c] <=> \E d \in Cpu : Holds(d, k[1]) /\ IsSyn(cpu[d].flags)
        /\ \A d \in Cpu : d # c => (overlap'[d] <=> overlap[d] \/ (Holds(d, k[1]) /\ IsSyn(fl)))
        /\ \A d \in Cpu : d # c => (armed'[d] <=> armed[d] /\ ~(Holds(d, k[1]) /\ IsFinOrRst(fl)))
    BY <1>3, <1>6, <1>7, Zenon
  <1>10. ArriveStep(c, k, fl)
    BY <1>4, <1>5, <1>7, <1>8, <1>9, Zenon DEF ArriveStep
  <1> QED
    BY <1>10

(***************************************************************************)
(* Nothing that adds no entry, starts no teardown and leaves segments and  *)
(* histories alone can make a ghost.                                       *)
(***************************************************************************)
LEMMA GhostFrame ==
    ASSUME TypeInv, GhostInv,
           \A d \in Cpu : /\ cpu'[d].key = cpu[d].key /\ cpu'[d].flags = cpu[d].flags
                          /\ cpu'[d].at = "deleteRev" => cpu[d].at = "deleteRev",
           \A k \in Key : ct[k] = NoEntry => ct'[k] = NoEntry,
           UNCHANGED <<credit, overlap>>
    PROVE  GhostInv'
  <1>1. NoGhostFlow'
    BY DEF GhostInv, NoGhostFlow
  <1>2. SynOverlaps'
    BY DEF GhostInv, SynOverlaps, Holds
  <1>3. SynHasCredit'
    BY DEF GhostInv, SynHasCredit
  <1>4. FwdGone'
    BY DEF GhostInv, FwdGone, TypeInv, InHand
  <1> QED
    BY <1>1, <1>2, <1>3, <1>4 DEF GhostInv

(***************************************************************************)
(* A SYN that arrives earns its flow the credit and marks every teardown   *)
(* of the flow under way.                                                  *)
(***************************************************************************)
LEMMA GhostArrive ==
    ASSUME TypeInv, GhostInv, NEW c \in Cpu, Arrive(c)
    PROVE  GhostInv'
  <1>1. PICK k \in Key, fl \in Flags : ArriveStep(c, k, fl)
    BY ArriveFacts
  <1>2. k[1] \in Flow /\ \A j \in Key : j[1] \in Flow
    BY RevFacts
  <1>3. \A d \in Cpu : cpu[d].key # NoEntry => cpu[d].key \in Key
    BY HoldsFacts
  <1>4. k # NoEntry
    BY NoEntryAssumption
  <1>5. NoGhostFlow'
    BY <1>1, <1>2 DEF GhostInv, NoGhostFlow, ArriveStep
  <1>6. SynOverlaps'
    <2> SUFFICES ASSUME NEW a \in Cpu, NEW d \in Cpu, a # d,
                        cpu'[a].key # NoEntry, cpu'[d].key # NoEntry,
                        cpu'[d].key[1] = cpu'[a].key[1], IsSyn(cpu'[d].flags)
                 PROVE  overlap'[a]
      BY DEF SynOverlaps, Holds
    <2>1. CASE a = c
      BY <1>1, <2>1 DEF ArriveStep, Holds
    <2>2. CASE a # c /\ d = c
      BY <1>1, <2>2 DEF ArriveStep, Holds
    <2>3. CASE a # c /\ d # c
      BY <1>1, <2>3 DEF ArriveStep, GhostInv, SynOverlaps, Holds
    <2> QED
      BY <2>1, <2>2, <2>3
  <1>7. SynHasCredit'
    BY <1>1, <1>2, <1>3 DEF GhostInv, SynHasCredit, ArriveStep
  <1>8. FwdGone'
    BY <1>1 DEF GhostInv, FwdGone, ArriveStep
  <1> QED
    BY <1>5, <1>6, <1>7, <1>8 DEF GhostInv

(***************************************************************************)
(* An insertion is made by a SYN: its flow has the credit, and whatever    *)
(* teardown of the flow is under way is overlapped by it.                  *)
(***************************************************************************)
LEMMA GhostInsert ==
    ASSUME TypeInv, GhostInv, NEW c \in Cpu, InsertFwd(c) \/ InsertRev(c)
    PROVE  GhostInv'
  <1>1. cpu[c].at # "idle" /\ cpu[c].key \in Key /\ IsSyn(cpu[c].flags)
    BY DEF InsertFwd, InsertRev, TypeInv, InHand
  <1>2. PICK k \in Key, l \in {"insertRev", "pass"} : Insert(c, k, l) /\ k[1] = cpu[c].key[1]
    BY <1>1, RevFacts DEF InsertFwd, InsertRev
  <1>3. l \in Stage \ {"idle"}
    BY DEF Stage
  <1>4. PICK victims \in SUBSET Key : InsertStep(c, k, l, victims)
    BY <1>2, <1>3, InsertFacts
  <1>5. \E ks \in SUBSET Key : GotoFreeing(c, l, ks)
    BY <1>4 DEF InsertStep
  <1>6. /\ cpu'[c].at = l
        /\ \A d \in Cpu : /\ cpu'[d].key = cpu[d].key /\ cpu'[d].flags = cpu[d].flags
                          /\ d # c => cpu'[d].at = cpu[d].at
    BY <1>1, <1>3, <1>5, GotoFacts
  <1>7. /\ \A j \in Key : ct'[j] # NoEntry => j = k \/ ct[j] # NoEntry
        /\ UNCHANGED <<credit, overlap>>
    BY <1>4 DEF InsertStep
  <1>8. credit[k[1]]
    BY <1>1, <1>2, NoEntryAssumption DEF GhostInv, SynHasCredit
  <1>9. NoGhostFlow'
    BY <1>7, <1>8 DEF GhostInv, NoGhostFlow
  <1>10. SynOverlaps'
    BY <1>6, <1>7 DEF GhostInv, SynOverlaps, Holds
  <1>11. SynHasCredit'
    BY <1>6, <1>7 DEF GhostInv, SynHasCredit
  <1>12. ASSUME NEW d \in Cpu, cpu'[d].at = "deleteRev", ~overlap'[d]
         PROVE  ct'[cpu'[d].key] = NoEntry
    <2>1. d # c /\ cpu[d].at = "deleteRev" /\ ~overlap[d]
      BY <1>6, <1>7, <1>12
    <2>2. cpu[d].key \in Key /\ ct[cpu[d].key] = NoEntry
      BY <2>1 DEF GhostInv, FwdGone, TypeInv, InHand
    <2>3. cpu[d].key # k
      BY <1>1, <1>2, <2>1, <2>2, NoEntryAssumption DEF GhostInv, SynOverlaps, Holds
    <2> QED
      BY <1>6, <1>7, <2>2, <2>3
  <1> QED
    BY <1>9, <1>10, <1>11, <1>12 DEF GhostInv, FwdGone

(***************************************************************************)
(* A teardown that ends and that no SYN overlapped leaves no entry of its  *)
(* flow: the first was gone, the second goes now, and there is no third.   *)
(***************************************************************************)
LEMMA GhostDeleteRev ==
    ASSUME TypeInv, GhostInv, NEW c \in Cpu, DeleteRev(c)
    PROVE  GhostInv'
  <1> DEFINE kf == cpu[c].key
  <1>1. kf \in Key /\ cpu[c].at = "deleteRev" /\ cpu[c].flags \in Flags
                   /\ IsFinOrRst(cpu[c].flags)
    BY DEF DeleteRev, TypeInv, InHand
  <1>2. /\ kf[1] \in Flow /\ Rev(kf) \in Key /\ Rev(kf)[1] = kf[1]
        /\ \A j \in Key : j[1] = kf[1] => j = kf \/ j = Rev(kf)
        /\ \A j \in Key : j[1] \in Flow
    BY <1>1, RevFacts
  <1>3. ~IsSyn(cpu[c].flags)
    BY <1>1, FlagFacts
  <1>4. \E ks \in SUBSET Key : GotoFreeing(c, "pass", ks)
    BY <1>2 DEF DeleteRev
  <1>5. /\ cpu'[c].at = "pass"
        /\ \A d \in Cpu : /\ cpu'[d].key = cpu[d].key /\ cpu'[d].flags = cpu[d].flags
                          /\ d # c => cpu'[d].at = cpu[d].at
    BY <1>1, <1>4, GotoFacts DEF Stage
  <1>6. \A j \in Key : ct'[j] = IF j = Rev(kf) THEN NoEntry ELSE ct[j]
    BY <1>2 DEF DeleteRev, TypeInv, TypeOK
  <1>7. FlowOf(c) = kf[1]
    BY <1>1, NoEntryAssumption DEF FlowOf
  <1>8. \A f \in Flow : credit'[f] <=> credit[f] /\ (f = kf[1] => overlap[c])
    BY <1>2, <1>7 DEF DeleteRev, TypeInv, TypeOK
  <1>9. overlap' = overlap
    BY DEF DeleteRev
  <1>10. ASSUME NEW j \in Key, ct'[j] # NoEntry PROVE credit'[j[1]]
    <2>1. ct[j] # NoEntry /\ j # Rev(kf)
      BY <1>6, <1>10
    <2>2. credit[j[1]]
      BY <2>1 DEF GhostInv, NoGhostFlow
    <2>3. ASSUME j[1] = kf[1], ~overlap[c] PROVE FALSE
      BY <1>1, <1>2, <2>1, <2>3 DEF GhostInv, FwdGone
    <2> QED
      BY <1>2, <1>8, <2>2, <2>3
  <1>11. SynOverlaps'
    BY <1>5, <1>9 DEF GhostInv, SynOverlaps, Holds
  <1>12. ASSUME NEW d \in Cpu, cpu'[d].key # NoEntry, IsSyn(cpu'[d].flags)
         PROVE  credit'[cpu'[d].key[1]]
    <2>1. cpu[d].key # NoEntry /\ IsSyn(cpu[d].flags) /\ d # c /\ cpu'[d].key = cpu[d].key
      BY <1>3, <1>5, <1>12
    <2>2. cpu[d].key[1] \in Flow /\ credit[cpu[d].key[1]]
      BY <2>1, HoldsFacts DEF GhostInv, SynHasCredit
    <2>3. cpu[d].key[1] = kf[1] => overlap[c]
      BY <1>1, <2>1, NoEntryAssumption DEF GhostInv, SynOverlaps, Holds
    <2> QED
      BY <1>8, <2>1, <2>2, <2>3
  <1>13. FwdGone'
    BY <1>5, <1>6, <1>9 DEF GhostInv, FwdGone, TypeInv, InHand
  <1> QED
    BY <1>10, <1>11, <1>12, <1>13 DEF GhostInv, NoGhostFlow, SynHasCredit

(***************************************************************************)
(* Every step of the program preserves GhostInv.                           *)
(***************************************************************************)
LEMMA GhostStep == TypeInv /\ GhostInv /\ [Next]_vars => GhostInv'
  <1> SUFFICES ASSUME TypeInv, GhostInv, [Next]_vars PROVE GhostInv'
    OBVIOUS
  <1>1. ASSUME NEW c \in Cpu, Arrive(c) PROVE GhostInv'
    BY <1>1, GhostArrive
  <1>2. ASSUME NEW c \in Cpu, InsertFwd(c) \/ InsertRev(c) PROVE GhostInv'
    BY <1>2, GhostInsert
  <1>3. ASSUME NEW c \in Cpu, DeleteRev(c) PROVE GhostInv'
    BY <1>3, GhostDeleteRev
  <1>4. ASSUME NEW c \in Cpu, LookupRev(c) PROVE GhostInv'
    <2>1. \A d \in Cpu : /\ cpu'[d].key = cpu[d].key /\ cpu'[d].flags = cpu[d].flags
                         /\ cpu'[d].at = "deleteRev" => cpu[d].at = "deleteRev"
      BY <1>4 DEF LookupRev, Goto, TypeInv, TypeOK
    <2>2. UNCHANGED <<ct, credit, overlap>>
      BY <1>4 DEF LookupRev, history
    <2> QED
      BY <2>1, <2>2, GhostFrame
  <1>5. ASSUME NEW c \in Cpu, RejectUntracked(c) \/ Account(c) PROVE GhostInv'
    <2>1. \A d \in Cpu : /\ cpu'[d].key = cpu[d].key /\ cpu'[d].flags = cpu[d].flags
                         /\ cpu'[d].at = "deleteRev" => cpu[d].at = "deleteRev"
      BY <1>5 DEF RejectUntracked, Account, Goto, TypeInv, TypeOK
    <2>2. UNCHANGED <<ct, credit, overlap>>
      BY <1>5 DEF RejectUntracked, Account, history
    <2> QED
      BY <2>1, <2>2, GhostFrame
  <1>6. ASSUME NEW c \in Cpu, Promote(c) PROVE GhostInv'
    <2>1. \A d \in Cpu : /\ cpu'[d].key = cpu[d].key /\ cpu'[d].flags = cpu[d].flags
                         /\ cpu'[d].at = "deleteRev" => cpu[d].at = "deleteRev"
      BY <1>6 DEF Promote, Goto, TypeInv, TypeOK
    <2>2. UNCHANGED <<credit, overlap>>
      BY <1>6 DEF Promote, history
    <2>3. \A k \in Key : ct[k] = NoEntry => ct'[k] = NoEntry
      BY <1>6, NoEntryAssumption DEF Promote, TypeInv, TypeOK, TcpState
    <2> QED
      BY <2>1, <2>2, <2>3, GhostFrame
  <1>7. ASSUME NEW c \in Cpu, PromoteRev(c) PROVE GhostInv'
    <2>1. \A d \in Cpu : /\ cpu'[d].key = cpu[d].key /\ cpu'[d].flags = cpu[d].flags
                         /\ cpu'[d].at = "deleteRev" => cpu[d].at = "deleteRev"
      BY <1>7 DEF PromoteRev, Goto, TypeInv, TypeOK
    <2>2. UNCHANGED <<credit, overlap>>
      BY <1>7 DEF PromoteRev, history
    <2>3. \A k \in Key : ct[k] = NoEntry => ct'[k] = NoEntry
      BY <1>7 DEF PromoteRev, TypeInv, TypeOK
    <2> QED
      BY <2>1, <2>2, <2>3, GhostFrame
  <1>8. ASSUME NEW c \in Cpu, DeleteFwd(c) PROVE GhostInv'
    <2>1. cpu[c].key \in Key /\ cpu[c].at = "account"
      BY <1>8 DEF DeleteFwd, TypeInv, InHand
    <2>2. \E ks \in SUBSET Key : GotoFreeing(c, "deleteRev", ks)
      BY <1>8, <2>1 DEF DeleteFwd
    <2>3. \A d \in Cpu : /\ cpu'[d].key = cpu[d].key /\ cpu'[d].flags = cpu[d].flags
                         /\ d # c => cpu'[d].at = cpu[d].at
      BY <2>1, <2>2, GotoFacts DEF Stage
    <2>4. /\ \A k \in Key : ct'[k] = IF k = cpu[c].key THEN NoEntry ELSE ct[k]
          /\ UNCHANGED <<credit, overlap>>
      BY <1>8, <2>1 DEF DeleteFwd, history, TypeInv, TypeOK
    <2>5. NoGhostFlow' /\ SynOverlaps' /\ SynHasCredit'
      BY <2>3, <2>4 DEF GhostInv, NoGhostFlow, SynOverlaps, SynHasCredit, Holds
    <2>6. FwdGone'
      BY <2>1, <2>3, <2>4 DEF GhostInv, FwdGone, TypeInv, InHand
    <2> QED
      BY <2>5, <2>6 DEF GhostInv
  <1>9. ASSUME NEW c \in Cpu, Verdict(c) PROVE GhostInv'
    <2>1. /\ cpu'[c].key = NoEntry /\ cpu'[c].at = "idle"
          /\ \A d \in Cpu : d # c => cpu'[d] = cpu[d] /\ overlap'[d] = overlap[d]
          /\ UNCHANGED <<ct, credit>>
      BY <1>9 DEF Verdict, IdleCpu, TypeInv, TypeOK
    <2>2. NoGhostFlow'
      BY <2>1 DEF GhostInv, NoGhostFlow
    <2>3. SynOverlaps' /\ SynHasCredit'
      BY <2>1 DEF GhostInv, SynOverlaps, SynHasCredit, Holds
    <2>4. FwdGone'
      BY <2>1 DEF GhostInv, FwdGone
    <2> QED
      BY <2>2, <2>3, <2>4 DEF GhostInv
  <1>10. CASE UNCHANGED vars
    BY <1>10 DEF vars, GhostInv, NoGhostFlow, SynOverlaps, SynHasCredit, FwdGone, Holds
  <1> QED
    BY <1>1, <1>2, <1>3, <1>4, <1>5, <1>6, <1>7, <1>8, <1>9, <1>10 DEF Next, TcStep

(***************************************************************************)
(* No entry outlives its connection: an entry of conntrack_map is there    *)
(* only if a SYN of its flow came and no teardown ran entirely after it,   *)
(* on any number of CPUs and with any evictions.                           *)
(***************************************************************************)
THEOREM NoGhostFlowHolds == Spec => []NoGhostFlow
  <1>1. Init => TypeInv /\ GhostInv
    <2>1. Init => GhostInv
      BY DEF Init, IdleCpu, GhostInv, NoGhostFlow, SynOverlaps, SynHasCredit, FwdGone, Holds
    <2> QED
      BY <2>1, TypeInit
  <1>2. TypeInv /\ GhostInv /\ [Next]_vars => (TypeInv /\ GhostInv)'
    BY TypeStep, GhostStep
  <1>3. GhostInv => NoGhostFlow
    BY DEF GhostInv
  <1> QED
    BY <1>1, <1>2, <1>3, PTL DEF Spec

-----------------------------------------------------------------------------
(***************************************************************************)
(* A step that leaves segments and histories alone keeps what open flows   *)
(* promise, if it takes entries only from flows that are not open and a    *)
(* CPU it moves is past its lookups or was not armed.                      *)
(***************************************************************************)
LEMMA OpenFrame ==
    ASSUME TypeInv, OpenInv,
           \A d \in Cpu : /\ cpu'[d].key = cpu[d].key /\ cpu'[d].flags = cpu[d].flags
                          /\ \/ cpu'[d].at = cpu[d].at
                             \/ cpu'[d].at \notin {"idle", "untracked", "drop", "lookupRev"}
                             \/ ~armed[d],
           \A k \in Key : ct'[k] = NoEntry => ct[k] = NoEntry \/ ~NoFin(k[1]),
           UNCHANGED <<secure, armed>>
    PROVE  OpenInv'
  <1>1. \A f : NoFin(f)' <=> NoFin(f)
    BY DEF NoFin, Holds
  <1>2. OpenIsTracked'
    BY <1>1 DEF OpenInv, OpenIsTracked
  <1>3. ASSUME NEW c \in Cpu, armed'[c]
        PROVE  /\ cpu'[c].at \notin {"idle", "untracked", "drop"}
               /\ \A f \in Flow : f = cpu'[c].key[1] => NoFin(f)'
               /\ cpu'[c].at = "lookupRev" => ct'[Rev(cpu'[c].key)] # NoEntry
    <2>1. /\ armed[c] /\ cpu[c].at \notin {"idle", "untracked", "drop"}
          /\ \A f \in Flow : f = cpu[c].key[1] => NoFin(f)
          /\ cpu[c].at = "lookupRev" => ct[Rev(cpu[c].key)] # NoEntry
      BY <1>3 DEF OpenInv, ArmedFinds
    <2>2. cpu[c].key \in Key
      BY <2>1 DEF TypeInv, InHand
    <2>3. /\ Rev(cpu[c].key) \in Key /\ Rev(cpu[c].key)[1] = cpu[c].key[1]
          /\ cpu[c].key[1] \in Flow
      BY <2>2, RevFacts
    <2>4. cpu'[c].key = cpu[c].key
      OBVIOUS
    <2>5. \A f \in Flow : f = cpu'[c].key[1] => NoFin(f)'
      BY <1>1, <2>1, <2>4
    <2>6. ct[Rev(cpu[c].key)] # NoEntry => ct'[Rev(cpu'[c].key)] # NoEntry
      BY <2>1, <2>3, <2>4
    <2> QED
      BY <2>1, <2>5, <2>6
  <1> QED
    BY <1>2, <1>3 DEF OpenInv, ArmedFinds

(***************************************************************************)
(* A segment that arrives while its flow is open misses at most one of the *)
(* two entries; a FIN or RST disarms the segments of its flow.             *)
(***************************************************************************)
LEMMA OpenArrive ==
    ASSUME TypeInv, OpenInv, NEW c \in Cpu, Arrive(c)
    PROVE  OpenInv'
  <1>1. PICK k \in Key, fl \in Flags : ArriveStep(c, k, fl)
    BY ArriveFacts
  <1>2. k[1] \in Flow /\ k # NoEntry
    BY RevFacts, NoEntryAssumption
  <1>3. \A f \in Flow : NoFin(f)' <=> /\ \A d \in Cpu \ {c} : Holds(d, f) => ~IsFinOrRst(cpu[d].flags)
                                      /\ f = k[1] => ~IsFinOrRst(fl)
    BY <1>1, <1>2 DEF ArriveStep, NoFin, Holds
  <1>4. \A f \in Flow : NoFin(f) /\ (f = k[1] => ~IsFinOrRst(fl)) => NoFin(f)'
    BY <1>3 DEF NoFin
  <1>5. OpenIsTracked'
    <2> SUFFICES ASSUME NEW f \in Flow, secure'[f]
                 PROVE  NoFin(f)' /\ \E j \in Key : j[1] = f /\ ct'[j] # NoEntry
      BY DEF OpenIsTracked
    <2>1. secure[f] /\ (f = k[1] => ~IsFinOrRst(fl)) /\ ct' = ct
      BY <1>1 DEF ArriveStep
    <2>2. NoFin(f) /\ \E j \in Key : j[1] = f /\ ct[j] # NoEntry
      BY <2>1 DEF OpenInv, OpenIsTracked
    <2> QED
      BY <1>4, <2>1, <2>2
  <1>6. ASSUME NEW d \in Cpu, armed'[d], d # c
        PROVE  /\ cpu'[d].at \notin {"idle", "untracked", "drop"}
               /\ \A f \in Flow : f = cpu'[d].key[1] => NoFin(f)'
               /\ cpu'[d].at = "lookupRev" => ct'[Rev(cpu'[d].key)] # NoEntry
    <2>1. /\ armed[d] /\ ~(Holds(d, k[1]) /\ IsFinOrRst(fl))
          /\ cpu'[d] = cpu[d] /\ ct' = ct
      BY <1>1, <1>6 DEF ArriveStep
    <2>2. /\ cpu[d].at \notin {"idle", "untracked", "drop"}
          /\ \A f \in Flow : f = cpu[d].key[1] => NoFin(f)
          /\ cpu[d].at = "lookupRev" => ct[Rev(cpu[d].key)] # NoEntry
      BY <2>1 DEF OpenInv, ArmedFinds
    <2>3. cpu[d].key # NoEntry /\ cpu[d].key[1] \in Flow
      BY <2>2, HoldsFacts
    <2>4. cpu[d].key[1] = k[1] => ~IsFinOrRst(fl)
      BY <2>1, <2>3 DEF Holds
    <2>5. \A f \in Flow : f = cpu[d].key[1] => NoFin(f)'
      BY <1>4, <2>1, <2>2, <2>3, <2>4
    <2> QED
      BY <2>1, <2>2, <2>5
  <1>7. ASSUME armed'[c]
        PROVE  /\ cpu'[c].at \notin {"idle", "untracked", "drop"}
               /\ \A f \in Flow : f = cpu'[c].key[1] => NoFin(f)'
               /\ cpu'[c].at = "lookupRev" => ct'[Rev(cpu'[c].key)] # NoEntry
    <2>1. /\ secure[k[1]] /\ ~IsFinOrRst(fl) /\ ct' = ct /\ cpu'[c].key = k
          /\ cpu'[c].at = IF ct[k] # NoEntry THEN "tracked" ELSE "lookupRev"
      BY <1>1, <1>7 DEF ArriveStep
    <2>2. NoFin(k[1]) /\ \E j \in Key : j[1] = k[1] /\ ct[j] # NoEntry
      BY <1>2, <2>1 DEF OpenInv, OpenIsTracked
    <2>3. ct[k] = NoEntry => ct[Rev(k)] # NoEntry
      BY <2>2, RevFacts
    <2>4. NoFin(k[1])'
      BY <1>2, <1>4, <2>1, <2>2
    <2> QED
      BY <2>1, <2>3, <2>4
  <1> QED
    BY <1>5, <1>6, <1>7 DEF OpenInv, ArmedFinds

(***************************************************************************)
(* An insertion takes entries only from the flows it evicts, which are     *)
(* open no more; the flow it opens has the entry just made.                *)
(***************************************************************************)
LEMMA OpenInsert ==
    ASSUME TypeInv, OpenInv, NEW c \in Cpu, InsertFwd(c) \/ InsertRev(c)
    PROVE  OpenInv'
  <1>1. cpu[c].at \in {"untracked", "insertRev"} /\ cpu[c].at # "idle" /\ cpu[c].key \in Key
    BY DEF InsertFwd, InsertRev, TypeInv, InHand
  <1>2. PICK k \in Key, l \in {"insertRev", "pass"} : Insert(c, k, l)
    BY <1>1, RevFacts DEF InsertFwd, InsertRev
  <1>3. l \in Stage \ {"idle"}
    BY DEF Stage
  <1>4. PICK victims \in SUBSET Key : InsertStep(c, k, l, victims)
    BY <1>2, <1>3, InsertFacts
  <1>5. \E ks \in SUBSET Key : GotoFreeing(c, l, ks)
    BY <1>4 DEF InsertStep
  <1>6. /\ cpu'[c].at = l
        /\ \A d \in Cpu : /\ cpu'[d].key = cpu[d].key /\ cpu'[d].flags = cpu[d].flags
                          /\ d # c => cpu'[d].at = cpu[d].at
    BY <1>1, <1>3, <1>5, GotoFacts
  <1>7. \A f : NoFin(f)' <=> NoFin(f)
    BY <1>6 DEF NoFin, Holds
  <1>8. \A j \in Key : ct'[j] = NoEntry => j # k /\ (j \in victims \/ ct[j] = NoEntry)
    BY <1>4, NoEntryAssumption DEF InsertStep, TcpState
  <1>9. OpenIsTracked'
    <2> SUFFICES ASSUME NEW f \in Flow, secure'[f]
                 PROVE  NoFin(f)' /\ \E j \in Key : j[1] = f /\ ct'[j] # NoEntry
      BY DEF OpenIsTracked
    <2>1. \/ secure[f] /\ \A v \in victims : v[1] # f
          \/ f = k[1] /\ ~InHook(f, IsFinOrRst)
      BY <1>4 DEF InsertStep
    <2>2. CASE secure[f] /\ \A v \in victims : v[1] # f
      <3>1. NoFin(f) /\ \E j \in Key : j[1] = f /\ ct[j] # NoEntry
        BY <2>2 DEF OpenInv, OpenIsTracked
      <3> QED
        BY <1>7, <1>8, <2>2, <3>1
    <2>3. CASE f = k[1] /\ ~InHook(f, IsFinOrRst)
      BY <1>7, <1>8, <2>3, InHookFacts
    <2> QED
      BY <2>1, <2>2, <2>3
  <1>10. ASSUME NEW d \in Cpu, armed'[d]
         PROVE  /\ cpu'[d].at \notin {"idle", "untracked", "drop"}
                /\ \A f \in Flow : f = cpu'[d].key[1] => NoFin(f)'
                /\ cpu'[d].at = "lookupRev" => ct'[Rev(cpu'[d].key)] # NoEntry
    <2>1. armed[d] /\ \A v \in victims : v[1] # FlowOf(d)
      BY <1>4, <1>10 DEF InsertStep
    <2>2. /\ cpu[d].at \notin {"idle", "untracked", "drop"}
          /\ \A f \in Flow : f = cpu[d].key[1] => NoFin(f)
          /\ cpu[d].at = "lookupRev" => ct[Rev(cpu[d].key)] # NoEntry
      BY <2>1 DEF OpenInv, ArmedFinds
    <2>3. cpu[d].key \in Key /\ cpu[d].key # NoEntry
      BY <2>2, HoldsFacts
    <2>4. Rev(cpu[d].key) \in Key /\ Rev(cpu[d].key)[1] = FlowOf(d)
      BY <2>3, RevFacts DEF FlowOf
    <2>5. ct[Rev(cpu[d].key)] # NoEntry => ct'[Rev(cpu[d].key)] # NoEntry
      BY <1>8, <2>1, <2>4
    <2>6. cpu'[d].key = cpu[d].key /\ (cpu'[d].at = cpu[d].at \/ cpu'[d].at = l)
      BY <1>6
    <2>7. \A f \in Flow : f = cpu'[d].key[1] => NoFin(f)'
      BY <1>7, <2>2, <2>6
    <2> QED
      BY <2>2, <2>5, <2>6, <2>7
  <1> QED
    BY <1>9, <1>10 DEF OpenInv, ArmedFinds

(***************************************************************************)
(* Every step of the program preserves OpenInv.                            *)
(***************************************************************************)
LEMMA OpenStep == TypeInv /\ OpenInv /\ [Next]_vars => OpenInv'
  <1> SUFFICES ASSUME TypeInv, OpenInv, [Next]_vars PROVE OpenInv'
    OBVIOUS
  <1>1. ASSUME NEW c \in Cpu, Arrive(c) PROVE OpenInv'
    BY <1>1, OpenArrive
  <1>2. ASSUME NEW c \in Cpu, InsertFwd(c) \/ InsertRev(c) PROVE OpenInv'
    BY <1>2, OpenInsert
  <1>3. ASSUME NEW c \in Cpu, LookupRev(c) PROVE OpenInv'
    <2>1. armed[c] => ct[Rev(cpu[c].key)] # NoEntry
      BY <1>3 DEF LookupRev, OpenInv, ArmedFinds
    <2>2. \A d \in Cpu : /\ cpu'[d].key = cpu[d].key /\ cpu'[d].flags = cpu[d].flags
                         /\ d # c => cpu'[d].at = cpu[d].at
      BY <1>3 DEF LookupRev, Goto, TypeInv, TypeOK
    <2>3. cpu'[c].at = "tracked" \/ ~armed[c]
      BY <1>3, <2>1 DEF LookupRev, TypeInv, TypeOK
    <2>4. UNCHANGED <<ct, secure, armed>>
      BY <1>3 DEF LookupRev, history
    <2> QED
      BY <2>2, <2>3, <2>4, OpenFrame
  <1>4. ASSUME NEW c \in Cpu, RejectUntracked(c) PROVE OpenInv'
    <2>1. ~armed[c]
      BY <1>4 DEF RejectUntracked, OpenInv, ArmedFinds
    <2>2. \A d \in Cpu : /\ cpu'[d].key = cpu[d].key /\ cpu'[d].flags = cpu[d].flags
                         /\ d # c => cpu'[d].at = cpu[d].at
      BY <1>4 DEF RejectUntracked, Goto, TypeInv, TypeOK
    <2>3. UNCHANGED <<ct, secure, armed>>
      BY <1>4 DEF RejectUntracked, history
    <2> QED
      BY <2>1, <2>2, <2>3, OpenFrame
  <1>5. ASSUME NEW c \in Cpu, Promote(c) \/ PromoteRev(c) \/ Account(c) PROVE OpenInv'
    <2>1. \A d \in Cpu : /\ cpu'[d].key = cpu[d].key /\ cpu'[d].flags = cpu[d].flags
                         /\ \/ cpu'[d].at = cpu[d].at
                            \/ cpu'[d].at \in {"promoteRev", "account", "pass"}
      BY <1>5 DEF Promote, PromoteRev, Account, Goto, TypeInv, TypeOK
    <2>2. UNCHANGED <<secure, armed>>
      BY <1>5 DEF Promote, PromoteRev, Account, history
    <2>3. \A k \in Key : ct'[k] = NoEntry => ct[k] = NoEntry
      BY <1>5, NoEntryAssumption DEF Promote, PromoteRev, Account, TypeInv, TypeOK, TcpState
    <2> QED
      BY <2>1, <2>2, <2>3, OpenFrame
  <1>6. ASSUME NEW c \in Cpu, DeleteFwd(c) \/ DeleteRev(c) PROVE OpenInv'
    <2>1. /\ cpu[c].key \in Key /\ cpu[c].at \in {"account", "deleteRev"}
          /\ IsFinOrRst(cpu[c].flags)
      BY <1>6 DEF DeleteFwd, DeleteRev, TypeInv, InHand
    <2>2. Rev(cpu[c].key) \in Key /\ Rev(cpu[c].key)[1] = cpu[c].key[1]
      BY <2>1, RevFacts
    <2>3. PICK l \in {"deleteRev", "pass"} : \E ks \in SUBSET Key : GotoFreeing(c, l, ks)
      BY <1>6, <2>1, <2>2 DEF DeleteFwd, DeleteRev
    <2>4. /\ cpu'[c].at = l
          /\ \A d \in Cpu : /\ cpu'[d].key = cpu[d].key /\ cpu'[d].flags = cpu[d].flags
                            /\ d # c => cpu'[d].at = cpu[d].at
      BY <2>1, <2>3, GotoFacts DEF Stage
    <2>5. ~NoFin(cpu[c].key[1])
      BY <2>1, NoEntryAssumption DEF NoFin, Holds
    <2>6. \A k \in Key : ct'[k] = NoEntry => ct[k] = NoEntry \/ k[1] = cpu[c].key[1]
      BY <1>6, <2>1, <2>2 DEF DeleteFwd, DeleteRev, TypeInv, TypeOK
    <2>7. UNCHANGED <<secure, armed>>
      BY <1>6 DEF DeleteFwd, DeleteRev, history
    <2> QED
      BY <2>4, <2>5, <2>6, <2>7, OpenFrame
  <1>7. ASSUME NEW c \in Cpu, Verdict(c) PROVE OpenInv'
    <2>1. /\ cpu'[c].key = NoEntry /\ ~armed'[c]
          /\ \A d \in Cpu : d # c => cpu'[d] = cpu[d] /\ armed'[d] = armed[d]
          /\ UNCHANGED <<ct, secure>>
      BY <1>7 DEF Verdict, IdleCpu, TypeInv, TypeOK
    <2>2. \A f : NoFin(f) => NoFin(f)'
      BY <2>1 DEF NoFin, Holds
    <2>3. OpenIsTracked'
      BY <2>1, <2>2 DEF OpenInv, OpenIsTracked
    <2>4. ASSUME NEW d \in Cpu, armed'[d]
          PROVE  /\ cpu'[d].at \notin {"idle", "untracked", "drop"}
                 /\ \A f \in Flow : f = cpu'[d].key[1] => NoFin(f)'
                 /\ cpu'[d].at = "lookupRev" => ct'[Rev(cpu'[d].key)] # NoEntry
      <3>1. d # c /\ armed[d] /\ cpu'[d] = cpu[d] /\ ct' = ct
        BY <2>1, <2>4
      <3>2. \A f \in Flow : f = cpu[d].key[1] => NoFin(f)'
        BY <2>2, <3>1 DEF OpenInv, ArmedFinds
      <3> QED
        BY <3>1, <3>2 DEF OpenInv, ArmedFinds
    <2> QED
      BY <2>3, <2>4 DEF OpenInv, ArmedFinds
  <1>8. CASE UNCHANGED vars
    BY <1>8 DEF vars, OpenInv, OpenIsTracked, ArmedFinds, NoFin, Holds
  <1> QED
    BY <1>1, <1>2, <1>3, <1>4, <1>5, <1>6, <1>7, <1>8 DEF Next, TcStep

(***************************************************************************)
(* tc_firewall_func drops no segment of an open flow, although its two     *)
(* lookups, the two inserts of an opening and the two deletes of a         *)
(* teardown are not atomic and the map may evict at any insert.            *)
(***************************************************************************)
THEOREM NoSpuriousDropHolds == Spec => []NoSpuriousDrop
  <1>1. Init => TypeInv /\ OpenInv
    <2>1. Init => OpenInv
      BY DEF Init, OpenInv, OpenIsTracked, ArmedFinds
    <2> QED
      BY <2>1, TypeInit
  <1>2. TypeInv /\ OpenInv /\ [Next]_vars => (TypeInv /\ OpenInv)'
    BY TypeStep, OpenStep
  <1>3. OpenInv => NoSpuriousDrop
    BY DEF OpenInv, ArmedFinds, NoSpuriousDrop
  <1> QED
    BY <1>1, <1>2, <1>3, PTL DEF Spec
=============================================================================
