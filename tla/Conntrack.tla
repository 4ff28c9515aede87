------------------------------ MODULE Conntrack ------------------------------
(***************************************************************************)
(* TCP connection tracking: tc_firewall_func (bpf/tc_firewall.c) run by    *)
(* several CPUs on the shared conntrack_map, an LRU hash that evicts when  *)
(* it is full.  At the end, how its entries are named by a userspace       *)
(* reader of the map, Table.SyncFromKernel (pkg/conntrack/table.go).       *)
(***************************************************************************)
EXTENDS Naturals, FiniteSets

CONSTANTS
    Flow,       \* TCP connections, by 5-tuple up to direction
    Cpu,
    MaxFlows,   \* max_entries of conntrack_map (65536)
    MaxSegs,    \* bound: TCP segments that arrive
    NoEntry

ASSUME BoundAssumption == MaxFlows \in Nat /\ MaxFlows >= 2 /\ MaxSegs \in Nat

VARIABLES
    ct,         \* conntrack_map: the TCP state of each entry
    cpu,        \* what each CPU's run of tc_firewall_func has reached
    segs,       \* segments so far
    credit,     \* history, see NoGhostFlow
    overlap,    \* history, see NoGhostFlow
    secure,     \* history, see NoSpuriousDrop
    armed       \* history, see NoSpuriousDrop

history == <<credit, overlap, secure, armed>>
vars == <<ct, cpu, segs, credit, overlap, secure, armed>>

Key == Flow \X {"out", "back"}

Rev(k) == <<k[1], IF k[2] = "out" THEN "back" ELSE "out">>

TcpState == {"SYN_SENT", "ESTABLISHED"}

ASSUME NoEntryAssumption == NoEntry \notin Key /\ NoEntry \notin Flow /\ NoEntry \notin TcpState

(***************************************************************************)
(* The flag combinations of an orderly or aborted connection.  RST with    *)
(* ACK takes the path of FIN with ACK, a segment without flags that of an  *)
(* ACK which finds nothing to promote; SYN with FIN, which would be        *)
(* inserted as a SYN when untracked and delete when tracked, is left out.  *)
(***************************************************************************)
Flags == {{"SYN"}, {"SYN", "ACK"}, {"ACK"}, {"FIN", "ACK"}, {"RST"}}

IsSyn(fl) == "SYN" \in fl /\ "ACK" \notin fl

IsFinOrRst(fl) == "FIN" \in fl \/ "RST" \in fl

Stage == {"idle", "lookupRev", "untracked", "insertRev", "tracked",
          "promoteRev", "account", "deleteRev", "pass", "drop"}

IdleCpu == [at |-> "idle", key |-> NoEntry, flags |-> {}, ptr |-> NoEntry]

TypeOK ==
    /\ ct \in [Key -> TcpState \cup {NoEntry}]
    /\ cpu \in [Cpu -> [at : Stage, key : Key \cup {NoEntry}, flags : Flags \cup {{}},
                        ptr : Key \cup {NoEntry}]]
    /\ segs \in 0..MaxSegs
    /\ credit \in [Flow -> BOOLEAN]
    /\ overlap \in [Cpu -> BOOLEAN]
    /\ secure \in [Flow -> BOOLEAN]
    /\ armed \in [Cpu -> BOOLEAN]

Init ==
    /\ ct = [k \in Key |-> NoEntry]
    /\ cpu = [c \in Cpu |-> IdleCpu]
    /\ segs = 0
    /\ credit = [f \in Flow |-> FALSE]
    /\ overlap = [c \in Cpu |-> FALSE]
    /\ secure = [f \in Flow |-> FALSE]
    /\ armed = [c \in Cpu |-> FALSE]

-----------------------------------------------------------------------------
Tracked == {k \in Key : ct[k] # NoEntry}

FlowOf(c) == IF cpu[c].key = NoEntry THEN NoEntry ELSE cpu[c].key[1]

Busy(c, f) == FlowOf(c) = f

InHook(f, P(_)) == \E d \in Cpu : Busy(d, f) /\ P(cpu[d].flags)

Goto(c, l) == cpu' = [cpu EXCEPT ![c].at = l]

(***************************************************************************)
(* CPU c goes on to l after the entries of keys ks were freed or replaced. *)
(* Other CPUs may still point to the old flow_state: what they store there *)
(* no longer reaches these entries.  (The element may have been given to   *)
(* another flow, whose state and counters the late store then changes;     *)
(* which entries there are, which is all that verdicts and the properties  *)
(* below depend on, it does not change.)                                   *)
(***************************************************************************)
GotoFreeing(c, l, ks) ==
    cpu' = [d \in Cpu |->
               IF d = c THEN [cpu[d] EXCEPT !.at = l]
               ELSE IF cpu[d].ptr \in ks THEN [cpu[d] EXCEPT !.ptr = NoEntry]
               ELSE cpu[d]]

(***************************************************************************)
(* A TCP segment arrives; lookup of key_fwd.                               *)
(***************************************************************************)
Arrive(c) ==
    /\ cpu[c].at = "idle"
    /\ segs < MaxSegs
    /\ \E k \in Key, fl \in Flags :
          /\ cpu' = [cpu EXCEPT ![c] =
                        [at |-> IF ct[k] # NoEntry THEN "tracked" ELSE "lookupRev",
                         key |-> k, flags |-> fl,
                         ptr |-> IF ct[k] # NoEntry THEN k ELSE NoEntry]]
          /\ credit' = [credit EXCEPT ![k[1]] = @ \/ IsSyn(fl)]
          /\ overlap' = [d \in Cpu |->
                            IF d = c THEN InHook(k[1], IsSyn)
                            ELSE overlap[d] \/ (Busy(d, k[1]) /\ IsSyn(fl))]
          /\ secure' = [secure EXCEPT ![k[1]] = @ /\ ~IsFinOrRst(fl)]
          /\ armed' = [d \in Cpu |->
                            IF d = c THEN secure[k[1]] /\ ~IsFinOrRst(fl)
                            ELSE armed[d] /\ ~(Busy(d, k[1]) /\ IsFinOrRst(fl))]
    /\ segs' = segs + 1
    /\ UNCHANGED ct

LookupRev_Skipped(c) ==
    /\ cpu[c].at = "lookupRev"
    /\ Goto(c, "untracked")
    /\ UNCHANGED <<ct, segs, history>>

(***************************************************************************)
(* No entry under key_fwd: lookup of key_rev.                              *)
(***************************************************************************)
LookupRev(c) ==
    /\ cpu[c].at = "lookupRev"
    /\ LET k == Rev(cpu[c].key) IN
       IF ct[k] # NoEntry
       THEN cpu' = [cpu EXCEPT ![c].at = "tracked", ![c].ptr = k]
       ELSE Goto(c, "untracked")
    /\ UNCHANGED <<ct, segs, history>>

(***************************************************************************)
(* bpf_map_update_elem(BPF_ANY) of a new flow_state under k.  The LRU hash *)
(* frees an entry of its choice when it is full.  The second insert opens  *)
(* the flow: unless a FIN or RST of it is still in the hook, its segments  *)
(* will be found.  The program ignores the result of the call, which is    *)
(* assumed to succeed: it fails only when the LRU list yields no element.  *)
(***************************************************************************)
Victims(k) ==
    IF k \notin Tracked /\ Cardinality(Tracked) >= MaxFlows
    THEN {{v} : v \in Tracked} ELSE {{}}

Insert(c, k, l) ==
    /\ \E victims \in Victims(k) :
          /\ ct' = [j \in Key |-> IF j = k THEN "SYN_SENT"
                                  ELSE IF j \in victims THEN NoEntry ELSE ct[j]]
          /\ GotoFreeing(c, l, victims \cup {k})
          /\ LET lost == {v[1] : v \in victims} IN
             /\ secure' = [f \in Flow |->
                              \/ secure[f] /\ f \notin lost
                              \/ l = "pass" /\ f = k[1] /\ ~InHook(f, IsFinOrRst)]
             /\ armed' = [d \in Cpu |-> armed[d] /\ FlowOf(d) \notin lost]
    /\ UNCHANGED <<segs, credit, overlap>>

InsertFwd(c) ==
    /\ cpu[c].at = "untracked"
    /\ IsSyn(cpu[c].flags)
    /\ Insert(c, cpu[c].key, "insertRev")

InsertRev(c) ==
    /\ cpu[c].at = "insertRev"
    /\ Insert(c, Rev(cpu[c].key), "pass")

(***************************************************************************)
(* REJECT: untracked non-SYN packet.                                       *)
(***************************************************************************)
RejectUntracked(c) ==
    /\ cpu[c].at = "untracked"
    /\ ~IsSyn(cpu[c].flags)
    /\ Goto(c, "drop")
    /\ UNCHANGED <<ct, segs, history>>

(***************************************************************************)
(* Tracked: an ACK promotes a SYN_SENT flow_state through the pointer.  If *)
(* the entry was freed meanwhile, the state read is whatever it was.       *)
(***************************************************************************)
Promote(c) ==
    /\ cpu[c].at = "tracked"
    /\ LET k == cpu[c].ptr
           ack == "ACK" \in cpu[c].flags
       IN  \/ /\ ack
              /\ k # NoEntry => ct[k] = "SYN_SENT"
              /\ ct' = IF k = NoEntry THEN ct ELSE [ct EXCEPT ![k] = "ESTABLISHED"]
              /\ Goto(c, "promoteRev")
           \/ /\ k # NoEntry => ~ack \/ ct[k] # "SYN_SENT"
              /\ Goto(c, "account")
              /\ UNCHANGED ct
    /\ UNCHANGED <<segs, history>>

PromoteRev_SynRecv(c) ==
    /\ cpu[c].at = "promoteRev"
    /\ LET k == Rev(cpu[c].key) IN
       ct' = IF ct[k] = NoEntry THEN ct ELSE [ct EXCEPT ![k] = "SYN_RECV"]
    /\ Goto(c, "account")
    /\ UNCHANGED <<segs, history>>

(***************************************************************************)
(* rev_state is looked up again and promoted as well.                      *)
(***************************************************************************)
PromoteRev(c) ==
    /\ cpu[c].at = "promoteRev"
    /\ LET k == Rev(cpu[c].key) IN
       ct' = IF ct[k] = NoEntry THEN ct ELSE [ct EXCEPT ![k] = "ESTABLISHED"]
    /\ Goto(c, "account")
    /\ UNCHANGED <<segs, history>>

(***************************************************************************)
(* A FIN or RST deletes key_fwd, then key_rev; any other segment only      *)
(* updates counters of its flow_state.                                     *)
(***************************************************************************)
Account(c) ==
    /\ cpu[c].at = "account"
    /\ ~IsFinOrRst(cpu[c].flags)
    /\ Goto(c, "pass")
    /\ UNCHANGED <<ct, segs, history>>

DeleteFwd(c) ==
    /\ cpu[c].at = "account"
    /\ IsFinOrRst(cpu[c].flags)
    /\ ct' = [ct EXCEPT ![cpu[c].key] = NoEntry]
    /\ GotoFreeing(c, "deleteRev", {cpu[c].key})
    /\ UNCHANGED <<segs, history>>

DeleteRev_Skipped(c) ==
    /\ cpu[c].at = "deleteRev"
    /\ credit' = [credit EXCEPT ![FlowOf(c)] = @ /\ overlap[c]]
    /\ Goto(c, "pass")
    /\ UNCHANGED <<ct, segs, overlap, secure, armed>>

DeleteRev(c) ==
    /\ cpu[c].at = "deleteRev"
    /\ ct' = [ct EXCEPT ![Rev(cpu[c].key)] = NoEntry]
    /\ credit' = [credit EXCEPT ![FlowOf(c)] = @ /\ overlap[c]]
    /\ GotoFreeing(c, "pass", {Rev(cpu[c].key)})
    /\ UNCHANGED <<segs, overlap, secure, armed>>

Verdict(c) ==
    /\ cpu[c].at \in {"pass", "drop"}
    /\ cpu' = [cpu EXCEPT ![c] = IdleCpu]
    /\ overlap' = [overlap EXCEPT ![c] = FALSE]
    /\ armed' = [armed EXCEPT ![c] = FALSE]
    /\ UNCHANGED <<ct, segs, credit, secure>>

TcStep(c) ==
    \/ Arrive(c) \/ LookupRev(c) \/ InsertFwd(c) \/ InsertRev(c) \/ RejectUntracked(c)
    \/ Promote(c) \/ PromoteRev(c) \/ Account(c) \/ DeleteFwd(c) \/ DeleteRev(c)
    \/ Verdict(c)

Next == \E c \in Cpu : TcStep(c)

Spec == Init /\ [][Next]_vars

-----------------------------------------------------------------------------
(***************************************************************************)
(* The numbers of state_machine.h, and the strings the mirror makes of     *)
(* them.  MirrorLabel_ServerCodes is the numbering get_status and          *)
(* dump_maps decode the same states with (server.go:263-266, 310-313).     *)
(***************************************************************************)
KernelCode(s) == IF s = "SYN_SENT" THEN 1 ELSE 3

MirrorLabel_ServerCodes(n) ==
    IF n = 2 THEN "ESTABLISHED" ELSE IF n = 3 THEN "CLOSED" ELSE "SYN_SENT"

MirrorLabel(n) ==
    IF n = 3 THEN "ESTABLISHED" ELSE IF n = 5 THEN "CLOSED" ELSE "SYN_SENT"

-----------------------------------------------------------------------------
(***************************************************************************)
(* "FIN / RST packet tears down flow and evicts map entry" and "First SYN  *)
(* packet creates forward and reverse flow entries" (README.md): an entry, *)
(* by which non-SYN segments pass, is there only if a SYN of the flow came *)
(* and no teardown ran entirely after it.  credit[f] is set by a SYN and   *)
(* cleared when a teardown ends with which no SYN of f overlapped.         *)
(***************************************************************************)
NoGhostFlow == \A k \in Key : ct[k] # NoEntry => credit[k[1]]

(***************************************************************************)
(* A segment is not dropped while its flow is open: opened by a SYN whose  *)
(* processing ended, with no FIN or RST of it in the hook and no eviction  *)
(* of its entries since.  The two lookups are not atomic, and inserts and  *)
(* deletes of the two entries are not either.                              *)
(***************************************************************************)
NoSpuriousDrop == \A c \in Cpu : cpu[c].at = "drop" => ~armed[c]

(***************************************************************************)
(* The agent's log names the state the kernel map holds, in every state    *)
(* an entry can be in (table.go against state_machine.h).                  *)
(***************************************************************************)
MirrorNamesState ==
    \A k \in Key : ct[k] # NoEntry => MirrorLabel(KernelCode(ct[k])) = ct[k]
==============================================================================
