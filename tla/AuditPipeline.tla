---------------------------- MODULE AuditPipeline ----------------------------
(***************************************************************************)
(* The way of a verdict from the kernel to the operator: the XDP and       *)
(* TC programs each reserve, fill and submit a record in their own ring    *)
(* buffer (bpf/xdp_firewall.c, bpf/tc_firewall.c), the agent's reader      *)
(* goroutine takes records from the ring of the XDP objects and decodes    *)
(* them (FirewallLoader.ReadRingbuf, pkg/bpf/loader.go), and the handler   *)
(* adds them to the bounded AuditStore (pkg/observability/audit.go).       *)
(***************************************************************************)
EXTENDS Naturals, Sequences, SequencesExt

CONSTANTS
    Cpu,
    RingSize,   \* records an audit_ringbuf holds
    Capacity,   \* capacity of the AuditStore (1000 in the agent)
    Word,       \* values of a 32-bit word of the record
    MaxVerdicts, \* bound: verdicts that are reported
    Nothing

ASSUME SizeAssumption == RingSize \in Nat \ {0} /\ Capacity \in Nat \ {0}

ASSUME WordAssumption == 0 \in Word /\ MaxVerdicts \in Nat

VARIABLES
    verdicts,   \* reportable verdicts so far; the n-th has id n
    cpu,        \* the record a CPU has reserved and not yet submitted
    ring,       \* the two rings, oldest record first
    reader,     \* the ReadRingbuf goroutine
    ctx,        \* the agent's context
    closed,     \* ringReader has been closed
    store,      \* AuditStore.events
    reserved,   \* history: per ring, the verdicts that got a record, in that order
    handled     \* history: how many records the handler has received

vars == <<verdicts, cpu, ring, reader, ctx, closed, store, reserved, handled>>

Hook == {"xdp", "tc"}

(***************************************************************************)
(* What an event says, struct audit_event, and what a reader of it is told. *)
(* `id' stands for the fields up to rule_id, which have the same place in  *)
(* both layouts; a cgroup id is its low and its high word.                 *)
(***************************************************************************)
Event == [id : 1..MaxVerdicts, cgroup : Word \X Word, identity : Word]

(***************************************************************************)
(* The record as memory.  The compiler aligns the 64-bit cgroup_id, so the *)
(* word after rule_id (w7) is a hole, and the programs assign the fields   *)
(* one by one: the hole keeps whatever the ring's memory held before.      *)
(***************************************************************************)
Record == [id : 1..MaxVerdicts, w7 : Word, w8 : Word, w9 : Word, w10 : Word]

Encode(e, hole) ==
    [id |-> e.id, w7 |-> hole, w8 |-> e.cgroup[1], w9 |-> e.cgroup[2],
     w10 |-> e.identity]

(***************************************************************************)
(* binary.Read into the Go AuditEvent, which has no hole: the id is what   *)
(* was written, cgroup and identity are words that belong elsewhere.       *)
(***************************************************************************)
Decode(r) == [id |-> r.id, cgroup |-> <<r.w7, r.w8>>, identity |-> r.w9]

Slot == [event : Event, record : Record \cup {Nothing}]

IdleCpu == [hook |-> Nothing, id |-> Nothing]

Reading == [at |-> "read", slot |-> Nothing]

TypeOK ==
    /\ verdicts \in 0..MaxVerdicts
    /\ cpu \in [Cpu -> [hook : Hook \cup {Nothing}, id : (1..MaxVerdicts) \cup {Nothing}]]
    /\ \A h \in Hook :
          /\ Len(ring[h]) \in 0..RingSize
          /\ \A i \in DOMAIN ring[h] : ring[h][i] \in Slot
    /\ reader \in [at : {"read", "handle", "stopped"}, slot : Slot \cup {Nothing}]
    /\ ctx \in {"live", "cancelled"}
    /\ closed \in BOOLEAN
    /\ Len(store) \in 0..Capacity
    /\ \A i \in DOMAIN store : store[i] \in Event
    /\ \A h \in Hook : Len(reserved[h]) \in 0..verdicts
    /\ handled \in 0..verdicts

Init ==
    /\ verdicts = 0
    /\ cpu = [c \in Cpu |-> IdleCpu]
    /\ ring = [h \in Hook |-> <<>>]
    /\ reader = Reading
    /\ ctx = "live"
    /\ closed = FALSE
    /\ store = <<>>
    /\ reserved = [h \in Hook |-> <<>>]
    /\ handled = 0

(***************************************************************************)
(* A program decides a packet and bpf_ringbuf_reserve gives it a record at *)
(* the end of its ring.  The event's contents are known here; the record   *)
(* stays busy until it is submitted.                                       *)
(***************************************************************************)
Reserve(c, h, e) ==
    /\ cpu[c] = IdleCpu
    /\ e.id = verdicts + 1
    /\ Len(ring[h]) < RingSize
    /\ verdicts' = verdicts + 1
    /\ ring' = [ring EXCEPT ![h] = Append(@, [event |-> e, record |-> Nothing])]
    /\ cpu' = [cpu EXCEPT ![c] = [hook |-> h, id |-> e.id]]
    /\ reserved' = [reserved EXCEPT ![h] = Append(@, e.id)]
    /\ UNCHANGED <<reader, ctx, closed, store, handled>>

(***************************************************************************)
(* The ring is full: bpf_ringbuf_reserve returns NULL, the verdict stands  *)
(* all the same and nothing records that its event is missing.             *)
(***************************************************************************)
ReserveFails(c, h) ==
    /\ cpu[c] = IdleCpu
    /\ verdicts < MaxVerdicts
    /\ Len(ring[h]) = RingSize
    /\ verdicts' = verdicts + 1
    /\ UNCHANGED <<cpu, ring, reader, ctx, closed, store, reserved, handled>>

(***************************************************************************)
(* The verdicts xdp_firewall_func reports: drops by identity, CIDR and     *)
(* port rules, passes by a port rule.  Only an identity rule, looked up    *)
(* for a nonzero cgroup id, sets identity_id.                              *)
(***************************************************************************)
XdpVerdict(c) ==
    \/ \E cg \in Word \X Word, ident \in Word :
          /\ verdicts < MaxVerdicts
          /\ ident # 0 => cg # <<0, 0>>
          /\ Reserve(c, "xdp", [id |-> verdicts + 1, cgroup |-> cg, identity |-> ident])
    \/ ReserveFails(c, "xdp")

(***************************************************************************)
(* The drop of tc_firewall_func: an untracked segment that is no SYN.      *)
(***************************************************************************)
TcDrop(c) ==
    \/ \E cg \in Word \X Word :
          /\ verdicts < MaxVerdicts
          /\ Reserve(c, "tc", [id |-> verdicts + 1, cgroup |-> cg, identity |-> 0])
    \/ ReserveFails(c, "tc")

(***************************************************************************)
(* The fields are filled in and the record is submitted.                   *)
(***************************************************************************)
Fill(slot, hole) == [slot EXCEPT !.record = Encode(slot.event, hole)]

Submit_Forgotten(c) ==
    /\ cpu[c].id # Nothing
    /\ cpu' = [cpu EXCEPT ![c] = IdleCpu]
    /\ UNCHANGED <<verdicts, ring, reader, ctx, closed, store, reserved, handled>>

Submit(c) ==
    /\ cpu[c].id # Nothing
    /\ LET h == cpu[c].hook IN
       \E i \in DOMAIN ring[h], hole \in Word :
          /\ ring[h][i].event.id = cpu[c].id
          /\ ring' = [ring EXCEPT ![h][i] = Fill(@, hole)]
    /\ cpu' = [cpu EXCEPT ![c] = IdleCpu]
    /\ UNCHANGED <<verdicts, reader, ctx, closed, store, reserved, handled>>

(***************************************************************************)
(* ringReader.Read: the oldest record, if it has been submitted (a busy    *)
(* record makes the reader wait even if later ones are ready).  Its place  *)
(* in the ring is free again.  Once the reader is closed, Read fails with  *)
(* ErrClosed and ReadRingbuf returns.  It returns as well when Read fails  *)
(* for another reason; main logs that error and starts no other reader.    *)
(***************************************************************************)
Read_AnySubmitted ==
    /\ reader.at = "read"
    /\ ~closed
    /\ \E i \in DOMAIN ring["xdp"] :
          /\ ring["xdp"][i].record # Nothing
          /\ reader' = [at |-> "handle", slot |-> ring["xdp"][i]]
          /\ ring' = [ring EXCEPT !["xdp"] = RemoveAt(@, i)]
    /\ UNCHANGED <<verdicts, cpu, ctx, closed, store, reserved, handled>>

Read ==
    /\ reader.at = "read"
    /\ ~closed
    /\ ring["xdp"] # <<>>
    /\ Head(ring["xdp"]).record # Nothing
    /\ reader' = [at |-> "handle", slot |-> Head(ring["xdp"])]
    /\ ring' = [ring EXCEPT !["xdp"] = Tail(@)]
    /\ UNCHANGED <<verdicts, cpu, ctx, closed, store, reserved, handled>>

ReadClosed_Retries ==
    /\ reader.at = "read"
    /\ closed
    /\ UNCHANGED vars

ReadClosed ==
    /\ reader.at = "read"
    /\ closed
    /\ reader' = [Reading EXCEPT !.at = "stopped"]
    /\ UNCHANGED <<verdicts, cpu, ring, ctx, closed, store, reserved, handled>>

ReadFails ==
    /\ reader.at = "read"
    /\ ~closed
    /\ reader' = [Reading EXCEPT !.at = "stopped"]
    /\ UNCHANGED <<verdicts, cpu, ring, ctx, closed, store, reserved, handled>>

(***************************************************************************)
(* AuditStore.Add: at capacity the oldest event makes room.                *)
(***************************************************************************)
Add_OneTooMany(events, e) ==
    Append(IF Len(events) > Capacity THEN Tail(events) ELSE events, e)

Add(events, e) ==
    Append(IF Len(events) >= Capacity THEN Tail(events) ELSE events, e)

(***************************************************************************)
(* The rest of the reader's loop: decode the record and call the handler.  *)
(* A record is longer than the Go struct, so decoding never fails.         *)
(***************************************************************************)
Handle ==
    /\ reader.at = "handle"
    /\ store' = Add(store, Decode(reader.slot.record))
    /\ handled' = handled + 1
    /\ reader' = Reading
    /\ UNCHANGED <<verdicts, cpu, ring, ctx, closed, reserved>>

(***************************************************************************)
(* Shutdown: main calls cancel, and the goroutine that ReadRingbuf started *)
(* closes the reader (loader.Close, deferred in main, does so too).        *)
(***************************************************************************)
Cancel ==
    /\ ctx = "live"
    /\ ctx' = "cancelled"
    /\ UNCHANGED <<verdicts, cpu, ring, reader, closed, store, reserved, handled>>

CloseReader ==
    /\ ctx = "cancelled"
    /\ ~closed
    /\ closed' = TRUE
    /\ UNCHANGED <<verdicts, cpu, ring, reader, ctx, store, reserved, handled>>

KernelStep == \E c \in Cpu : XdpVerdict(c) \/ TcDrop(c) \/ Submit(c)

Next == KernelStep \/ Read \/ ReadClosed \/ ReadFails \/ Handle \/ Cancel \/ CloseReader

Spec == Init /\ [][Next]_vars

(***************************************************************************)
(* A BPF program runs to its end, and the Go scheduler runs a goroutine    *)
(* that is ready.  Nothing makes packets arrive, Read fail or the operator *)
(* stop.                                                                   *)
(***************************************************************************)
Fairness ==
    /\ \A c \in Cpu : WF_vars(Submit(c))
    /\ WF_vars(Read \/ ReadClosed \/ Handle)
    /\ WF_vars(CloseReader)

FairSpec == Spec /\ Fairness
-----------------------------------------------------------------------------
Ids(events) == [i \in DOMAIN events |-> events[i].id]

(***************************************************************************)
(* However the CPUs' reservations and submissions interleave with the      *)
(* reader, the store is the most recent Capacity of the delivered events,  *)
(* in the order the XDP program reserved their records: nothing skipped,   *)
(* repeated or overtaken (the busy-record rule of the ring, the reader's   *)
(* loop and AuditStore.Add together).                                      *)
(***************************************************************************)
StoreIsRecent ==
    Ids(store) =
        SubSeq(reserved["xdp"],
               IF handled > Capacity THEN handled - Capacity + 1 ELSE 1, handled)

Delivered(h) == IF h = "xdp" THEN handled ELSE 0

Explained(h) == []<>(Delivered(h) = Len(reserved[h]) \/ reader.at = "stopped")

(***************************************************************************)
(* Every XDP verdict that got a record is handed to the AuditStore, unless *)
(* the reader ends first: while ReadRingbuf runs, the store catches up     *)
(* with the records reserved so far, again and again.  The reader ends     *)
(* with the agent and, for good, at the first read error (loader.go:476).  *)
(***************************************************************************)
XdpVerdictsExplained == Explained("xdp")

(***************************************************************************)
(* After cancel, the reader goroutine ends, with the ring full or empty,   *)
(* and while records are still busy.                                       *)
(***************************************************************************)
ReaderStops == ctx = "cancelled" ~> reader.at = "stopped"

(***************************************************************************)
(* The README promises "explainability for every packet drop".  The drops   *)
(* of the TC program included: their records too are handed to the store   *)
(* while the reader runs.  None is attached to the ring of the TC objects. *)
(***************************************************************************)
EveryVerdictExplained == \A h \in Hook : Explained(h)
=============================================================================
