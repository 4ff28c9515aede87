------------------------ MODULE AuditPipelineProofs ------------------------
(***************************************************************************)
(* Proofs about AuditPipeline for every number of CPUs and verdicts, every *)
(* size of the rings and every capacity of the store.                      *)
(***************************************************************************)
EXTENDS AuditPipeline, TLAPS

(***************************************************************************)
(* TypeOK with rings, store and histories as sequences, and with what a    *)
(* CPU and the reader have in hand.                                        *)
(***************************************************************************)
Reserving == [hook : Hook, id : 1..MaxVerdicts]

PipeTypes ==
    /\ verdicts \in 0..MaxVerdicts
    /\ cpu \in [Cpu -> Reserving \cup {IdleCpu}]
    /\ ring \in [Hook -> Seq(Slot)]
    /\ \A h \in Hook : Len(ring[h]) <= RingSize
    /\ reader \in [at : {"read", "handle", "stopped"}, slot : Slot \cup {Nothing}]
    /\ reader.at = "handle" => reader.slot \in Slot /\ reader.slot.record \in Record
    /\ ctx \in {"live", "cancelled"}
    /\ closed \in BOOLEAN
    /\ store \in Seq(Event)
    /\ reserved \in [Hook -> Seq(1..MaxVerdicts)]
    /\ \A h \in Hook : Len(reserved[h]) <= verdicts
    /\ handled \in Nat

-----------------------------------------------------------------------------
(***************************************************************************)
(* Lemmas about sequences: v is a history of which r is the part still in  *)
(* a queue, after the first n.                                             *)
(***************************************************************************)
QueueOf(r, v, n) ==
    /\ Len(v) = n + Len(r)
    /\ \A i \in 1..Len(r) : r[i].event.id = v[n + i]

(***************************************************************************)
(* Reserving a record appends to the ring what is appended to the history. *)
(***************************************************************************)
LEMMA QueueAppend ==
    ASSUME NEW S, NEW T, NEW r \in Seq(S), NEW v \in Seq(T), NEW n \in Nat,
           QueueOf(r, v, n), NEW x \in S, NEW y \in T, x.event.id = y
    PROVE  QueueOf(Append(r, x), Append(v, y), n)
  BY DEF QueueOf

(***************************************************************************)
(* Reading the oldest record of a ring takes the next identifier of the    *)
(* reservation order and leaves the rest queued.                           *)
(***************************************************************************)
LEMMA QueueTail ==
    ASSUME NEW S, NEW T, NEW r \in Seq(S), NEW v \in Seq(T), NEW n \in Nat,
           QueueOf(r, v, n), r # <<>>
    PROVE  /\ QueueOf(Tail(r), v, n + 1)
           /\ Head(r).event.id = v[n + 1]
           /\ n + 1 \in 1..Len(v)
  <1>1. Len(r) \in Nat \ {0} /\ Head(r) = r[1] /\ Len(Tail(r)) = Len(r) - 1
        /\ \A i \in 1..(Len(r) - 1) : Tail(r)[i] = r[i + 1]
    OBVIOUS
  <1> QED
    BY <1>1 DEF QueueOf

(***************************************************************************)
(* A history that grows keeps the entries it had.                          *)
(***************************************************************************)
LEMMA AppendKeeps ==
    ASSUME NEW T, NEW v \in Seq(T), NEW y \in T, NEW i \in 1..Len(v)
    PROVE  Append(v, y)[i] = v[i]
  OBVIOUS

(***************************************************************************)
(* AuditStore.Add keeps the last Capacity of what it was given: st has the *)
(* last of the first n entries of v, and e is the next one.                *)
(***************************************************************************)
LastOf(st, v, n) ==
    /\ n <= Len(v)
    /\ Len(st) = IF n > Capacity THEN Capacity ELSE n
    /\ \A i \in 1..Len(st) : st[i].id = v[n - Len(st) + i]

(***************************************************************************)
(* A longer history does not change what was last of its first n entries.  *)
(***************************************************************************)
LEMMA LastAppend ==
    ASSUME NEW T, NEW st \in Seq(Event), NEW v \in Seq(T), NEW y \in T, NEW n \in Nat,
           LastOf(st, v, n)
    PROVE  LastOf(st, Append(v, y), n)
  <1>1. Len(st) \in Nat /\ Len(st) <= n /\ n <= Len(v) /\ Len(Append(v, y)) = Len(v) + 1
    BY SizeAssumption DEF LastOf
  <1>2. \A i \in 1..Len(st) : n - Len(st) + i \in 1..Len(v)
    BY <1>1
  <1>3. \A i \in 1..Len(st) : Append(v, y)[n - Len(st) + i] = v[n - Len(st) + i]
    BY <1>2, AppendKeeps
  <1> QED
    BY <1>1, <1>3 DEF LastOf

(***************************************************************************)
(* AuditStore.Add keeps the store the last events read: at capacity it     *)
(* gives up exactly the oldest one.                                        *)
(***************************************************************************)
LEMMA LastAdd ==
    ASSUME NEW T, NEW st \in Seq(Event), NEW v \in Seq(T), NEW n \in Nat, n + 1 <= Len(v),
           LastOf(st, v, n), NEW e \in Event, e.id = v[n + 1]
    PROVE  Add(st, e) \in Seq(Event) /\ LastOf(Add(st, e), v, n + 1)
  <1>1. Len(st) \in Nat /\ Len(st) <= n /\ Capacity \in Nat \ {0}
    BY SizeAssumption DEF LastOf
  <1>2. CASE Len(st) >= Capacity
    <2>1. st # <<>> /\ Len(st) = Capacity /\ n >= Capacity
      BY <1>1, <1>2 DEF LastOf
    <2>2. /\ Tail(st) \in Seq(Event) /\ Len(Tail(st)) = Len(st) - 1
          /\ \A i \in 1..(Len(st) - 1) : Tail(st)[i] = st[i + 1]
      BY <2>1
    <2>3. /\ Append(Tail(st), e) \in Seq(Event) /\ Len(Append(Tail(st), e)) = Len(st)
          /\ \A i \in 1..(Len(st) - 1) : Append(Tail(st), e)[i] = st[i + 1]
          /\ Append(Tail(st), e)[Len(st)] = e
      BY <1>1, <2>1, <2>2
    <2>4. \A i \in 1..Len(st) : Append(Tail(st), e)[i].id = v[n + 1 - Len(st) + i]
      <3> SUFFICES ASSUME NEW i \in 1..Len(st)
                   PROVE  Append(Tail(st), e)[i].id = v[n + 1 - Len(st) + i]
        OBVIOUS
      <3>1. CASE i = Len(st)
        BY <1>1, <2>3, <3>1
      <3>2. CASE i # Len(st)
        <4>1. i + 1 \in 1..Len(st) /\ i \in 1..(Len(st) - 1)
          BY <1>1, <3>2
        <4>2. st[i + 1].id = v[n - Len(st) + (i + 1)]
          BY <4>1 DEF LastOf
        <4>3. n - Len(st) + (i + 1) = n + 1 - Len(st) + i
          BY <1>1
        <4> QED
          BY <2>3, <4>1, <4>2, <4>3
      <3> QED
        BY <3>1, <3>2
    <2>5. Add(st, e) = Append(Tail(st), e)
      BY <1>2 DEF Add
    <2> QED
      BY <1>1, <2>1, <2>3, <2>4, <2>5 DEF LastOf
  <1>3. CASE Len(st) < Capacity
    <2>1. Len(st) = n /\ n < Capacity
      BY <1>1, <1>3 DEF LastOf
    <2>2. Add(st, e) = Append(st, e)
      BY <1>1, <1>3 DEF Add
    <2>3. /\ Append(st, e) \in Seq(Event) /\ Len(Append(st, e)) = n + 1
          /\ \A i \in 1..n : Append(st, e)[i] = st[i]
          /\ Append(st, e)[n + 1] = e
      BY <2>1
    <2>4. \A i \in 1..n : st[i].id = v[i]
      BY <2>1 DEF LastOf
    <2>5. \A i \in 1..(n + 1) : Append(st, e)[i].id = v[i]
      BY <2>3, <2>4
    <2> QED
      BY <1>1, <2>1, <2>2, <2>3, <2>5 DEF LastOf
  <1> QED
    BY <1>1, <1>2, <1>3

-----------------------------------------------------------------------------
(***************************************************************************)
(* Where the verdicts of the XDP program are: the handled ones come first  *)
(* in reserved["xdp"], then the one the reader holds, then those in the    *)
(* ring, in order; a submitted record carries the id of its event; and     *)
(* the store has the last of the handled ones.                             *)
(***************************************************************************)
InHand == IF reader.at = "handle" THEN 1 ELSE 0

RingOrder == QueueOf(ring["xdp"], reserved["xdp"], handled + InHand)

RecordIds ==
    /\ \A i \in 1..Len(ring["xdp"]) :
          ring["xdp"][i].record # Nothing => ring["xdp"][i].record.id = ring["xdp"][i].event.id
    /\ reader.at = "handle" =>
          /\ handled + 1 \in 1..Len(reserved["xdp"])
          /\ reader.slot.record.id = reserved["xdp"][handled + 1]

StoreOrder == LastOf(store, reserved["xdp"], handled)

PipeInv == PipeTypes /\ RingOrder /\ RecordIds /\ StoreOrder

(***************************************************************************)
(* What the invariant says of the types of the sequences it relates.       *)
(***************************************************************************)
LEMMA PipeFacts ==
    ASSUME PipeTypes
    PROVE  /\ ring["xdp"] \in Seq(Slot)
           /\ reserved["xdp"] \in Seq(1..MaxVerdicts)
           /\ store \in Seq(Event)
           /\ handled \in Nat /\ InHand \in Nat /\ handled + InHand \in Nat
  <1>1. ring["xdp"] \in Seq(Slot) /\ reserved["xdp"] \in Seq(1..MaxVerdicts)
    BY DEF PipeTypes, Hook
  <1>2. store \in Seq(Event) /\ handled \in Nat
    BY DEF PipeTypes
  <1>3. InHand \in Nat
    BY DEF InHand
  <1> QED
    BY <1>1, <1>2, <1>3

(***************************************************************************)
(* Empty rings and an empty store are in order.                            *)
(***************************************************************************)
LEMMA PipeInit == Init => PipeInv
  <1> SUFFICES ASSUME Init PROVE PipeInv
    OBVIOUS
  <1>1. cpu \in [Cpu -> Reserving \cup {IdleCpu}]
    BY DEF Init
  <1>2. ring \in [Hook -> Seq(Slot)] /\ reserved \in [Hook -> Seq(1..MaxVerdicts)]
    BY DEF Init
  <1>3. \A h \in Hook : Len(ring[h]) = 0 /\ Len(reserved[h]) = 0
    BY DEF Init
  <1>4. /\ reader \in [at : {"read", "handle", "stopped"}, slot : Slot \cup {Nothing}]
        /\ reader.at = "read"
    BY DEF Init, Reading
  <1>5. verdicts \in 0..MaxVerdicts /\ handled = 0 /\ verdicts = 0
    BY WordAssumption DEF Init
  <1>6. PipeTypes
    <2>1. /\ \A h \in Hook : Len(ring[h]) <= RingSize
          /\ \A h \in Hook : Len(reserved[h]) <= verdicts
      BY <1>3, <1>5, SizeAssumption
    <2>2. store \in Seq(Event)
      BY DEF Init
    <2>3. ctx \in {"live", "cancelled"} /\ closed \in BOOLEAN
      BY Zenon DEF Init
    <2>4. handled \in Nat /\ reader.at # "handle"
      BY <1>4, <1>5
    <2> QED
      BY <1>1, <1>2, <1>4, <1>5, <2>1, <2>2, <2>3, <2>4 DEF PipeTypes
  <1>7. RingOrder
    BY <1>3, <1>4, <1>5 DEF RingOrder, QueueOf, InHand, Hook
  <1>8. RecordIds
    BY <1>3, <1>4 DEF RecordIds, Hook
  <1>9. StoreOrder
    BY <1>3, <1>5, SizeAssumption DEF Init, StoreOrder, LastOf, Hook
  <1> QED
    BY <1>6, <1>7, <1>8, <1>9 DEF PipeInv

(***************************************************************************)
(* A reservation goes to the end of its ring and of the ring's history.    *)
(***************************************************************************)
LEMMA PipeReserve ==
    ASSUME PipeInv, NEW c \in Cpu, NEW h \in Hook, NEW e \in Event, Reserve(c, h, e)
    PROVE  PipeInv'
  <1> DEFINE slot == [event |-> e, record |-> Nothing]
  <1>1. e.id \in 1..MaxVerdicts /\ slot \in Slot /\ slot.event.id = e.id
    BY DEF Event, Slot
  <1>2. PipeTypes /\ ring[h] \in Seq(Slot) /\ reserved[h] \in Seq(1..MaxVerdicts)
    BY DEF PipeInv, PipeTypes
  <1>3. /\ ring' = [ring EXCEPT ![h] = Append(ring[h], slot)]
        /\ reserved' = [reserved EXCEPT ![h] = Append(reserved[h], e.id)]
        /\ UNCHANGED <<reader, ctx, closed, store, handled>>
    BY DEF Reserve
  <1>4. verdicts' \in 0..MaxVerdicts /\ verdicts' = verdicts + 1 /\ Len(ring[h]) < RingSize
    BY <1>1 DEF Reserve, PipeInv, PipeTypes
  <1>5. PipeTypes'
    <2>1. cpu' \in [Cpu -> Reserving \cup {IdleCpu}]
      BY <1>1 DEF Reserve, PipeInv, PipeTypes, Reserving
    <2>2. ring' \in [Hook -> Seq(Slot)] /\ reserved' \in [Hook -> Seq(1..MaxVerdicts)]
      BY <1>1, <1>2, <1>3 DEF PipeInv, PipeTypes
    <2>3. /\ \A g \in Hook : Len(ring'[g]) <= RingSize
          /\ \A g \in Hook : Len(reserved'[g]) <= verdicts'
      BY <1>1, <1>2, <1>3, <1>4, SizeAssumption DEF PipeInv, PipeTypes
    <2> QED
      BY <1>2, <1>3, <1>4, <2>1, <2>2, <2>3 DEF PipeTypes
  <1>6. CASE h # "xdp"
    <2>1. ring'["xdp"] = ring["xdp"] /\ reserved'["xdp"] = reserved["xdp"]
      BY <1>2, <1>3, <1>6 DEF PipeTypes, Hook
    <2> QED
      BY <1>3, <1>5, <2>1 DEF PipeInv, RingOrder, RecordIds, StoreOrder, InHand
  <1>7. CASE h = "xdp"
    <2> DEFINE r == ring["xdp"]
               v == reserved["xdp"]
    <2>1. r \in Seq(Slot) /\ v \in Seq(1..MaxVerdicts) /\ store \in Seq(Event)
          /\ handled \in Nat /\ handled + InHand \in Nat
      BY <1>2, PipeFacts
    <2>2. ring'["xdp"] = Append(r, slot) /\ reserved'["xdp"] = Append(v, e.id)
      BY <1>2, <1>3, <1>7 DEF PipeTypes
    <2>3. InHand' = InHand
      BY <1>3 DEF InHand
    <2>4. QueueOf(r, v, handled + InHand) /\ LastOf(store, v, handled)
      BY DEF PipeInv, RingOrder, StoreOrder
    <2>5. RingOrder'
      <3>1. QueueOf(Append(r, slot), Append(v, e.id), handled + InHand)
        BY <1>1, <2>1, <2>4, QueueAppend
      <3> QED
        BY <1>3, <2>2, <2>3, <3>1 DEF RingOrder
    <2>6. RecordIds'
      <3>1. /\ \A i \in 1..Len(r) : r[i].record # Nothing => r[i].record.id = r[i].event.id
            /\ reader.at = "handle" => /\ handled + 1 \in 1..Len(v)
                                       /\ reader.slot.record.id = v[handled + 1]
        BY DEF PipeInv, RecordIds
      <3>2. \A i \in 1..Len(Append(r, slot)) :
               Append(r, slot)[i].record # Nothing
                  => Append(r, slot)[i].record.id = Append(r, slot)[i].event.id
        BY <1>1, <2>1, <3>1
      <3>3. Len(Append(v, e.id)) = Len(v) + 1 /\ Len(v) \in Nat
        BY <1>1, <2>1
      <3>4. reader.at = "handle" => /\ handled + 1 \in 1..Len(Append(v, e.id))
                                    /\ reader.slot.record.id = Append(v, e.id)[handled + 1]
        BY <1>1, <2>1, <3>1, <3>3, AppendKeeps
      <3> QED
        BY <1>3, <2>2, <3>2, <3>4 DEF RecordIds
    <2>7. StoreOrder'
      <3>1. LastOf(store, Append(v, e.id), handled)
        BY <1>1, <2>1, <2>4, LastAppend
      <3> QED
        BY <1>3, <2>2, <3>1 DEF StoreOrder
    <2> QED
      BY <1>5, <2>5, <2>6, <2>7 DEF PipeInv
  <1> QED
    BY <1>6, <1>7

(***************************************************************************)
(* Filling in a record leaves it in its place, with the id of its event.   *)
(***************************************************************************)
LEMMA FillFacts ==
    ASSUME NEW slot \in Slot, NEW hole \in Word
    PROVE  /\ Fill(slot, hole) \in Slot
           /\ Fill(slot, hole).event = slot.event
           /\ Fill(slot, hole).record \in Record
           /\ Fill(slot, hole).record.id = slot.event.id
  <1>1. slot.event \in Event /\ Encode(slot.event, hole) \in Record
    BY DEF Slot, Event, Record, Encode
  <1>2. Encode(slot.event, hole).id = slot.event.id
    BY DEF Encode
  <1>3. Fill(slot, hole) = [event |-> slot.event, record |-> Encode(slot.event, hole)]
    BY DEF Fill, Slot
  <1> QED
    BY <1>1, <1>2, <1>3 DEF Slot

(***************************************************************************)
(* bpf_ringbuf_submit fills a slot in place: neither the order of the ring *)
(* nor what was reserved changes.                                          *)
(***************************************************************************)
LEMMA PipeSubmit ==
    ASSUME PipeInv, NEW c \in Cpu, Submit(c)
    PROVE  PipeInv'
  <1> DEFINE h == cpu[c].hook
  <1>1. h \in Hook
    BY DEF Submit, PipeInv, PipeTypes, Reserving, IdleCpu
  <1>2. PICK i \in DOMAIN ring[h], hole \in Word :
             ring' = [ring EXCEPT ![h][i] = Fill(@, hole)]
    BY DEF Submit
  <1>3. PipeTypes /\ ring[h] \in Seq(Slot) /\ i \in 1..Len(ring[h]) /\ ring[h][i] \in Slot
    BY <1>1, <1>2 DEF PipeInv, PipeTypes
  <1> DEFINE f == Fill(ring[h][i], hole)
             rs == [ring[h] EXCEPT ![i] = f]
  <1>4. /\ f \in Slot /\ f.event = ring[h][i].event
        /\ f.record.id = ring[h][i].event.id
    BY <1>2, <1>3, FillFacts
  <1> HIDE DEF f
  <1>5. ring' = [ring EXCEPT ![h] = rs]
    BY <1>2 DEF f
  <1>6. rs \in Seq(Slot) /\ Len(rs) = Len(ring[h])
        /\ \A j \in 1..Len(ring[h]) : rs[j] = IF j = i THEN f ELSE ring[h][j]
    BY <1>3, <1>4
  <1> HIDE DEF rs
  <1>7. PipeTypes'
    <2>1. cpu' \in [Cpu -> Reserving \cup {IdleCpu}]
      BY <1>3 DEF Submit, PipeTypes
    <2>2. ring' \in [Hook -> Seq(Slot)] /\ \A g \in Hook : Len(ring'[g]) <= RingSize
      BY <1>1, <1>3, <1>5, <1>6 DEF PipeTypes
    <2> QED
      BY <1>3, <2>1, <2>2 DEF Submit, PipeTypes
  <1>8. /\ Len(ring'["xdp"]) = Len(ring["xdp"])
        /\ \A j \in 1..Len(ring["xdp"]) :
              /\ ring'["xdp"][j].event = ring["xdp"][j].event
              /\ \/ ring'["xdp"][j].record = ring["xdp"][j].record
                 \/ ring'["xdp"][j].record.id = ring["xdp"][j].event.id
    <2>1. CASE h = "xdp"
      BY <1>3, <1>4, <1>5, <1>6, <2>1 DEF PipeTypes, Hook
    <2>2. CASE h # "xdp"
      BY <1>3, <1>5, <2>2 DEF PipeTypes, Hook
    <2> QED
      BY <2>1, <2>2
  <1>9. UNCHANGED <<reader, store, reserved, handled>> /\ InHand' = InHand
    BY DEF Submit, InHand
  <1>10. RingOrder'
    BY <1>8, <1>9 DEF PipeInv, RingOrder, QueueOf
  <1>11. RecordIds'
    BY <1>8, <1>9 DEF PipeInv, RecordIds
  <1>12. StoreOrder'
    BY <1>9 DEF PipeInv, StoreOrder
  <1> QED
    BY <1>7, <1>10, <1>11, <1>12 DEF PipeInv

(***************************************************************************)
(* The reader takes the oldest record: the next one of the history.        *)
(***************************************************************************)
LEMMA PipeRead ==
    ASSUME PipeInv, Read
    PROVE  PipeInv'
  <1> DEFINE r == ring["xdp"]
             v == reserved["xdp"]
  <1>1. /\ PipeTypes /\ r \in Seq(Slot) /\ v \in Seq(1..MaxVerdicts) /\ handled \in Nat
        /\ r # <<>> /\ Head(r).record # Nothing /\ reader.at = "read"
        /\ Len(r) <= RingSize
    BY PipeFacts DEF PipeInv, Read, PipeTypes, Hook
  <1>2. /\ Tail(r) \in Seq(Slot) /\ Len(Tail(r)) = Len(r) - 1 /\ Len(r) \in Nat \ {0}
        /\ Head(r) \in Slot /\ Head(r) = r[1]
        /\ \A i \in 1..(Len(r) - 1) : Tail(r)[i] = r[i + 1]
    BY <1>1
  <1>3. Head(r).record \in Record
    BY <1>1, <1>2 DEF Slot
  <1>4. /\ ring' = [ring EXCEPT !["xdp"] = Tail(r)]
        /\ reader' = [at |-> "handle", slot |-> Head(r)]
        /\ UNCHANGED <<verdicts, cpu, ctx, closed, store, reserved, handled>>
    BY DEF Read
  <1>5. ring'["xdp"] = Tail(r)
    BY <1>1, <1>4 DEF PipeTypes, Hook
  <1>6. PipeTypes'
    <2>1. ring' \in [Hook -> Seq(Slot)]
      BY <1>1, <1>2, <1>4 DEF PipeTypes
    <2>2. Len(Tail(r)) <= RingSize
      BY <1>1, <1>2, SizeAssumption
    <2>3. \A g \in Hook : Len(ring'[g]) <= RingSize
      BY <1>1, <1>4, <2>2 DEF PipeTypes
    <2>4. /\ reader' \in [at : {"read", "handle", "stopped"}, slot : Slot \cup {Nothing}]
          /\ reader'.slot \in Slot /\ reader'.slot.record \in Record
      BY <1>2, <1>3, <1>4
    <2> QED
      BY <1>1, <1>4, <2>1, <2>3, <2>4 DEF PipeTypes
  <1>7. InHand = 0 /\ InHand' = 1
    BY <1>1, <1>4 DEF InHand
  <1>8. QueueOf(r, v, handled)
    BY <1>1, <1>7 DEF PipeInv, RingOrder
  <1>9. QueueOf(Tail(r), v, handled + 1) /\ Head(r).event.id = v[handled + 1]
        /\ handled + 1 \in 1..Len(v)
    BY <1>1, <1>8, QueueTail
  <1>10. RingOrder'
    BY <1>4, <1>5, <1>7, <1>9 DEF RingOrder
  <1>11. RecordIds'
    <2>1. \A i \in 1..Len(r) : r[i].record # Nothing => r[i].record.id = r[i].event.id
      BY DEF PipeInv, RecordIds
    <2>2. Head(r).record.id = v[handled + 1]
      BY <1>1, <1>2, <1>9, <2>1
    <2>3. \A i \in 1..Len(Tail(r)) :
             Tail(r)[i].record # Nothing => Tail(r)[i].record.id = Tail(r)[i].event.id
      BY <1>2, <2>1
    <2> QED
      BY <1>4, <1>5, <1>9, <2>2, <2>3 DEF RecordIds
  <1>12. StoreOrder'
    BY <1>4 DEF PipeInv, StoreOrder
  <1> QED
    BY <1>6, <1>10, <1>11, <1>12 DEF PipeInv

(***************************************************************************)
(* The handler gives the store the next verdict of the history.            *)
(***************************************************************************)
LEMMA PipeHandle ==
    ASSUME PipeInv, Handle
    PROVE  PipeInv'
  <1> DEFINE v == reserved["xdp"]
             e == Decode(reader.slot.record)
  <1>1. /\ PipeTypes /\ v \in Seq(1..MaxVerdicts) /\ store \in Seq(Event) /\ handled \in Nat
        /\ reader.at = "handle" /\ reader.slot.record \in Record
    BY PipeFacts DEF PipeInv, Handle, PipeTypes
  <1>2. e \in Event /\ e.id = reader.slot.record.id
    BY <1>1 DEF Decode, Record, Event
  <1>3. handled + 1 \in 1..Len(v) /\ e.id = v[handled + 1] /\ LastOf(store, v, handled)
    BY <1>1, <1>2 DEF PipeInv, RecordIds, StoreOrder
  <1> HIDE DEF e
  <1>4. Add(store, e) \in Seq(Event) /\ LastOf(Add(store, e), v, handled + 1)
    BY <1>1, <1>2, <1>3, LastAdd
  <1>5. /\ store' = Add(store, e) /\ handled' = handled + 1
        /\ reader' = Reading /\ reader'.at = "read"
        /\ UNCHANGED <<verdicts, cpu, ring, ctx, closed, reserved>>
    BY DEF Handle, Reading, e
  <1>6. PipeTypes'
    BY <1>1, <1>4, <1>5 DEF PipeTypes, Reading
  <1>7. InHand = 1 /\ InHand' = 0
    BY <1>1, <1>5 DEF InHand
  <1>8. RingOrder'
    BY <1>1, <1>5, <1>7 DEF PipeInv, RingOrder
  <1>9. RecordIds'
    BY <1>5 DEF PipeInv, RecordIds
  <1>10. StoreOrder'
    BY <1>4, <1>5 DEF StoreOrder
  <1> QED
    BY <1>6, <1>8, <1>9, <1>10 DEF PipeInv

(***************************************************************************)
(* Every step of the kernel programs, the reader and the shutdown keeps    *)
(* the order.                                                              *)
(***************************************************************************)
LEMMA PipeStep == PipeInv /\ [Next]_vars => PipeInv'
  <1> SUFFICES ASSUME PipeInv, [Next]_vars PROVE PipeInv'
    OBVIOUS
  <1>1. verdicts \in Nat /\ MaxVerdicts \in Nat /\ verdicts <= MaxVerdicts
    BY WordAssumption DEF PipeInv, PipeTypes
  <1>2. ASSUME NEW c \in Cpu, NEW h \in Hook, ReserveFails(c, h) PROVE PipeInv'
    <2>1. /\ verdicts' = verdicts + 1 /\ verdicts' \in 0..MaxVerdicts
          /\ UNCHANGED <<cpu, ring, reader, ctx, closed, store, reserved, handled>>
      BY <1>1, <1>2 DEF ReserveFails
    <2>2. \A g \in Hook : Len(reserved[g]) \in Nat /\ Len(reserved[g]) <= verdicts
      BY DEF PipeInv, PipeTypes
    <2>3. \A g \in Hook : Len(reserved[g]) <= verdicts'
      BY <1>1, <2>1, <2>2
    <2>4. PipeTypes'
      BY <2>1, <2>3 DEF PipeInv, PipeTypes
    <2> QED
      BY <2>1, <2>4 DEF PipeInv, RingOrder, RecordIds, StoreOrder, InHand
  <1>3. ASSUME NEW c \in Cpu, XdpVerdict(c) PROVE PipeInv'
    <2>1. ASSUME NEW cg \in Word \X Word, NEW ident \in Word, verdicts < MaxVerdicts,
                 Reserve(c, "xdp", [id |-> verdicts + 1, cgroup |-> cg, identity |-> ident])
          PROVE  PipeInv'
      <3>1. [id |-> verdicts + 1, cgroup |-> cg, identity |-> ident] \in Event
        BY <1>1, <2>1 DEF Event
      <3> QED
        BY <2>1, <3>1, PipeReserve DEF Hook
    <2> QED
      BY <1>2, <1>3, <2>1 DEF XdpVerdict, Hook
  <1>4. ASSUME NEW c \in Cpu, TcDrop(c) PROVE PipeInv'
    <2>1. ASSUME NEW cg \in Word \X Word, verdicts < MaxVerdicts,
                 Reserve(c, "tc", [id |-> verdicts + 1, cgroup |-> cg, identity |-> 0])
          PROVE  PipeInv'
      <3>1. [id |-> verdicts + 1, cgroup |-> cg, identity |-> 0] \in Event
        BY <1>1, <2>1, WordAssumption DEF Event
      <3> QED
        BY <2>1, <3>1, PipeReserve DEF Hook
    <2> QED
      BY <1>2, <1>4, <2>1 DEF TcDrop, Hook
  <1>5. ASSUME NEW c \in Cpu, Submit(c) PROVE PipeInv'
    BY <1>5, PipeSubmit
  <1>6. CASE Read
    BY <1>6, PipeRead
  <1>7. CASE Handle
    BY <1>7, PipeHandle
  <1>8. CASE ReadClosed \/ ReadFails
    <2>1. /\ reader' = [Reading EXCEPT !.at = "stopped"] /\ reader.at = "read"
          /\ UNCHANGED <<verdicts, cpu, ring, ctx, closed, store, reserved, handled>>
      BY <1>8 DEF ReadClosed, ReadFails
    <2>2. /\ reader' \in [at : {"read", "handle", "stopped"}, slot : Slot \cup {Nothing}]
          /\ reader'.at = "stopped"
      BY <2>1 DEF Reading
    <2>3. PipeTypes' /\ InHand' = InHand
      BY <2>1, <2>2 DEF PipeInv, PipeTypes, InHand
    <2> QED
      BY <2>1, <2>2, <2>3 DEF PipeInv, RingOrder, RecordIds, StoreOrder
  <1>9. CASE Cancel \/ CloseReader
    <2>1. /\ ctx' \in {"live", "cancelled"} /\ closed' \in BOOLEAN
          /\ UNCHANGED <<verdicts, cpu, ring, reader, store, reserved, handled>>
      BY <1>9 DEF Cancel, CloseReader, PipeInv, PipeTypes
    <2>2. PipeTypes' /\ InHand' = InHand
      BY <2>1 DEF PipeInv, PipeTypes, InHand
    <2> QED
      BY <2>1, <2>2 DEF PipeInv, RingOrder, RecordIds, StoreOrder
  <1>10. CASE UNCHANGED vars
    BY <1>10 DEF vars, PipeInv, PipeTypes, RingOrder, RecordIds, StoreOrder, InHand
  <1> QED
    BY <1>3, <1>4, <1>5, <1>6, <1>7, <1>8, <1>9, <1>10 DEF Next, KernelStep

(***************************************************************************)
(* The sequence form of the types implies the one the run checks.          *)
(***************************************************************************)
LEMMA PipeTypeOK == PipeInv => TypeOK
  <1> SUFFICES ASSUME PipeInv PROVE TypeOK
    OBVIOUS
  <1>1. cpu \in [Cpu -> [hook : Hook \cup {Nothing}, id : (1..MaxVerdicts) \cup {Nothing}]]
    BY DEF PipeInv, PipeTypes, Reserving, IdleCpu
  <1>2. \A h \in Hook : /\ Len(ring[h]) \in 0..RingSize
                        /\ \A i \in DOMAIN ring[h] : ring[h][i] \in Slot
    BY SizeAssumption DEF PipeInv, PipeTypes
  <1>3. \A h \in Hook : Len(reserved[h]) \in 0..verdicts
    BY WordAssumption DEF PipeInv, PipeTypes
  <1>4. /\ Len(store) \in 0..Capacity
        /\ \A i \in DOMAIN store : store[i] \in Event
    <2>1. store \in Seq(Event) /\ handled \in Nat /\ LastOf(store, reserved["xdp"], handled)
      BY DEF PipeInv, PipeTypes, StoreOrder
    <2>2. Len(store) \in Nat /\ Len(store) <= Capacity
      BY <2>1, SizeAssumption DEF LastOf
    <2> QED
      BY <2>1, <2>2, SizeAssumption
  <1>5. handled \in 0..verdicts
    <2>1. handled \in Nat /\ handled <= Len(reserved["xdp"])
      BY DEF PipeInv, PipeTypes, StoreOrder, LastOf
    <2> QED
      BY <1>3, <2>1, WordAssumption DEF Hook, PipeInv, PipeTypes
  <1> QED
    BY <1>1, <1>2, <1>3, <1>4, <1>5 DEF TypeOK, PipeInv, PipeTypes

(***************************************************************************)
(* The order of the pipeline implies what the operator sees in the store.  *)
(***************************************************************************)
LEMMA PipeStoreIsRecent == PipeInv => StoreIsRecent
  <1> SUFFICES ASSUME PipeInv PROVE StoreIsRecent
    OBVIOUS
  <1> DEFINE v == reserved["xdp"]
             low == IF handled > Capacity THEN handled - Capacity + 1 ELSE 1
  <1>1. /\ v \in Seq(1..MaxVerdicts) /\ store \in Seq(Event) /\ handled \in Nat
        /\ LastOf(store, v, handled) /\ Capacity \in Nat \ {0}
    BY PipeFacts, SizeAssumption DEF PipeInv, StoreOrder
  <1>2. /\ handled <= Len(v) /\ Len(v) \in Nat /\ Len(store) \in Nat
        /\ Len(store) = handled - low + 1 /\ low \in Nat /\ 1 <= low /\ low <= handled + 1
    BY <1>1 DEF LastOf
  <1>3. \A i \in 1..Len(store) : store[i].id = v[low + i - 1]
    <2>1. ASSUME NEW i \in 1..Len(store) PROVE handled - Len(store) + i = low + i - 1
      BY <1>1, <1>2
    <2> QED
      BY <1>1, <2>1 DEF LastOf
  <1> HIDE DEF v, low
  <1>4. SubSeq(v, low, handled) = [i \in 1..(handled - low + 1) |-> v[low + i - 1]]
    BY <1>1, <1>2
  <1>5. Ids(store) = [i \in 1..Len(store) |-> store[i].id]
    BY <1>1 DEF Ids
  <1>6. Ids(store) = SubSeq(v, low, handled)
    BY <1>2, <1>3, <1>4, <1>5
  <1> QED
    BY <1>6 DEF StoreIsRecent, v, low

(***************************************************************************)
(* The ring, the reader and the store together lose, repeat and reorder    *)
(* nothing: the AuditStore has the most recent Capacity of the records     *)
(* the XDP program reserved, in that order.                                *)
(***************************************************************************)
THEOREM StoreIsRecentHolds == Spec => []StoreIsRecent
  BY PipeInit, PipeStep, PipeStoreIsRecent, PTL DEF Spec

(***************************************************************************)
(* Rings and store stay within their sizes, whatever the CPUs report.      *)
(***************************************************************************)
THEOREM PipelineTypeCorrect == Spec => []TypeOK
  BY PipeInit, PipeStep, PipeTypeOK, PTL DEF Spec
=============================================================================
