------------------------- MODULE PolicyReloadProofs -------------------------
(***************************************************************************)
(* Proofs about PolicyReload for every set of appliers, CPUs, policies,    *)
(* packets and keys, every map size and every number of generations.       *)
(***************************************************************************)
EXTENDS PolicyReload, TLAPS

(***************************************************************************)
(* curGen + 1 in uint32 arithmetic is a generation, and another one.       *)
(***************************************************************************)
LEMMA NextGenFacts ==
    ASSUME NEW g \in Gen
    PROVE  /\ (g + 1) % GenCount \in Gen
           /\ (g + 1) % GenCount # g
  <1>1. CASE g + 1 < GenCount
    <2>1. (g + 1) % GenCount = g + 1
      BY <1>1, GenAssumption DEF Gen
    <2> QED
      BY <1>1, <2>1, GenAssumption DEF Gen
  <1>2. CASE g + 1 = GenCount
    <2>1. (g + 1) % GenCount = 0
      BY <1>2, GenAssumption DEF Gen
    <2> QED
      BY <1>2, <2>1, GenAssumption DEF Gen
  <1> QED
    BY <1>1, <1>2, GenAssumption DEF Gen

(***************************************************************************)
(* An applier inside ApplyPolicyAtomic has a policy in hand.               *)
(***************************************************************************)
PolicyInHand == \A a \in Applier : pc[a] # "idle" => policy[a] \in Policy

TypeInv == TypeOK /\ PolicyInHand

(***************************************************************************)
(* The entry about to be staged is an entry of a compiled policy.          *)
(***************************************************************************)
LEMMA NextEntryFacts ==
    ASSUME TypeInv, NEW a \in Applier, pc[a] # "idle", pos[a] < Len(policy[a])
    PROVE  /\ NextEntry(a).key \in Key
           /\ NextEntry(a).rule \in Rule
  <1>1. policy[a] \in Seq(Entry) /\ pos[a] \in Nat
    BY PolicyAssumption DEF TypeInv, TypeOK, PolicyInHand
  <1>2. pos[a] + 1 \in 1..Len(policy[a])
    BY <1>1
  <1>3. NextEntry(a) \in Entry
    BY <1>1, <1>2 DEF NextEntry
  <1> QED
    BY <1>3 DEF Entry

(***************************************************************************)
(* A freshly loaded collection of maps is well typed.                      *)
(***************************************************************************)
LEMMA TypeInit == Init => TypeInv
  <1> SUFFICES ASSUME Init PROVE TypeInv
    OBVIOUS
  <1>1. 0 \in Gen
    BY GenAssumption DEF Gen
  <1>2. EmptyTable \in Table
    BY DEF EmptyTable, Table
  <1> QED
    BY <1>1, <1>2, BoundAssumption
    DEF Init, TypeInv, TypeOK, PolicyInHand, Pc, XdpState, IdleXdp

(***************************************************************************)
(* Every step of an applier or of the XDP program preserves the types.     *)
(***************************************************************************)
LEMMA TypeStep == TypeInv /\ [Next]_vars => TypeInv'
  <1> SUFFICES ASSUME TypeInv, [Next]_vars PROVE TypeInv'
    OBVIOUS
  <1> USE DEF TypeInv, TypeOK, PolicyInHand
  <1>1. ASSUME NEW a \in Applier, Call(a) PROVE TypeInv'
    BY <1>1, BoundAssumption DEF Call, Goto, Pc, mapVars, packetVars
  <1>2. ASSUME NEW a \in Applier, Lock(a) PROVE TypeInv'
    BY <1>2, SwapperAssumption DEF Lock, Goto, Pc, mapVars, packetVars
  <1>3. ASSUME NEW a \in Applier, ReadGeneration(a) PROVE TypeInv'
    BY <1>3, NextGenFacts DEF ReadGeneration, Goto, Pc, mapVars, packetVars
  <1>4. ASSUME NEW a \in Applier, Clear(a) PROVE TypeInv'
    <2>1. CASE ClearLock(a)
      BY <2>1 DEF ClearLock, mapVars, callVars, packetVars
    <2>2. CASE ClearKey(a)
      <3>1. Target(a) \in Gen
        BY DEF Target
      <3>2. PICK k \in NextToDelete(Target(a)) :
                kmap' = [kmap EXCEPT ![Target(a)][k] = NoRule]
        BY <2>2 DEF ClearKey
      <3>3. k \in Key
        BY <3>2 DEF NextToDelete, Present, Key
      <3>4. kmap' \in [Gen -> Table]
        BY <3>1, <3>2, <3>3 DEF Table
      <3> QED
        BY <2>2, <3>4 DEF ClearKey, callVars, packetVars
    <2>3. CASE ClearDone(a)
      BY <2>3 DEF ClearDone, Clearing, Goto, Pc, mapVars, packetVars
    <2> QED
      BY <1>4, <2>1, <2>2, <2>3 DEF Clear
  <1>5. ASSUME NEW a \in Applier, Stage(a) PROVE TypeInv'
    <2>1. CASE StageRule(a)
      <3>1. kmap' \in [Gen -> Table]
        BY <2>1, NextEntryFacts DEF StageRule, Table
      <3> QED
        BY <2>1, <3>1 DEF StageRule, packetVars
    <2>2. CASE StageFail(a)
      BY <2>2 DEF StageFail, Goto, Pc, mapVars, packetVars
    <2>3. CASE SetActiveGeneration(a)
      BY <2>3 DEF SetActiveGeneration, Goto, Pc
    <2>4. CASE SetActiveGenerationFail(a)
      BY <2>4 DEF SetActiveGenerationFail, Goto, Pc, mapVars, packetVars
    <2> QED
      BY <1>5, <2>1, <2>2, <2>3, <2>4 DEF Stage
  <1>6. ASSUME NEW a \in Applier, Return(a) PROVE TypeInv'
    BY <1>6, SwapperAssumption DEF Return, Goto, Pc, mapVars, packetVars
  <1>7. ASSUME NEW c \in Cpu, XdpStep(c) PROVE TypeInv'
    <2>1. CASE PacketArrives(c)
      BY <2>1 DEF PacketArrives, Drops, XdpState, mapVars, callVars
    <2>2. CASE LookupCgroup(c)
      BY <2>2 DEF LookupCgroup, Lookup, XdpState, mapVars, callVars
    <2>3. CASE LookupLpm(c)
      BY <2>3 DEF LookupLpm, Lookup, XdpState, mapVars, callVars
    <2>4. CASE LookupPort(c)
      BY <2>4 DEF LookupPort, Lookup, XdpState, mapVars, callVars
    <2>5. CASE PacketLeaves(c)
      BY <2>5, GenAssumption DEF PacketLeaves, XdpState, IdleXdp, Gen, mapVars, callVars
    <2> QED
      BY <1>7, <2>1, <2>2, <2>3, <2>4, <2>5 DEF XdpStep
  <1>8. CASE UNCHANGED vars
    BY <1>8 DEF vars
  <1> QED
    BY <1>1, <1>2, <1>3, <1>4, <1>5, <1>6, <1>7, <1>8 DEF Next, ApplyStep

(***************************************************************************)
(* Every reachable state is well typed, in particular every generation     *)
(* number an applier or a packet holds is a uint32 and every map holds     *)
(* rules only.                                                             *)
(***************************************************************************)
THEOREM TypeCorrect == Spec => []TypeOK
  <1>1. TypeInv => TypeOK
    BY DEF TypeInv
  <1> QED
    BY <1>1, TypeInit, TypeStep, PTL DEF Spec

-----------------------------------------------------------------------------
(***************************************************************************)
(* The strengthening of ActiveComplete and NoResidue.                      *)
(***************************************************************************)
MutexHeld ==
    \A a \in Applier : pc[a] \notin {"idle", "waiting"} => smu[SwapperOf[a]] = a

LoaderLock == \A a \in Applier : lmu = a => pc[a] \in Clearing

Generations ==
    \A a \in Applier :
        /\ pc[a] \in {"preclear", "staging", "rollback"} =>
              /\ curGen[a] = activeGen
              /\ nextGen[a] = (activeGen + 1) % GenCount
        /\ pc[a] = "purging" =>
              /\ nextGen[a] = activeGen
              /\ curGen[a] # activeGen

StagedPrefix ==
    \A a \in Applier :
        /\ pc[a] \in {"idle", "waiting", "locked", "preclear"} => pos[a] = 0
        /\ pc[a] = "staging" =>
              /\ pos[a] <= Len(policy[a])
              /\ Staged(kmap[nextGen[a]], policy[a], pos[a])

SafeInv ==
    /\ TypeInv
    /\ MutexHeld
    /\ LoaderLock
    /\ Generations
    /\ StagedPrefix
    /\ ActiveComplete
    /\ NoResidue

(***************************************************************************)
(* Nothing staged yet: a generation without entries.                       *)
(***************************************************************************)
LEMMA StagedNothing ==
    ASSUME NEW t, NEW p, \A k \in Key : t[k] = NoRule
    PROVE  Staged(t, p, 0)
  BY DEF Staged, StagedAt

(***************************************************************************)
(* Put of the next entry: the last entry of a key decides.                 *)
(***************************************************************************)
LEMMA StagedPut ==
    ASSUME NEW t \in Table, NEW p \in Seq(Entry), NEW n \in Nat, n < Len(p),
           Staged(t, p, n)
    PROVE  Staged([t EXCEPT ![p[n + 1].key] = p[n + 1].rule], p, n + 1)
  <1> DEFINE u == [t EXCEPT ![p[n + 1].key] = p[n + 1].rule]
  <1>1. p[n + 1] \in Entry
    OBVIOUS
  <1>2. SUFFICES ASSUME NEW k \in Key PROVE StagedAt(u, p, n + 1, k)
    BY DEF Staged
  <1>3. CASE p[n + 1].key = k
    <2>1. u[k] = p[n + 1].rule
      BY <1>3 DEF Table
    <2>2. \A j \in 1..(n + 1) : ~(j > n + 1)
      OBVIOUS
    <2>3. n + 1 \in 1..(n + 1)
      OBVIOUS
    <2> QED
      BY <1>3, <2>1, <2>2, <2>3 DEF StagedAt
  <1>4. CASE p[n + 1].key # k
    <2>1. u[k] = t[k]
      BY <1>4 DEF Table
    <2>2. \A i \in 1..(n + 1) : i \in 1..n \/ i = n + 1
      OBVIOUS
    <2>3. \A i \in 1..n : i \in 1..(n + 1)
      OBVIOUS
    <2>4. CASE t[k] = NoRule /\ \A i \in 1..n : p[i].key # k
      BY <1>4, <2>1, <2>2, <2>4 DEF StagedAt
    <2>5. CASE \E i \in 1..n :
                  /\ p[i].key = k
                  /\ t[k] = p[i].rule
                  /\ \A j \in 1..n : j > i => p[j].key # k
      BY <1>4, <2>1, <2>2, <2>3, <2>5 DEF StagedAt
    <2> QED
      BY <2>4, <2>5 DEF Staged, StagedAt
  <1> QED
    BY <1>3, <1>4

(***************************************************************************)
(* With one MapSwapper its mutex keeps every other applier out.            *)
(***************************************************************************)
LEMMA Alone ==
    ASSUME OneSwapper, MutexHeld,
           NEW a \in Applier, pc[a] \notin {"idle", "waiting"},
           NEW b \in Applier, b # a
    PROVE  pc[b] \in {"idle", "waiting"}
  BY DEF OneSwapper, MutexHeld

(***************************************************************************)
(* The inductive invariant holds of the freshly loaded maps.               *)
(***************************************************************************)
LEMMA SafeInit == Init => SafeInv
  <1> SUFFICES ASSUME Init PROVE SafeInv
    OBVIOUS
  <1>1. TypeInv
    BY TypeInit
  <1>2. 0 \in Gen
    BY GenAssumption DEF Gen
  <1>3. \A g \in Gen : \A k \in Key : kmap[g][k] = NoRule
    BY DEF Init, EmptyTable
  <1>4. ActiveComplete
    <2>1. Staged(kmap[activeGen], installed, 0)
      BY <1>2, <1>3, StagedNothing DEF Init
    <2> QED
      BY <2>1 DEF ActiveComplete, Realizes, Init
  <1>5. NoResidue
    BY <1>3 DEF NoResidue, Present
  <1>6. MutexHeld /\ LoaderLock /\ Generations /\ StagedPrefix
    BY SentinelAssumption DEF Init, MutexHeld, LoaderLock, Generations, StagedPrefix
  <1> QED
    BY <1>1, <1>4, <1>5, <1>6 DEF SafeInv

(***************************************************************************)
(* A step that leaves the maps alone and takes no generation from the      *)
(* applier that works on it.                                               *)
(***************************************************************************)
LEMMA ResidueFrame ==
    ASSUME NoResidue, UNCHANGED mapVars,
           \A a \in Applier : \A g \in Gen : WorksOn(a, g) => WorksOn(a, g)'
    PROVE  NoResidue'
  <1>1. \A g \in Gen : Present(g, Key)' = Present(g, Key)
    BY DEF Present, mapVars
  <1> QED
    BY <1>1 DEF NoResidue, mapVars

(***************************************************************************)
(* A step that touches neither the maps nor the appliers.                  *)
(***************************************************************************)
LEMMA SafeFrame ==
    ASSUME SafeInv, TypeInv', UNCHANGED <<mapVars, smu, lmu, callVars, installed>>
    PROVE  SafeInv'
  BY DEF SafeInv, MutexHeld, LoaderLock, Generations, StagedPrefix, ActiveComplete,
         NoResidue, WorksOn, Present, mapVars, callVars

(***************************************************************************)
(* A new caller that waits for the mutex disturbs nothing.                 *)
(***************************************************************************)
LEMMA SafeCall ==
    ASSUME SafeInv, TypeInv', NEW a \in Applier, Call(a)
    PROVE  SafeInv'
  <1> USE DEF Call, Goto, mapVars
  <1>1. MutexHeld' /\ LoaderLock' /\ Generations' /\ StagedPrefix'
    BY DEF SafeInv, TypeInv, TypeOK, MutexHeld, LoaderLock, Clearing, Generations, StagedPrefix
  <1>2. ActiveComplete'
    BY DEF SafeInv, ActiveComplete
  <1>3. NoResidue'
    <2>1. \A b \in Applier : \A g \in Gen : WorksOn(b, g) => WorksOn(b, g)'
      BY SwapperAssumption DEF SafeInv, TypeInv, TypeOK, WorksOn
    <2> QED
      BY <2>1, ResidueFrame DEF SafeInv
  <1> QED
    BY <1>1, <1>2, <1>3 DEF SafeInv

(***************************************************************************)
(* With one MapSwapper, the caller that gets the mutex is the only one     *)
(* past it.                                                                *)
(***************************************************************************)
LEMMA SafeLock ==
    ASSUME OneSwapper, SafeInv, TypeInv', NEW a \in Applier, Lock(a)
    PROVE  SafeInv'
  <1> USE DEF Lock, Goto, mapVars
  <1>1. SwapperOf[a] \in Swapper
    BY SwapperAssumption
  <1>2. \A b \in Applier : b # a => pc[b] \in {"idle", "waiting"}
    BY SentinelAssumption DEF SafeInv, MutexHeld, OneSwapper
  <1>3. MutexHeld'
    BY <1>1, <1>2 DEF SafeInv, TypeInv, TypeOK, MutexHeld
  <1>4. LoaderLock' /\ Generations' /\ StagedPrefix'
    BY DEF SafeInv, TypeInv, TypeOK, LoaderLock, Clearing, Generations, StagedPrefix
  <1>5. ActiveComplete'
    BY DEF SafeInv, ActiveComplete
  <1>6. NoResidue'
    <2>1. \A b \in Applier : \A g \in Gen : WorksOn(b, g) => WorksOn(b, g)'
      BY <1>2, SwapperAssumption DEF SafeInv, TypeInv, TypeOK, WorksOn
    <2> QED
      BY <2>1, ResidueFrame DEF SafeInv
  <1> QED
    BY <1>3, <1>4, <1>5, <1>6 DEF SafeInv

(***************************************************************************)
(* GetActiveGeneration fixes the current and the next generation.          *)
(***************************************************************************)
LEMMA SafeReadGeneration ==
    ASSUME OneSwapper, SafeInv, TypeInv', NEW a \in Applier, ReadGeneration(a)
    PROVE  SafeInv'
  <1> USE DEF ReadGeneration, Goto, mapVars
  <1>1. \A b \in Applier : b # a => pc[b] \in {"idle", "waiting"}
    BY Alone DEF SafeInv
  <1>2. MutexHeld' /\ LoaderLock'
    BY DEF SafeInv, TypeInv, TypeOK, MutexHeld, LoaderLock, Clearing
  <1>3. Generations' /\ StagedPrefix'
    BY <1>1 DEF SafeInv, TypeInv, TypeOK, Generations, StagedPrefix
  <1>4. ActiveComplete'
    BY DEF SafeInv, ActiveComplete
  <1>5. NoResidue'
    <2>1. \A b \in Applier : \A g \in Gen : WorksOn(b, g) => WorksOn(b, g)'
      BY <1>1, SwapperAssumption DEF SafeInv, TypeInv, TypeOK, WorksOn
    <2> QED
      BY <2>1, ResidueFrame DEF SafeInv
  <1> QED
    BY <1>2, <1>3, <1>4, <1>5 DEF SafeInv

(***************************************************************************)
(* Which generation an applier clears: never the active one.               *)
(***************************************************************************)
LEMMA TargetInactive ==
    ASSUME SafeInv, NEW a \in Applier, pc[a] \in Clearing
    PROVE  Target(a) \in Gen /\ Target(a) # activeGen
  BY NextGenFacts DEF SafeInv, TypeInv, TypeOK, Generations, Clearing, Target

(***************************************************************************)
(* ClearGenerationRules empties only an inactive generation.               *)
(***************************************************************************)
LEMMA SafeClear ==
    ASSUME OneSwapper, SafeInv, TypeInv', NEW a \in Applier, Clear(a)
    PROVE  SafeInv'
  <1>1. pc[a] \in Clearing
    BY DEF Clear, ClearLock, ClearKey, ClearDone
  <1>2. \A b \in Applier : b # a => pc[b] \in {"idle", "waiting"}
    BY <1>1, Alone DEF SafeInv, Clearing
  <1>3. Target(a) \in Gen /\ Target(a) # activeGen
    BY <1>1, TargetInactive
  <1>4. CASE ClearLock(a)
    BY <1>4 DEF SafeInv, MutexHeld, LoaderLock, Generations, StagedPrefix,
                ActiveComplete, NoResidue, WorksOn, Present, ClearLock, mapVars, callVars
  <1>5. CASE ClearKey(a)
    <2> USE DEF ClearKey, callVars
    <2>1. PICK k \in NextToDelete(Target(a)) :
              kmap' = [kmap EXCEPT ![Target(a)][k] = NoRule]
      BY <1>5
    <2>2. \A g \in Gen : g # Target(a) => kmap'[g] = kmap[g]
      BY <2>1 DEF SafeInv, TypeInv, TypeOK
    <2>3. \A g \in Gen : \A x \in Key : kmap'[g][x] # NoRule => kmap[g][x] # NoRule
      BY <1>3, <2>1 DEF SafeInv, TypeInv, TypeOK, Table
    <2>4. MutexHeld' /\ LoaderLock' /\ Generations'
      BY <1>5 DEF SafeInv, MutexHeld, LoaderLock, Generations
    <2>5. StagedPrefix'
      BY <1>1, <1>2, <1>5 DEF SafeInv, Clearing, StagedPrefix
    <2>6. ActiveComplete'
      BY <1>3, <1>5, <2>2 DEF SafeInv, TypeInv, TypeOK, ActiveComplete
    <2>7. NoResidue'
      <3>1. ASSUME NEW g \in Gen, Present(g, Key)' # {} PROVE Present(g, Key) # {}
        BY <2>3, <3>1 DEF Present
      <3> QED
        BY <1>5, <3>1 DEF SafeInv, NoResidue, WorksOn
    <2> QED
      BY <2>4, <2>5, <2>6, <2>7 DEF SafeInv
  <1>6. CASE ClearDone(a)
    <2> USE DEF ClearDone, Goto, mapVars
    <2>1. \A k \in Key : kmap[Target(a)][k] = NoRule
      BY <1>6 DEF Present
    <2>2. MutexHeld' /\ LoaderLock'
      BY <1>6, SentinelAssumption DEF SafeInv, TypeInv, TypeOK, MutexHeld, LoaderLock, Clearing
    <2>3. Generations'
      BY <1>1, <1>2, <1>6 DEF SafeInv, TypeInv, TypeOK, Generations, Clearing
    <2>4. StagedPrefix'
      <3>1. CASE pc[a] = "preclear"
        <4>1. Staged(kmap[nextGen[a]], policy[a], 0)
          BY <2>1, <3>1, StagedNothing DEF Target
        <4>2. policy[a] \in Seq(Entry)
          BY <3>1, PolicyAssumption DEF SafeInv, TypeInv, PolicyInHand
        <4>3. 0 <= Len(policy[a])
          BY <4>2
        <4> QED
          BY <1>2, <1>6, <3>1, <4>1, <4>3 DEF SafeInv, TypeInv, TypeOK, StagedPrefix
      <3>2. CASE pc[a] # "preclear"
        BY <1>2, <1>6, <3>2 DEF SafeInv, TypeInv, TypeOK, StagedPrefix
      <3> QED
        BY <3>1, <3>2
    <2>5. ActiveComplete'
      BY <1>6 DEF SafeInv, ActiveComplete
    <2>6. NoResidue'
      <3>1. SUFFICES ASSUME NEW g \in Gen \ {activeGen}, Present(g, Key) # {}
            PROVE  FALSE
        BY <1>6 DEF NoResidue, Present
      <3>2. PICK b \in Applier : WorksOn(b, g)
        BY <3>1 DEF SafeInv, NoResidue
      <3>3. b = a
        BY <1>2, <3>2 DEF WorksOn
      <3>4. g = Target(a)
        BY <1>1, <3>2, <3>3 DEF WorksOn, Target, Clearing
      <3> QED
        BY <1>6, <3>1, <3>4
    <2> QED
      BY <2>2, <2>3, <2>4, <2>5, <2>6 DEF SafeInv
  <1> QED
    BY <1>4, <1>5, <1>6 DEF Clear

(***************************************************************************)
(* Staging one entry extends the staged prefix, outside the active         *)
(* generation.                                                             *)
(***************************************************************************)
LEMMA SafeStageRule ==
    ASSUME OneSwapper, SafeInv, TypeInv', NEW a \in Applier, StageRule(a)
    PROVE  SafeInv'
  <1> USE DEF StageRule
  <1>1. \A b \in Applier : b # a => pc[b] \in {"idle", "waiting"}
    BY Alone DEF SafeInv
  <1>2. nextGen[a] \in Gen /\ nextGen[a] # activeGen
    BY NextGenFacts DEF SafeInv, TypeInv, TypeOK, Generations
  <1>3. \A g \in Gen : g # nextGen[a] => kmap'[g] = kmap[g]
    BY DEF SafeInv, TypeInv, TypeOK
  <1>4. MutexHeld' /\ LoaderLock' /\ Generations'
    BY DEF SafeInv, MutexHeld, LoaderLock, Generations
  <1>5. StagedPrefix'
    <2>1. policy[a] \in Seq(Entry) /\ pos[a] \in Nat
      BY PolicyAssumption DEF SafeInv, TypeInv, TypeOK, PolicyInHand
    <2>2. kmap[nextGen[a]] \in Table
      BY <1>2 DEF SafeInv, TypeInv, TypeOK
    <2>3. Staged([kmap[nextGen[a]] EXCEPT ![NextEntry(a).key] = NextEntry(a).rule],
                 policy[a], pos[a] + 1)
      BY <2>1, <2>2, StagedPut DEF NextEntry, SafeInv, StagedPrefix
    <2>4. kmap'[nextGen[a]] = [kmap[nextGen[a]] EXCEPT ![NextEntry(a).key] = NextEntry(a).rule]
      BY <1>2 DEF SafeInv, TypeInv, TypeOK
    <2>5. pos'[a] = pos[a] + 1
      BY DEF SafeInv, TypeInv, TypeOK
    <2>6. pos'[a] <= Len(policy[a])
      BY <2>1, <2>5
    <2> QED
      BY <1>1, <2>3, <2>4, <2>5, <2>6 DEF SafeInv, TypeInv, TypeOK, StagedPrefix
  <1>6. ActiveComplete'
    BY <1>2, <1>3 DEF SafeInv, TypeInv, TypeOK, ActiveComplete
  <1>7. NoResidue'
    <2>1. smu[SwapperOf[a]] = a
      BY DEF SafeInv, MutexHeld
    <2> QED
      BY <1>3, <2>1 DEF SafeInv, NoResidue, WorksOn, Present
  <1> QED
    BY <1>4, <1>5, <1>6, <1>7 DEF SafeInv

(***************************************************************************)
(* Both error paths of the staging part: on to the rollback.               *)
(***************************************************************************)
LEMMA SafeStageFail ==
    ASSUME OneSwapper, SafeInv, TypeInv', NEW a \in Applier,
           StageFail(a) \/ SetActiveGenerationFail(a)
    PROVE  SafeInv'
  <1> USE DEF StageFail, SetActiveGenerationFail, Goto, mapVars
  <1>1. MutexHeld' /\ LoaderLock' /\ Generations' /\ StagedPrefix'
    <2>1. MutexHeld' /\ LoaderLock'
      BY DEF SafeInv, TypeInv, TypeOK, MutexHeld, LoaderLock, Clearing
    <2>2. Generations'
      BY DEF SafeInv, TypeInv, TypeOK, Generations
    <2>3. StagedPrefix'
      BY DEF SafeInv, TypeInv, TypeOK, StagedPrefix
    <2> QED
      BY <2>1, <2>2, <2>3
  <1>2. ActiveComplete'
    BY DEF SafeInv, ActiveComplete
  <1>3. NoResidue'
    <2>1. \A b \in Applier : \A g \in Gen : WorksOn(b, g) => WorksOn(b, g)'
      BY SwapperAssumption DEF SafeInv, TypeInv, TypeOK, WorksOn
    <2> QED
      BY <2>1, ResidueFrame DEF SafeInv
  <1> QED
    BY <1>1, <1>2, <1>3 DEF SafeInv

(***************************************************************************)
(* The switch happens when all entries are staged: the new table is        *)
(* complete.                                                               *)
(***************************************************************************)
LEMMA SafeSetActiveGeneration ==
    ASSUME OneSwapper, SafeInv, TypeInv', NEW a \in Applier, SetActiveGeneration(a)
    PROVE  SafeInv'
  <1> USE DEF SetActiveGeneration, Goto
  <1>1. \A b \in Applier : b # a => pc[b] \in {"idle", "waiting"}
    BY Alone DEF SafeInv
  <1>2. nextGen[a] \in Gen /\ nextGen[a] # activeGen /\ curGen[a] = activeGen
    BY NextGenFacts DEF SafeInv, TypeInv, TypeOK, Generations
  <1>3. MutexHeld' /\ LoaderLock'
    BY DEF SafeInv, TypeInv, TypeOK, MutexHeld, LoaderLock, Clearing
  <1>4. Generations' /\ StagedPrefix'
    BY <1>1, <1>2 DEF SafeInv, TypeInv, TypeOK, Generations, StagedPrefix
  <1>5. ActiveComplete'
    BY DEF SafeInv, StagedPrefix, ActiveComplete, Realizes
  <1>6. NoResidue'
    <2>1. SUFFICES ASSUME NEW g \in Gen \ {nextGen[a]}, Present(g, Key) # {}
          PROVE  g = curGen[a]
      <3>1. WorksOn(a, curGen[a])'
        BY DEF SafeInv, TypeInv, TypeOK, MutexHeld, WorksOn
      <3>2. \A g \in Gen : Present(g, Key)' = Present(g, Key)
        BY DEF Present
      <3> QED
        BY <3>1, <3>2 DEF NoResidue
    <2>2. CASE g # activeGen
      <3>1. PICK b \in Applier : WorksOn(b, g)
        BY <2>1, <2>2 DEF SafeInv, NoResidue
      <3> QED
        BY <1>1, <2>1, <3>1 DEF WorksOn
    <2> QED
      BY <1>2, <2>2
  <1> QED
    BY <1>3, <1>4, <1>5, <1>6 DEF SafeInv

(***************************************************************************)
(* The caller leaves with both inactive work areas empty and frees the     *)
(* mutex.                                                                  *)
(***************************************************************************)
LEMMA SafeReturn ==
    ASSUME OneSwapper, SafeInv, TypeInv', NEW a \in Applier, Return(a)
    PROVE  SafeInv'
  <1> USE DEF Return, Goto, mapVars
  <1>1. \A b \in Applier : b # a => pc[b] \in {"idle", "waiting"}
    BY Alone DEF SafeInv
  <1>2. MutexHeld' /\ LoaderLock' /\ Generations' /\ StagedPrefix'
    <2>1. MutexHeld' /\ LoaderLock'
      BY <1>1 DEF SafeInv, TypeInv, TypeOK, MutexHeld, LoaderLock, Clearing
    <2>2. Generations'
      BY <1>1 DEF SafeInv, TypeInv, TypeOK, Generations
    <2>3. StagedPrefix'
      BY <1>1 DEF SafeInv, TypeInv, TypeOK, StagedPrefix
    <2> QED
      BY <2>1, <2>2, <2>3
  <1>3. ActiveComplete'
    BY DEF SafeInv, ActiveComplete
  <1>4. NoResidue'
    <2>1. \A b \in Applier : \A g \in Gen : WorksOn(b, g) => WorksOn(b, g)'
      BY <1>1, SwapperAssumption DEF SafeInv, TypeInv, TypeOK, WorksOn
    <2> QED
      BY <2>1, ResidueFrame DEF SafeInv
  <1> QED
    BY <1>2, <1>3, <1>4 DEF SafeInv

(***************************************************************************)
(* The XDP program only reads the maps.                                    *)
(***************************************************************************)
LEMMA XdpFrame ==
    ASSUME NEW c \in Cpu, XdpStep(c)
    PROVE  UNCHANGED <<mapVars, smu, lmu, callVars, installed>>
  BY DEF XdpStep, PacketArrives, LookupCgroup, LookupLpm, LookupPort, Lookup, PacketLeaves

(***************************************************************************)
(* Every step preserves the inductive invariant.                           *)
(***************************************************************************)
LEMMA SafeStep == OneSwapper /\ SafeInv /\ [Next]_vars => SafeInv'
  <1> SUFFICES ASSUME OneSwapper, SafeInv, [Next]_vars PROVE SafeInv'
    OBVIOUS
  <1>1. TypeInv'
    BY TypeStep DEF SafeInv
  <1>2. ASSUME NEW a \in Applier, Call(a) \/ ApplyStep(a) PROVE SafeInv'
    BY <1>1, <1>2, SafeCall, SafeLock, SafeReadGeneration, SafeClear, SafeStageRule,
       SafeStageFail, SafeSetActiveGeneration, SafeReturn
    DEF ApplyStep, Stage
  <1>3. ASSUME NEW c \in Cpu, XdpStep(c) PROVE SafeInv'
    BY <1>1, <1>3, XdpFrame, SafeFrame
  <1>4. CASE UNCHANGED vars
    BY <1>1, <1>4, SafeFrame DEF vars, mapVars, callVars
  <1> QED
    BY <1>2, <1>3, <1>4 DEF Next

(***************************************************************************)
(* The reload is atomic to the packet path: when all callers share one     *)
(* MapSwapper, the active generation always holds exactly the policy last  *)
(* switched to.                                                            *)
(***************************************************************************)
THEOREM ReloadComplete == OneSwapper => (Spec => []ActiveComplete)
  <1> SUFFICES ASSUME OneSwapper PROVE Spec => []ActiveComplete
    OBVIOUS
  <1>1. SafeInv /\ [Next]_vars => SafeInv'
    BY SafeStep
  <1>2. SafeInv => ActiveComplete
    BY DEF SafeInv
  <1> QED
    BY <1>1, <1>2, SafeInit, PTL DEF Spec

(***************************************************************************)
(* Failed and finished applies leave nothing behind in other generations.  *)
(***************************************************************************)
THEOREM ReloadLeavesNoResidue == OneSwapper => (Spec => []NoResidue)
  <1> SUFFICES ASSUME OneSwapper PROVE Spec => []NoResidue
    OBVIOUS
  <1>1. SafeInv /\ [Next]_vars => SafeInv'
    BY SafeStep
  <1>2. SafeInv => NoResidue
    BY DEF SafeInv
  <1> QED
    BY <1>1, <1>2, SafeInit, PTL DEF Spec

-----------------------------------------------------------------------------
(***************************************************************************)
(* Verdicts.  A packet keeps the generation it read, so nothing may be     *)
(* staged under that number while it is in the hook, unless the generation *)
(* counter has come round to the packet's number (lapped).                 *)
(***************************************************************************)
NotStagedUnder ==
    \A c \in Cpu, a \in Applier :
        xdp[c].at # "idle" /\ ~lapped[c] /\ pc[a] \in {"preclear", "staging"}
            => xdp[c].gen # nextGen[a]

(***************************************************************************)
(* The table a packet in flight looks up denies it only if a table active  *)
(* since it arrived does.                                                  *)
(***************************************************************************)
DropsKnown ==
    \A c \in Cpu :
        ~lapped[c] =>
            /\ xdp[c].at # "idle" /\ Drops(kmap[xdp[c].gen], xdp[c].pkt) => mayDrop[c]
            /\ xdp[c].at = "drop" => mayDrop[c]

HasPacket == \A c \in Cpu : xdp[c].at # "idle" => xdp[c].pkt \in Packet

DropInv == SafeInv /\ HasPacket /\ NotStagedUnder /\ DropsKnown

(***************************************************************************)
(* Deleting entries never makes a table drop a packet it let through.      *)
(***************************************************************************)
LEMMA DropClearKey ==
    ASSUME DropInv, SafeInv', NEW a \in Applier, ClearKey(a)
    PROVE  DropInv'
  <1> USE DEF ClearKey, callVars, packetVars
  <1>1. Target(a) \in Gen
    BY DEF DropInv, SafeInv, TypeInv, TypeOK, Target
  <1>2. PICK k \in NextToDelete(Target(a)) :
            kmap' = [kmap EXCEPT ![Target(a)][k] = NoRule]
    OBVIOUS
  <1>3. \A g \in Gen : \A x \in Key : kmap'[g][x] # NoRule => kmap'[g][x] = kmap[g][x]
    BY <1>1, <1>2 DEF DropInv, SafeInv, TypeInv, TypeOK, Table
  <1>4. HasPacket' /\ NotStagedUnder'
    BY DEF DropInv, HasPacket, NotStagedUnder
  <1>5. DropsKnown'
    <2>1. ASSUME NEW c \in Cpu, xdp[c].at # "idle", Drops(kmap'[xdp[c].gen], xdp[c].pkt)
          PROVE  Drops(kmap[xdp[c].gen], xdp[c].pkt)
      <3>1. xdp[c].gen \in Gen
        BY DEF DropInv, SafeInv, TypeInv, TypeOK, XdpState
      <3>2. xdp[c].pkt \in PacketFields
        BY <2>1, PacketAssumption DEF DropInv, HasPacket
      <3>3. \A x \in Key : kmap'[xdp[c].gen][x] # NoRule
                              => kmap'[xdp[c].gen][x] = kmap[xdp[c].gen][x]
        BY <1>3, <3>1
      <3> HIDE DEF ClearKey
      <3> QED
        BY <2>1, <3>2, <3>3, NoRuleAssumption
        DEF Drops, CgroupHit, LpmHit, PortDeny, PacketFields, Key
    <2>2. xdp' = xdp /\ mayDrop' = mayDrop /\ lapped' = lapped
      OBVIOUS
    <2> QED
      BY <2>1, <2>2 DEF DropInv, DropsKnown
  <1> QED
    BY <1>4, <1>5 DEF DropInv

(***************************************************************************)
(* Taking a generation number marks the packets that still hold it.        *)
(***************************************************************************)
LEMMA DropReadGeneration ==
    ASSUME DropInv, SafeInv', NEW a \in Applier, ReadGeneration(a)
    PROVE  DropInv'
  <1> USE DEF ReadGeneration, mapVars
  <1>1. /\ xdp' = xdp /\ mayDrop' = mayDrop /\ kmap' = kmap
        /\ \A c \in Cpu : /\ lapped[c] => lapped'[c]
                          /\ xdp[c].at # "idle" /\ xdp[c].gen = nextGen'[a] => lapped'[c]
    BY DEF InFlight
  <1>2. \A b \in Applier \ {a} : pc'[b] = pc[b] /\ nextGen'[b] = nextGen[b]
    BY DEF DropInv, SafeInv, TypeInv, TypeOK, Goto
  <1>3. NotStagedUnder'
    BY <1>1, <1>2 DEF DropInv, NotStagedUnder
  <1>4. HasPacket' /\ DropsKnown'
    BY <1>1 DEF DropInv, HasPacket, DropsKnown
  <1> QED
    BY <1>3, <1>4 DEF DropInv

(***************************************************************************)
(* Staging is invisible to packets: none of them holds nextGen.            *)
(***************************************************************************)
LEMMA DropStageRule ==
    ASSUME DropInv, SafeInv', NEW a \in Applier, StageRule(a)
    PROVE  DropInv'
  <1> USE DEF StageRule, packetVars
  <1>1. ASSUME NEW c \in Cpu, xdp[c].at # "idle", ~lapped[c]
        PROVE  kmap'[xdp[c].gen] = kmap[xdp[c].gen]
    <2>1. xdp[c].gen \in Gen
      BY DEF DropInv, SafeInv, TypeInv, TypeOK, XdpState
    <2>2. xdp[c].gen # nextGen[a]
      BY <1>1 DEF DropInv, NotStagedUnder
    <2> QED
      BY <2>1, <2>2 DEF DropInv, SafeInv, TypeInv, TypeOK
  <1>2. HasPacket' /\ NotStagedUnder'
    BY DEF DropInv, HasPacket, NotStagedUnder
  <1>3. DropsKnown'
    <2>1. xdp' = xdp /\ mayDrop' = mayDrop /\ lapped' = lapped
      OBVIOUS
    <2> QED
      BY <1>1, <2>1 DEF DropInv, DropsKnown
  <1> QED
    BY <1>2, <1>3 DEF DropInv

(***************************************************************************)
(* A switch can only add verdicts that count as justified.                 *)
(***************************************************************************)
LEMMA DropSetActiveGeneration ==
    ASSUME DropInv, SafeInv', NEW a \in Applier, SetActiveGeneration(a)
    PROVE  DropInv'
  <1> USE DEF SetActiveGeneration
  <1>1. /\ xdp' = xdp /\ kmap' = kmap /\ lapped' = lapped /\ nextGen' = nextGen
        /\ \A c \in Cpu : mayDrop[c] => mayDrop'[c]
    OBVIOUS
  <1>2. \A b \in Applier : pc'[b] \in {"preclear", "staging"} => pc[b] = pc'[b]
    BY DEF DropInv, SafeInv, TypeInv, TypeOK, Goto
  <1>3. NotStagedUnder'
    BY <1>1, <1>2 DEF DropInv, NotStagedUnder
  <1>4. HasPacket' /\ DropsKnown'
    BY <1>1 DEF DropInv, HasPacket, DropsKnown
  <1> QED
    BY <1>3, <1>4 DEF DropInv

(***************************************************************************)
(* A lookup drops only what the whole table would drop.                    *)
(***************************************************************************)
LEMMA DropLookup ==
    ASSUME DropInv, SafeInv', NEW c \in Cpu, NEW at, NEW hit, NEW miss,
           at # "idle", miss \in {"lpm", "port", "pass"}, Lookup(c, at, hit, miss),
           hit => Drops(kmap[xdp[c].gen], xdp[c].pkt)
    PROVE  DropInv'
  <1> USE DEF Lookup, mapVars, callVars
  <1>1. xdp \in [Cpu -> XdpState]
    BY DEF DropInv, SafeInv, TypeInv, TypeOK
  <1>2. \A d \in Cpu : /\ xdp'[d].pkt = xdp[d].pkt
                       /\ xdp'[d].gen = xdp[d].gen
                       /\ d # c => xdp'[d].at = xdp[d].at
    BY <1>1 DEF XdpState
  <1>3. xdp'[c].at = IF hit THEN "drop" ELSE miss
    BY <1>1 DEF XdpState
  <1>4. HasPacket' /\ NotStagedUnder'
    <2>1. \A d \in Cpu : xdp'[d].at # "idle" => xdp[d].at # "idle"
      BY <1>2
    <2>2. lapped' = lapped /\ pc' = pc /\ nextGen' = nextGen
      OBVIOUS
    <2> QED
      BY <1>2, <2>1, <2>2 DEF DropInv, HasPacket, NotStagedUnder
  <1>5. DropsKnown'
    <2>1. kmap' = kmap /\ mayDrop' = mayDrop /\ lapped' = lapped
      OBVIOUS
    <2>2. xdp[c].at # "idle"
      OBVIOUS
    <2> QED
      BY <1>2, <1>3, <2>1, <2>2 DEF DropInv, DropsKnown
  <1> QED
    BY <1>4, <1>5 DEF DropInv

(***************************************************************************)
(* Every stage of the XDP program preserves the packet invariant.          *)
(***************************************************************************)
LEMMA DropXdpStep ==
    ASSUME DropInv, SafeInv', NEW c \in Cpu, XdpStep(c)
    PROVE  DropInv'
  <1>1. CASE PacketArrives(c)
    <2> USE DEF PacketArrives, mapVars, callVars
    <2>1. PICK p \in Packet :
              /\ xdp' = [xdp EXCEPT ![c] = [pkt |-> p, gen |-> activeGen, at |-> "cgroup"]]
              /\ mayDrop' = [mayDrop EXCEPT ![c] = Drops(kmap[activeGen], p)]
      BY <1>1
    <2>2. /\ xdp \in [Cpu -> XdpState] /\ activeGen \in Gen
          /\ mayDrop \in [Cpu -> BOOLEAN] /\ lapped \in [Cpu -> BOOLEAN]
      BY DEF DropInv, SafeInv, TypeInv, TypeOK
    <2>3. /\ xdp'[c] = [pkt |-> p, gen |-> activeGen, at |-> "cgroup"]
          /\ mayDrop'[c] = Drops(kmap[activeGen], p)
          /\ \A d \in Cpu : d # c => /\ xdp'[d] = xdp[d]
                                     /\ mayDrop'[d] = mayDrop[d]
                                     /\ lapped'[d] = lapped[d]
      BY <1>1, <2>1, <2>2
    <2>4. HasPacket'
      BY <2>3 DEF DropInv, HasPacket
    <2>5. NotStagedUnder'
      <3>1. \A a \in Applier : pc[a] \in {"preclear", "staging"} => nextGen[a] # activeGen
        BY <2>2, NextGenFacts DEF DropInv, SafeInv, Generations
      <3> QED
        BY <1>1, <2>3, <3>1 DEF DropInv, NotStagedUnder
    <2>6. DropsKnown'
      BY <1>1, <2>3 DEF DropInv, DropsKnown
    <2> QED
      BY <2>4, <2>5, <2>6 DEF DropInv
  <1>2. CASE LookupCgroup(c)
    BY <1>2, DropLookup DEF LookupCgroup, Drops
  <1>3. CASE LookupLpm(c)
    BY <1>3, DropLookup DEF LookupLpm, Drops
  <1>4. CASE LookupPort(c)
    BY <1>4, DropLookup DEF LookupPort, Drops
  <1>5. CASE PacketLeaves(c)
    <2> USE DEF PacketLeaves, mapVars, callVars
    <2>1. /\ xdp'[c].at = "idle"
          /\ \A d \in Cpu : d # c => /\ xdp'[d] = xdp[d]
                                     /\ mayDrop'[d] = mayDrop[d]
                                     /\ lapped'[d] = lapped[d]
      BY <1>5 DEF DropInv, SafeInv, TypeInv, TypeOK, IdleXdp
    <2>2. HasPacket' /\ NotStagedUnder'
      BY <1>5, <2>1 DEF DropInv, HasPacket, NotStagedUnder
    <2>3. DropsKnown'
      BY <1>5, <2>1 DEF DropInv, DropsKnown
    <2> QED
      BY <2>2, <2>3 DEF DropInv
  <1> QED
    BY <1>1, <1>2, <1>3, <1>4, <1>5 DEF XdpStep

(***************************************************************************)
(* Steps that touch neither maps nor packets, and bring no applier to the  *)
(* clearing or staging of its nextGen, preserve the packet invariant.      *)
(***************************************************************************)
LEMMA DropFrame ==
    ASSUME DropInv, SafeInv', UNCHANGED <<mapVars, packetVars, nextGen>>,
           \A a \in Applier :
               pc'[a] \in {"preclear", "staging"} => pc[a] \in {"preclear", "staging"}
    PROVE  DropInv'
  BY DEF DropInv, HasPacket, NotStagedUnder, DropsKnown, mapVars, packetVars

(***************************************************************************)
(* Every step preserves the packet invariant.                              *)
(***************************************************************************)
LEMMA DropStep == OneSwapper /\ DropInv /\ [Next]_vars => DropInv'
  <1> SUFFICES ASSUME OneSwapper, DropInv, [Next]_vars PROVE DropInv'
    OBVIOUS
  <1>1. SafeInv' /\ pc \in [Applier -> Pc]
    BY SafeStep DEF DropInv, SafeInv, TypeInv, TypeOK
  <1>2. ASSUME NEW a \in Applier, Call(a) \/ Lock(a) \/ Return(a)
        PROVE  DropInv'
    BY <1>1, <1>2, DropFrame DEF Call, Lock, Return, Goto
  <1>3. ASSUME NEW a \in Applier, Clear(a) PROVE DropInv'
    <2>1. CASE ClearLock(a)
      BY <1>1, <2>1, DropFrame DEF ClearLock, callVars
    <2>2. CASE ClearDone(a)
      BY <1>1, <2>2, DropFrame DEF ClearDone, Clearing, Goto
    <2> QED
      BY <1>1, <1>3, <2>1, <2>2, DropClearKey DEF Clear
  <1>4. ASSUME NEW a \in Applier, Stage(a) PROVE DropInv'
    <2>1. CASE StageFail(a) \/ SetActiveGenerationFail(a)
      BY <1>1, <2>1, DropFrame DEF StageFail, SetActiveGenerationFail, Goto
    <2> QED
      BY <1>1, <1>4, <2>1, DropStageRule, DropSetActiveGeneration DEF Stage
  <1>5. ASSUME NEW c \in Cpu, XdpStep(c) PROVE DropInv'
    BY <1>1, <1>5, DropXdpStep
  <1>6. CASE UNCHANGED vars
    BY <1>1, <1>6, DropFrame DEF vars, mapVars, packetVars
  <1> QED
    BY <1>1, <1>2, <1>3, <1>4, <1>5, <1>6, DropReadGeneration DEF Next, ApplyStep

(***************************************************************************)
(* No packet is in the hook initially.                                     *)
(***************************************************************************)
LEMMA DropInit == Init => DropInv
  BY SafeInit DEF Init, DropInv, HasPacket, NotStagedUnder, DropsKnown, IdleXdp

(***************************************************************************)
(* A reload never drops a packet that no policy active during its stay in  *)
(* the hook denies, unless the generation counter overtook the packet.     *)
(***************************************************************************)
THEOREM ReloadDropsSound == OneSwapper => (Spec => []DropSound)
  <1> SUFFICES ASSUME OneSwapper PROVE Spec => []DropSound
    OBVIOUS
  <1>1. DropInv /\ [Next]_vars => DropInv'
    BY DropStep
  <1>2. DropInv => DropSound
    BY DEF DropInv, DropsKnown, DropSound
  <1> QED
    BY <1>1, <1>2, DropInit, PTL DEF Spec
-----------------------------------------------------------------------------
(***************************************************************************)
(* What a packet has learnt of the table it looks up, as long as that is   *)
(* the active one: the lookups it has behind it would miss again, and a    *)
(* table that lets the packet pass is known to.                            *)
(***************************************************************************)
LearntOf(x, t, known) ==
    /\ x.at \in {"lpm", "port", "pass"} => ~CgroupHit(t, x.pkt)
    /\ x.at \in {"port", "pass"} => ~LpmHit(t, x.pkt)
    /\ x.at = "pass" => ~PortDeny(t, x.pkt)
    /\ ~Drops(t, x.pkt) => known

PassKnown ==
    \A c \in Cpu :
        xdp[c].at # "idle" /\ xdp[c].gen = activeGen /\ ~lapped[c]
            => LearntOf(xdp[c], kmap[activeGen], mayPass[c])

PassInv == DropInv /\ PassKnown

(***************************************************************************)
(* A step that leaves the active table and the packets alone, and forgets  *)
(* nothing about them, preserves what they have learnt.                    *)
(***************************************************************************)
LEMMA PassFrame ==
    ASSUME PassKnown, activeGen' = activeGen, kmap'[activeGen] = kmap[activeGen],
           xdp' = xdp, mayPass' = mayPass, \A c \in Cpu : lapped[c] => lapped'[c]
    PROVE  PassKnown'
  BY DEF PassKnown

(***************************************************************************)
(* No applier disturbs a packet of the active generation: clearing,        *)
(* staging and rolling back touch another generation, and a switch is to a *)
(* generation whose number no packet holds unless it was lapped.           *)
(***************************************************************************)
LEMMA PassApplyStep ==
    ASSUME PassInv, OneSwapper, NEW a \in Applier, Call(a) \/ ApplyStep(a)
    PROVE  PassKnown'
  <1>0. PassKnown /\ SafeInv /\ NotStagedUnder
    BY DEF PassInv, DropInv
  <1>1. CASE Call(a) \/ Lock(a) \/ Return(a)
    BY <1>0, <1>1, PassFrame DEF Call, Lock, Return, mapVars, packetVars
  <1>2. CASE ReadGeneration(a)
    BY <1>0, <1>2, PassFrame DEF ReadGeneration, mapVars
  <1>3. CASE ClearLock(a) \/ ClearDone(a)
    BY <1>0, <1>3, PassFrame DEF ClearLock, ClearDone, mapVars, packetVars
  <1>4. CASE ClearKey(a)
    <2>1. Target(a) # activeGen /\ activeGen \in Gen /\ kmap \in [Gen -> Table]
      BY <1>0, <1>4, TargetInactive DEF ClearKey, SafeInv, TypeInv, TypeOK
    <2>2. PICK k \in NextToDelete(Target(a)) :
              kmap' = [kmap EXCEPT ![Target(a)][k] = NoRule]
      BY <1>4 DEF ClearKey
    <2>3. kmap'[activeGen] = kmap[activeGen]
      BY <2>1, <2>2
    <2> QED
      BY <1>0, <1>4, <2>3, PassFrame DEF ClearKey, packetVars
  <1>5. CASE StageRule(a)
    <2>1. nextGen[a] # activeGen /\ activeGen \in Gen /\ kmap \in [Gen -> Table]
      BY <1>0, <1>5, NextGenFacts DEF StageRule, SafeInv, Generations, TypeInv, TypeOK
    <2>2. kmap'[activeGen] = kmap[activeGen]
      BY <1>5, <2>1 DEF StageRule
    <2> QED
      BY <1>0, <1>5, <2>2, PassFrame DEF StageRule, packetVars
  <1>6. CASE StageFail(a) \/ SetActiveGenerationFail(a)
    BY <1>0, <1>6, PassFrame DEF StageFail, SetActiveGenerationFail, mapVars, packetVars
  <1>7. CASE SetActiveGeneration(a)
    <2>1. ASSUME NEW c \in Cpu, xdp[c].at # "idle", xdp[c].gen = nextGen[a] PROVE lapped[c]
      BY <1>0, <1>7, <2>1 DEF SetActiveGeneration, NotStagedUnder
    <2>2. activeGen' = nextGen[a] /\ xdp' = xdp /\ lapped' = lapped
      BY <1>7 DEF SetActiveGeneration
    <2> QED
      BY <2>1, <2>2 DEF PassKnown
  <1> QED
    BY <1>1, <1>2, <1>3, <1>4, <1>5, <1>6, <1>7 DEF ApplyStep, Clear, Stage

(***************************************************************************)
(* A lookup that misses adds what it found to what the packet has learnt.  *)
(***************************************************************************)
LEMMA PassLookup ==
    ASSUME PassInv, NEW c \in Cpu, NEW at, NEW hit, NEW miss, at # "idle",
           Lookup(c, at, hit, miss),
           LearntOf(xdp[c], kmap[xdp[c].gen], mayPass[c]) /\ ~hit
               => LearntOf([xdp[c] EXCEPT !.at = miss], kmap[xdp[c].gen], mayPass[c])
    PROVE  PassKnown'
  <1>1. xdp \in [Cpu -> XdpState]
    BY DEF PassInv, DropInv, SafeInv, TypeInv, TypeOK
  <1>2. /\ activeGen' = activeGen /\ kmap' = kmap /\ mayPass' = mayPass /\ lapped' = lapped
        /\ xdp[c].at # "idle"
    BY DEF Lookup, mapVars
  <1>3. \A d \in Cpu : d # c => xdp'[d] = xdp[d]
    BY <1>1 DEF Lookup
  <1>4. xdp'[c] = [xdp[c] EXCEPT !.at = IF hit THEN "drop" ELSE miss]
    BY <1>1 DEF Lookup
  <1>5. xdp'[c].gen = xdp[c].gen /\ xdp'[c].pkt = xdp[c].pkt
        /\ xdp'[c].at = IF hit THEN "drop" ELSE miss
    BY <1>1, <1>4 DEF XdpState
  <1>6. ASSUME xdp[c].gen = activeGen, ~lapped[c]
        PROVE  LearntOf(xdp'[c], kmap[activeGen], mayPass[c])
    <2>1. LearntOf(xdp[c], kmap[activeGen], mayPass[c])
      BY <1>2, <1>6 DEF PassInv, PassKnown
    <2>2. CASE hit
      BY <1>5, <2>1, <2>2 DEF LearntOf
    <2>3. CASE ~hit
      BY <1>4, <1>6, <2>1, <2>3
    <2> QED
      BY <2>2, <2>3
  <1> QED
    BY <1>2, <1>3, <1>5, <1>6 DEF PassInv, PassKnown

(***************************************************************************)
(* Every stage of the XDP program keeps what packets have learnt true.     *)
(***************************************************************************)
LEMMA PassXdpStep ==
    ASSUME PassInv, NEW c \in Cpu, XdpStep(c)
    PROVE  PassKnown'
  <1>0. /\ xdp \in [Cpu -> XdpState] /\ mayPass \in [Cpu -> BOOLEAN]
        /\ lapped \in [Cpu -> BOOLEAN]
    BY DEF PassInv, DropInv, SafeInv, TypeInv, TypeOK
  <1>1. CASE PacketArrives(c)
    <2>1. PICK p \in Packet :
              /\ xdp' = [xdp EXCEPT ![c] = [pkt |-> p, gen |-> activeGen, at |-> "cgroup"]]
              /\ mayPass' = [mayPass EXCEPT ![c] = ~Drops(kmap[activeGen], p)]
      BY <1>1 DEF PacketArrives
    <2>2. /\ xdp'[c] = [pkt |-> p, gen |-> activeGen, at |-> "cgroup"]
          /\ mayPass'[c] = ~Drops(kmap[activeGen], p)
          /\ kmap' = kmap /\ activeGen' = activeGen
          /\ \A d \in Cpu : d # c => /\ xdp'[d] = xdp[d]
                                     /\ mayPass'[d] = mayPass[d]
                                     /\ lapped'[d] = lapped[d]
      BY <1>0, <1>1, <2>1 DEF PacketArrives, mapVars
    <2>3. LearntOf(xdp'[c], kmap[activeGen], mayPass'[c])
      <3>1. xdp'[c].at = "cgroup" /\ xdp'[c].pkt = p
        BY <2>2
      <3>2. ~Drops(kmap[activeGen], p) => mayPass'[c]
        BY <2>2, Zenon
      <3> QED
        BY <3>1, <3>2 DEF LearntOf
    <2> QED
      BY <2>2, <2>3 DEF PassInv, PassKnown
  <1>2. ASSUME NEW m \in {"lpm", "port", "pass"}
        PROVE  /\ [xdp[c] EXCEPT !.at = m].at = m
               /\ [xdp[c] EXCEPT !.at = m].pkt = xdp[c].pkt
    BY <1>0 DEF XdpState
  <1>3. CASE LookupCgroup(c)
    BY <1>2, <1>3, PassLookup DEF LookupCgroup, LearntOf
  <1>4. CASE LookupLpm(c)
    BY <1>2, <1>4, PassLookup DEF LookupLpm, Lookup, LearntOf
  <1>5. CASE LookupPort(c)
    BY <1>2, <1>5, PassLookup DEF LookupPort, Lookup, LearntOf
  <1>6. CASE PacketLeaves(c)
    <2>1. /\ xdp'[c].at = "idle" /\ kmap' = kmap /\ activeGen' = activeGen
          /\ \A d \in Cpu : d # c => /\ xdp'[d] = xdp[d]
                                     /\ mayPass'[d] = mayPass[d]
                                     /\ lapped'[d] = lapped[d]
      BY <1>0, <1>6 DEF PacketLeaves, IdleXdp, mapVars
    <2> QED
      BY <2>1 DEF PassInv, PassKnown
  <1> QED
    BY <1>1, <1>3, <1>4, <1>5, <1>6 DEF XdpStep

(***************************************************************************)
(* A packet that passes while the generation it read is still active was   *)
(* let through by that policy: purging the old generation after a switch   *)
(* is the only way in which a reload makes a packet pass wrongly.          *)
(***************************************************************************)
THEOREM ReloadPassesSound == OneSwapper => (Spec => []PassSoundWhileActive)
  <1> SUFFICES ASSUME OneSwapper PROVE Spec => []PassSoundWhileActive
    OBVIOUS
  <1>1. Init => PassInv
    <2>1. Init => \A c \in Cpu : xdp[c].at = "idle"
      BY DEF Init, IdleXdp
    <2> QED
      BY <2>1, DropInit DEF PassInv, PassKnown
  <1>2. PassInv /\ [Next]_vars => PassInv'
    <2> SUFFICES ASSUME PassInv, [Next]_vars PROVE PassInv'
      OBVIOUS
    <2>1. DropInv'
      BY DropStep DEF PassInv
    <2>2. CASE UNCHANGED vars
      BY <2>1, <2>2, PassFrame DEF vars, PassInv, mapVars, packetVars
    <2> QED
      BY <2>1, <2>2, PassApplyStep, PassXdpStep DEF Next, PassInv
  <1>3. PassInv => PassSoundWhileActive
    BY DEF PassInv, PassKnown, PassSoundWhileActive, LearntOf, Drops
  <1> QED
    BY <1>1, <1>2, <1>3, PTL DEF Spec
=============================================================================
