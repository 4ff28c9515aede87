------------------------ MODULE PolicyReloadRefines ------------------------
(***************************************************************************)
(* PolicyReload implements the safety part of AtomicPolicy: seen through   *)
(* the active generation, ApplyPolicyAtomic is one atomic step.            *)
(***************************************************************************)
EXTENDS PolicyReloadProofs

(***************************************************************************)
(* Nothing abstract changes unless the policies, the statuses or the       *)
(* active table do.                                                        *)
(***************************************************************************)
LEMMA AbstractStutter ==
    ASSUME kmap'[activeGen'] = kmap[activeGen], policy' = policy,
           \A b \in Applier : Status(b)' = Status(b)
    PROVE  UNCHANGED Atomic!vars
  BY DEF Atomic!vars

(***************************************************************************)
(* Empty maps and no caller: the abstract initial state.                   *)
(***************************************************************************)
LEMMA InitRefines == Init => Atomic!Init
  <1> SUFFICES ASSUME Init PROVE Atomic!Init
    OBVIOUS
  <1>1. 0 \in Gen
    BY GenAssumption DEF Gen
  <1>2. kmap[activeGen] = EmptyTable
    BY <1>1 DEF Init
  <1>3. \A a \in Applier : Status(a) = "none"
    BY DEF Init, Status
  <1> QED
    BY <1>2, <1>3 DEF Init, Atomic!Init, Atomic!EmptyTable, EmptyTable, Atomic!Key, Key

(***************************************************************************)
(* A call is the abstract request.                                         *)
(***************************************************************************)
LEMMA CallRefines ==
    ASSUME SafeInv, NEW a \in Applier, Call(a)
    PROVE  Atomic!Submit(a)
  <1> USE DEF Call, Goto, mapVars
  <1>1. \A b \in Applier : Status(b)' = IF b = a THEN "pending" ELSE Status(b)
    BY DEF SafeInv, TypeInv, TypeOK, Status
  <1>2. Status(a) = "none"
    BY DEF Status
  <1> QED
    BY <1>1, <1>2 DEF Atomic!Submit

(***************************************************************************)
(* Taking the mutex and reading the generation are invisible.              *)
(***************************************************************************)
LEMMA LockRefines ==
    ASSUME SafeInv, NEW a \in Applier, Lock(a) \/ ReadGeneration(a)
    PROVE  UNCHANGED Atomic!vars
  <1> USE DEF Lock, ReadGeneration, Goto, mapVars
  <1>1. \A b \in Applier : Status(b)' = Status(b)
    BY DEF SafeInv, TypeInv, TypeOK, Status
  <1> QED
    BY <1>1, AbstractStutter

(***************************************************************************)
(* Clearing an inactive generation is invisible.                           *)
(***************************************************************************)
LEMMA ClearRefines ==
    ASSUME SafeInv, NEW a \in Applier, Clear(a)
    PROVE  UNCHANGED Atomic!vars
  <1>1. pc[a] \in Clearing
    BY DEF Clear, ClearLock, ClearKey, ClearDone
  <1>2. CASE ClearLock(a)
    BY <1>2, AbstractStutter DEF ClearLock, Status, mapVars, callVars
  <1>3. CASE ClearKey(a)
    <2>1. Target(a) \in Gen /\ Target(a) # activeGen
      BY <1>1, TargetInactive
    <2>2. kmap'[activeGen] = kmap[activeGen]
      BY <1>3, <2>1 DEF ClearKey, SafeInv, TypeInv, TypeOK
    <2> QED
      BY <1>3, <2>2, AbstractStutter DEF ClearKey, Status, callVars
  <1>4. CASE ClearDone(a)
    <2>1. \A b \in Applier : Status(b)' = Status(b)
      BY <1>4 DEF ClearDone, Clearing, Goto, mapVars, SafeInv, TypeInv, TypeOK, Status
    <2> QED
      BY <1>4, <2>1, AbstractStutter DEF ClearDone, mapVars
  <1> QED
    BY <1>2, <1>3, <1>4 DEF Clear

(***************************************************************************)
(* Staging an entry is invisible.                                          *)
(***************************************************************************)
LEMMA StageRuleRefines ==
    ASSUME SafeInv, NEW a \in Applier, StageRule(a)
    PROVE  UNCHANGED Atomic!vars
  <1> USE DEF StageRule
  <1>1. nextGen[a] # activeGen
    BY NextGenFacts DEF SafeInv, TypeInv, TypeOK, Generations
  <1>2. kmap'[activeGen] = kmap[activeGen]
    BY <1>1 DEF SafeInv, TypeInv, TypeOK
  <1> QED
    BY <1>2, AbstractStutter DEF Status

(***************************************************************************)
(* A failure while staging or switching is the abstract rejection.         *)
(***************************************************************************)
LEMMA StageFailRefines ==
    ASSUME SafeInv, NEW a \in Applier, StageFail(a) \/ SetActiveGenerationFail(a)
    PROVE  Atomic!Reject(a)
  <1> USE DEF StageFail, SetActiveGenerationFail, Goto, mapVars
  <1>1. nextGen[a] # activeGen
    BY NextGenFacts DEF SafeInv, TypeInv, TypeOK, Generations
  <1>2. \A b \in Applier : Status(b)' = IF b = a THEN "rejected" ELSE Status(b)
    BY <1>1 DEF SafeInv, TypeInv, TypeOK, Status
  <1>3. Status(a) = "pending"
    BY DEF Status
  <1> QED
    BY <1>2, <1>3 DEF Atomic!Reject

(***************************************************************************)
(* The switch is the abstract installation of the whole policy.            *)
(***************************************************************************)
LEMMA SetActiveGenerationRefines ==
    ASSUME OneSwapper, SafeInv, NEW a \in Applier, SetActiveGeneration(a)
    PROVE  Atomic!Install(a)
  <1> USE DEF SetActiveGeneration, Goto
  <1>1. \A b \in Applier : b # a => pc[b] \in {"idle", "waiting"}
    BY Alone DEF SafeInv
  <1>2. \A b \in Applier : Status(b)' = IF b = a THEN "installed" ELSE Status(b)
    BY <1>1 DEF SafeInv, TypeInv, TypeOK, Status
  <1>3. Status(a) = "pending"
    BY DEF Status
  <1>4. kmap'[activeGen'] = kmap[nextGen[a]]
    OBVIOUS
  <1>5. kmap[nextGen[a]] \in Table
    BY DEF SafeInv, TypeInv, TypeOK
  <1>6. Staged(kmap[nextGen[a]], policy[a], Len(policy[a]))
    BY DEF SafeInv, StagedPrefix
  <1>7. Atomic!Realizes(kmap'[activeGen'], policy[a])
    BY <1>4, <1>6 DEF Atomic!Realizes, Atomic!Staged, Atomic!StagedAt, Atomic!Key,
           Staged, StagedAt, Key
  <1>8. kmap'[activeGen'] \in Atomic!Table
    BY <1>4, <1>5 DEF Table, Key, Atomic!Table, Atomic!Key
  <1> QED
    BY <1>2, <1>3, <1>7, <1>8 DEF Atomic!Install

(***************************************************************************)
(* The return to the caller is the abstract reply.                         *)
(***************************************************************************)
LEMMA ReturnRefines ==
    ASSUME SafeInv, NEW a \in Applier, Return(a)
    PROVE  Atomic!Reply(a)
  <1> USE DEF Return, Goto, mapVars
  <1>1. \A b \in Applier : Status(b)' = IF b = a THEN "none" ELSE Status(b)
    BY DEF SafeInv, TypeInv, TypeOK, Status
  <1>2. Status(a) \in {"installed", "rejected"}
    BY DEF Status
  <1> QED
    BY <1>1, <1>2 DEF Atomic!Reply

(***************************************************************************)
(* Every step is an abstract step or invisible.                            *)
(***************************************************************************)
LEMMA StepRefines ==
    OneSwapper /\ SafeInv /\ [Next]_vars => [Atomic!Next]_(Atomic!vars)
  <1> SUFFICES ASSUME OneSwapper, SafeInv, [Next]_vars
      PROVE  Atomic!Next \/ UNCHANGED Atomic!vars
    OBVIOUS
  <1>1. ASSUME NEW a \in Applier, Call(a) \/ ApplyStep(a)
        PROVE  Atomic!Next \/ UNCHANGED Atomic!vars
    BY <1>1, CallRefines, LockRefines, ClearRefines, StageRuleRefines, StageFailRefines,
       SetActiveGenerationRefines, ReturnRefines
    DEF ApplyStep, Stage, Atomic!Next
  <1>2. ASSUME NEW c \in Cpu, XdpStep(c) PROVE UNCHANGED Atomic!vars
    BY <1>2, XdpFrame, AbstractStutter DEF mapVars, callVars, Status
  <1>3. CASE UNCHANGED vars
    BY <1>3, AbstractStutter DEF vars, Status
  <1> QED
    BY <1>1, <1>2, <1>3 DEF Next

(***************************************************************************)
(* With one MapSwapper, ApplyPolicyAtomic is atomic: every behaviour of    *)
(* the reload is, through the active generation, a behaviour in which each *)
(* request is installed whole in one step or rejected without effect.      *)
(***************************************************************************)
THEOREM ReloadRefinesAtomic == OneSwapper => (Spec => AtomicReload)
  <1> SUFFICES ASSUME OneSwapper PROVE Spec => AtomicReload
    OBVIOUS
  <1>1. SafeInv /\ [Next]_vars => SafeInv'
    BY SafeStep
  <1>2. SafeInv /\ [Next]_vars => [Atomic!Next]_(Atomic!vars)
    BY StepRefines
  <1> QED
    BY <1>1, <1>2, SafeInit, InitRefines, PTL DEF Spec, AtomicReload, Atomic!Safety
=============================================================================
