-------------------------- MODULE DirectRulesProofs --------------------------
(***************************************************************************)
(* Proofs about DirectRules for every set of editors, appliers, CPUs,      *)
(* policies and keys, every map size and every number of edits.            *)
(***************************************************************************)
EXTENDS DirectRules, PolicyReloadProofs, FiniteSetTheorems

EditTypes ==
    /\ edit \in [Editor -> EditState]
    /\ edits \in 0..MaxEdits
    /\ edited \in [Key -> {"no", "added", "removed"}]

EditTypeInv == TypeInv /\ EditTypes

(***************************************************************************)
(* An edit that changes a map has a key of one of the two editable maps,   *)
(* and a generation.                                                       *)
(***************************************************************************)
LEMMA EditFacts ==
    ASSUME EditTypes, NEW e \in Editor, edit[e] # NoEdit
    PROVE  /\ edit[e].op \in {"add", "remove"}
           /\ edit[e].key \in Key
           /\ edit[e].gen \in Gen
  BY DEF EditTypes, EditState, Key

(***************************************************************************)
(* What a finished edit does: one entry of the generation it read becomes  *)
(* v, and the history notes its key.                                       *)
(***************************************************************************)
Edited(e, v, what) ==
    /\ edit[e] # NoEdit
    /\ kmap' = [kmap EXCEPT ![edit[e].gen][edit[e].key] = v]
    /\ Finish(e, what)

(***************************************************************************)
(* Both ways to finish an edit are of that form.                           *)
(***************************************************************************)
LEMMA FinishIsEdited ==
    ASSUME NEW e \in Editor, FinishAdd(e) \/ FinishRemove(e)
    PROVE  \E v \in Rule \cup {NoRule}, what \in {"added", "removed"} : Edited(e, v, what)
  <1>1. CASE FinishAdd(e)
    <2>1. edit[e] # NoEdit
      BY <1>1 DEF FinishAdd, NoEdit
    <2>2. Edited(e, EditRule, "added")
      BY <1>1, <2>1 DEF FinishAdd, Edited
    <2> QED
      BY <2>2, EditAssumption
  <1>2. CASE FinishRemove(e)
    <2>1. edit[e] # NoEdit
      BY <1>2 DEF FinishRemove, NoEdit
    <2>2. Edited(e, NoRule, "removed")
      BY <1>2, <2>1 DEF FinishRemove, Edited
    <2> QED
      BY <2>2
  <1> QED
    BY <1>1, <1>2

(***************************************************************************)
(* A finished edit keeps the types.                                        *)
(***************************************************************************)
LEMMA EditedTypes ==
    ASSUME EditTypeInv, NEW e \in Editor, NEW v \in Rule \cup {NoRule},
           NEW what \in {"added", "removed"}, Edited(e, v, what)
    PROVE  EditTypeInv'
  <1>1. edit[e].key \in Key /\ edit[e].gen \in Gen
    BY EditFacts DEF EditTypeInv, Edited
  <1>2. kmap' \in [Gen -> Table]
    BY <1>1 DEF Edited, EditTypeInv, TypeInv, TypeOK, Table
  <1>3. EditTypes'
    BY <1>1 DEF Edited, Finish, EditTypeInv, EditTypes, EditState
  <1>4. mayDrop' \in [Cpu -> BOOLEAN] /\ mayPass' \in [Cpu -> BOOLEAN]
    BY DEF Edited, Finish, Observe, InFlight, Drops
  <1>5. TypeInv'
    BY <1>2, <1>4 DEF Edited, Finish, Observe, callVars, EditTypeInv, TypeInv, TypeOK, PolicyInHand
  <1> QED
    BY <1>3, <1>5 DEF EditTypeInv

(***************************************************************************)
(* Beginning an edit and giving it up change the editor only.              *)
(***************************************************************************)
LEMMA EditorOnly ==
    ASSUME EditTypeInv, NEW e \in Editor, BeginEdit(e) \/ EditFails(e)
    PROVE  EditTypeInv' /\ UNCHANGED <<vars, edited>>
  <1>1. UNCHANGED <<vars, edited>>
    BY DEF BeginEdit, EditFails
  <1>2. TypeInv'
    BY <1>1, TypeStep DEF EditTypeInv
  <1>3. EditTypes'
    <2>1. CASE BeginEdit(e)
      <3>1. edit' \in [Editor -> EditState]
        BY <2>1 DEF BeginEdit, EditTypeInv, EditTypes, EditState, TypeInv, TypeOK
      <3>2. edits' \in 0..MaxEdits
        BY <2>1, EditAssumption DEF BeginEdit, EditTypeInv, EditTypes
      <3> QED
        BY <1>1, <3>1, <3>2 DEF EditTypeInv, EditTypes
    <2>2. CASE EditFails(e)
      BY <1>1, <2>2 DEF EditFails, EditTypeInv, EditTypes, EditState
    <2> QED
      BY <2>1, <2>2
  <1> QED
    BY <1>1, <1>2, <1>3 DEF EditTypeInv

(***************************************************************************)
(* Every step of a reload, a packet or an edit keeps the types.            *)
(***************************************************************************)
LEMMA EditTypeStep == EditTypeInv /\ [EditNext]_allVars => EditTypeInv'
  <1> SUFFICES ASSUME EditTypeInv, [EditNext]_allVars PROVE EditTypeInv'
    OBVIOUS
  <1>1. CASE ReloadStep
    <2>1. TypeInv'
      BY <1>1, TypeStep DEF ReloadStep, EditTypeInv
    <2> QED
      BY <1>1, <2>1 DEF ReloadStep, EditTypeInv, EditTypes
  <1>2. ASSUME NEW e \in Editor, EditStep(e) PROVE EditTypeInv'
    BY <1>2, EditorOnly, FinishIsEdited, EditedTypes DEF EditStep
  <1>3. CASE UNCHANGED allVars
    <2>1. TypeInv'
      BY <1>3, TypeStep DEF allVars, EditTypeInv
    <2> QED
      BY <1>3, <2>1 DEF allVars, editVars, EditTypeInv, EditTypes
  <1> QED
    BY <1>1, <1>2, <1>3 DEF EditNext

(***************************************************************************)
(* No edit is under way initially.                                         *)
(***************************************************************************)
LEMMA EditTypeInit == EditInit => EditTypeInv
  BY TypeInit, EditAssumption DEF EditInit, EditTypeInv, EditTypes, EditState

(***************************************************************************)
(* Every reachable state with direct edits is well typed: edits store      *)
(* rules under generations and keys of the maps only.                      *)
(***************************************************************************)
THEOREM EditTypeCorrect == EditSpec => []EditTypeOK
  <1>1. EditTypeInv => EditTypeOK
    BY DEF EditTypeInv, TypeInv, EditTypes, EditTypeOK
  <1> QED
    BY <1>1, EditTypeInit, EditTypeStep, PTL DEF EditSpec

-----------------------------------------------------------------------------
(***************************************************************************)
(* No generation number is used twice: fewer calls than generations.  With *)
(* an edit delayed until its generation number comes round again (2^32     *)
(* reloads), the edit would land in the generation being staged.           *)
(***************************************************************************)
NoReuse == MaxApplies < GenCount

(***************************************************************************)
(* The part of PolicyReload's invariant that edits do not disturb.  Its    *)
(* NoResidue does not survive them: a late edit leaves an entry in a       *)
(* generation nobody works on.                                             *)
(***************************************************************************)
Control == TypeInv /\ MutexHeld /\ LoaderLock /\ Generations

(***************************************************************************)
(* The callers that may still switch, counted against the calls made.      *)
(***************************************************************************)
Pending == {a \in Applier : pc[a] \in {"waiting", "locked", "preclear", "staging"}}

Counted == IsFiniteSet(Pending) /\ activeGen + Cardinality(Pending) <= applies

(***************************************************************************)
(* An edit under way has read the active generation or an earlier one.     *)
(***************************************************************************)
EditsPast == \A e \in Editor : edit[e] # NoEdit => edit[e].gen <= activeGen

EditInv ==
    /\ EditTypeInv
    /\ Control
    /\ Counted
    /\ StagedPrefix
    /\ EditsPast
    /\ UneditedComplete

(***************************************************************************)
(* Steps of the appliers keep the control part; the cases follow           *)
(* SafeStep's.                                                             *)
(***************************************************************************)
LEMMA ControlStep ==
    ASSUME OneSwapper, Control, TypeInv', NEW a \in Applier, Call(a) \/ ApplyStep(a)
    PROVE  Control'
  <1> USE DEF Goto, mapVars, callVars
  <1>1. pc[a] \notin {"idle", "waiting"} =>
            \A b \in Applier : b # a => pc[b] \in {"idle", "waiting"}
    BY Alone DEF Control
  <1>2. CASE Call(a)
    BY <1>2 DEF Call, Control, TypeInv, TypeOK, MutexHeld, LoaderLock, Clearing, Generations
  <1>3. CASE Lock(a)
    <2>1. \A b \in Applier : b # a => pc[b] \in {"idle", "waiting"}
      BY <1>3, SentinelAssumption DEF Lock, Control, MutexHeld, OneSwapper
    <2>2. MutexHeld'
      BY <1>3, <2>1, SwapperAssumption DEF Lock, Control, TypeInv, TypeOK, MutexHeld
    <2>3. LoaderLock' /\ Generations'
      BY <1>3 DEF Lock, Control, TypeInv, TypeOK, LoaderLock, Clearing, Generations
    <2> QED
      BY <2>2, <2>3 DEF Control
  <1>4. CASE ReadGeneration(a)
    <2>1. MutexHeld' /\ LoaderLock'
      BY <1>4 DEF ReadGeneration, Control, TypeInv, TypeOK, MutexHeld, LoaderLock, Clearing
    <2>2. Generations'
      BY <1>1, <1>4 DEF ReadGeneration, Control, TypeInv, TypeOK, Generations
    <2> QED
      BY <2>1, <2>2 DEF Control
  <1>5. CASE ClearLock(a)
    BY <1>5 DEF ClearLock, Control, MutexHeld, LoaderLock, Generations
  <1>6. CASE ClearKey(a)
    BY <1>6 DEF ClearKey, Control, MutexHeld, LoaderLock, Generations
  <1>7. CASE ClearDone(a)
    <2>1. MutexHeld' /\ LoaderLock'
      BY <1>7, SentinelAssumption
      DEF ClearDone, Control, TypeInv, TypeOK, MutexHeld, LoaderLock, Clearing
    <2>2. Generations'
      BY <1>1, <1>7 DEF ClearDone, Control, TypeInv, TypeOK, Generations, Clearing
    <2> QED
      BY <2>1, <2>2 DEF Control
  <1>8. CASE StageRule(a)
    BY <1>8 DEF StageRule, Control, MutexHeld, LoaderLock, Generations
  <1>9. CASE StageFail(a) \/ SetActiveGenerationFail(a)
    <2>1. MutexHeld' /\ LoaderLock'
      BY <1>9 DEF StageFail, SetActiveGenerationFail, Control, TypeInv, TypeOK, MutexHeld,
                  LoaderLock, Clearing
    <2>2. Generations'
      BY <1>9 DEF StageFail, SetActiveGenerationFail, Control, TypeInv, TypeOK, Generations
    <2> QED
      BY <2>1, <2>2 DEF Control
  <1>10. CASE SetActiveGeneration(a)
    <2>1. nextGen[a] \in Gen /\ nextGen[a] # activeGen /\ curGen[a] = activeGen
      BY <1>10, NextGenFacts DEF SetActiveGeneration, Control, TypeInv, TypeOK, Generations
    <2>2. MutexHeld' /\ LoaderLock'
      BY <1>10 DEF SetActiveGeneration, Control, TypeInv, TypeOK, MutexHeld, LoaderLock, Clearing
    <2>3. Generations'
      BY <1>1, <1>10, <2>1 DEF SetActiveGeneration, Control, TypeInv, TypeOK, Generations
    <2> QED
      BY <2>2, <2>3 DEF Control
  <1>11. CASE Return(a)
    <2>1. MutexHeld' /\ LoaderLock'
      BY <1>1, <1>11 DEF Return, Control, TypeInv, TypeOK, MutexHeld, LoaderLock, Clearing
    <2>2. Generations'
      BY <1>1, <1>11 DEF Return, Control, TypeInv, TypeOK, Generations
    <2> QED
      BY <2>1, <2>2 DEF Control
  <1> QED
    BY <1>2, <1>3, <1>4, <1>5, <1>6, <1>7, <1>8, <1>9, <1>10, <1>11
    DEF ApplyStep, Clear, Stage

(***************************************************************************)
(* While a caller may still switch, the next generation is a new number.   *)
(***************************************************************************)
LEMMA NoWrap ==
    ASSUME NoReuse, Control, Counted, NEW a \in Pending
    PROVE  (activeGen + 1) % GenCount = activeGen + 1
  <1>1. Cardinality(Pending) \in Nat /\ Cardinality(Pending) # 0
    BY FS_CardinalityType, FS_EmptySet DEF Counted
  <1>2. activeGen \in Nat /\ applies \in Nat /\ applies <= MaxApplies
    BY BoundAssumption, GenAssumption DEF Control, TypeInv, TypeOK, Gen
  <1>3. activeGen + 1 < GenCount
    BY <1>1, <1>2, BoundAssumption, GenAssumption DEF Counted, NoReuse
  <1> QED
    BY <1>2, <1>3, GenAssumption

(***************************************************************************)
(* Every call counts until it switches, fails or returns.                  *)
(***************************************************************************)
LEMMA CountedStep ==
    ASSUME NoReuse, Control, TypeInv', Counted, NEW a \in Applier, Call(a) \/ ApplyStep(a)
    PROVE  Counted'
  <1> USE DEF Goto, mapVars, callVars
  <1>1. /\ activeGen \in Nat /\ applies \in Nat /\ pc \in [Applier -> Pc]
        /\ IsFiniteSet(Pending) /\ Cardinality(Pending) \in Nat
    BY BoundAssumption, GenAssumption, FS_CardinalityType
    DEF Control, TypeInv, TypeOK, Gen, Counted
  <1>2. CASE Call(a)
    <2>1. Pending' = Pending \cup {a} /\ a \notin Pending
      BY <1>1, <1>2 DEF Call, Pending
    <2>2. IsFiniteSet(Pending') /\ Cardinality(Pending') = Cardinality(Pending) + 1
      BY <1>1, <2>1, FS_AddElement
    <2>3. activeGen' = activeGen /\ applies' = applies + 1
      BY <1>2 DEF Call
    <2> QED
      BY <1>1, <2>2, <2>3 DEF Counted
  <1>3. CASE SetActiveGeneration(a)
    <2>1. Pending' = Pending \ {a} /\ a \in Pending
      BY <1>1, <1>3 DEF SetActiveGeneration, Pending
    <2>2. IsFiniteSet(Pending') /\ Cardinality(Pending') = Cardinality(Pending) - 1
      BY <1>1, <2>1, FS_RemoveElement
    <2>3. activeGen' = activeGen + 1
      BY <1>3, <2>1, NoWrap DEF SetActiveGeneration, Control, Generations
    <2>4. applies' = applies
      BY <1>3 DEF SetActiveGeneration
    <2> QED
      BY <1>1, <2>2, <2>3, <2>4 DEF Counted
  <1>4. CASE StageFail(a) \/ SetActiveGenerationFail(a)
    <2>1. Pending' = Pending \ {a} /\ a \in Pending
      BY <1>1, <1>4 DEF StageFail, SetActiveGenerationFail, Pending
    <2>2. IsFiniteSet(Pending') /\ Cardinality(Pending') = Cardinality(Pending) - 1
      BY <1>1, <2>1, FS_RemoveElement
    <2>3. activeGen' = activeGen /\ applies' = applies
      BY <1>4 DEF StageFail, SetActiveGenerationFail
    <2> QED
      BY <1>1, <2>2, <2>3 DEF Counted
  <1>5. CASE Lock(a) \/ ReadGeneration(a) \/ Clear(a) \/ StageRule(a) \/ Return(a)
    <2>1. Pending' = Pending
      <3>1. CASE Lock(a) \/ ReadGeneration(a)
        BY <1>1, <3>1 DEF Lock, ReadGeneration, Pending
      <3>2. CASE Clear(a)
        BY <1>1, <3>2 DEF Clear, ClearLock, ClearKey, ClearDone, Clearing, Pending
      <3>3. CASE StageRule(a) \/ Return(a)
        BY <1>1, <3>3 DEF StageRule, Return, Pending
      <3> QED
        BY <1>5, <3>1, <3>2, <3>3
    <2>2. activeGen' = activeGen /\ applies' = applies
      BY <1>5 DEF Lock, ReadGeneration, Clear, ClearLock, ClearKey, ClearDone, StageRule, Return
    <2> QED
      BY <2>1, <2>2 DEF Counted
  <1> QED
    BY <1>2, <1>3, <1>4, <1>5 DEF ApplyStep, Stage

(***************************************************************************)
(* The entries staged so far are those of the policy.                      *)
(***************************************************************************)
LEMMA StagedStep ==
    ASSUME OneSwapper, Control, StagedPrefix, NEW a \in Applier, Call(a) \/ ApplyStep(a)
    PROVE  StagedPrefix'
  <1> USE DEF Goto, mapVars, callVars
  <1>1. pc[a] \notin {"idle", "waiting"} =>
            \A b \in Applier : b # a => pc[b] \in {"idle", "waiting"}
    BY Alone DEF Control
  <1>2. CASE Call(a)
    BY <1>2 DEF Call, Control, TypeInv, TypeOK, StagedPrefix
  <1>3. CASE Lock(a)
    BY <1>3 DEF Lock, Control, TypeInv, TypeOK, StagedPrefix
  <1>4. CASE ReadGeneration(a)
    BY <1>1, <1>4 DEF ReadGeneration, Control, TypeInv, TypeOK, StagedPrefix
  <1>5. CASE ClearLock(a)
    BY <1>5 DEF ClearLock, StagedPrefix
  <1>6. CASE ClearKey(a)
    BY <1>1, <1>6 DEF ClearKey, Clearing, StagedPrefix
  <1>7. CASE ClearDone(a)
    <2>1. \A k \in Key : kmap[Target(a)][k] = NoRule
      BY <1>7 DEF ClearDone, Present
    <2>2. \A b \in Applier : b # a => pc[b] \in {"idle", "waiting"}
      BY <1>1, <1>7 DEF ClearDone, Clearing
    <2>3. CASE pc[a] = "preclear"
      <3>1. Staged(kmap[nextGen[a]], policy[a], 0)
        BY <2>1, <2>3, StagedNothing DEF Target
      <3>2. policy[a] \in Seq(Entry)
        BY <2>3, PolicyAssumption DEF Control, TypeInv, PolicyInHand
      <3>3. 0 <= Len(policy[a])
        BY <3>2
      <3> QED
        BY <1>7, <2>2, <2>3, <3>1, <3>3 DEF ClearDone, Control, TypeInv, TypeOK, StagedPrefix
    <2>4. CASE pc[a] # "preclear"
      BY <1>7, <2>2, <2>4 DEF ClearDone, Control, TypeInv, TypeOK, StagedPrefix
    <2> QED
      BY <2>3, <2>4
  <1>8. CASE StageRule(a)
    <2>1. policy[a] \in Seq(Entry) /\ pos[a] \in Nat /\ pc[a] = "staging" /\ pos[a] < Len(policy[a])
      BY <1>8, PolicyAssumption DEF StageRule, Control, TypeInv, TypeOK, PolicyInHand
    <2>2. nextGen[a] \in Gen /\ kmap[nextGen[a]] \in Table
      BY DEF Control, TypeInv, TypeOK
    <2>3. Staged([kmap[nextGen[a]] EXCEPT ![NextEntry(a).key] = NextEntry(a).rule],
                 policy[a], pos[a] + 1)
      BY <2>1, <2>2, StagedPut DEF NextEntry, StagedPrefix
    <2>4. kmap'[nextGen[a]] = [kmap[nextGen[a]] EXCEPT ![NextEntry(a).key] = NextEntry(a).rule]
      BY <1>8, <2>2 DEF StageRule, Control, TypeInv, TypeOK
    <2>5. pos'[a] = pos[a] + 1
      BY <1>8 DEF StageRule, Control, TypeInv, TypeOK
    <2>6. pos'[a] <= Len(policy[a])
      BY <2>1, <2>5
    <2> QED
      BY <1>1, <1>8, <2>3, <2>4, <2>5, <2>6 DEF StageRule, Control, TypeInv, TypeOK, StagedPrefix
  <1>9. CASE StageFail(a) \/ SetActiveGenerationFail(a)
    BY <1>9 DEF StageFail, SetActiveGenerationFail, Control, TypeInv, TypeOK, StagedPrefix
  <1>10. CASE SetActiveGeneration(a)
    BY <1>1, <1>10 DEF SetActiveGeneration, Control, TypeInv, TypeOK, StagedPrefix
  <1>11. CASE Return(a)
    BY <1>1, <1>11 DEF Return, Control, TypeInv, TypeOK, StagedPrefix
  <1> QED
    BY <1>2, <1>3, <1>4, <1>5, <1>6, <1>7, <1>8, <1>9, <1>10, <1>11
    DEF ApplyStep, Clear, Stage

(***************************************************************************)
(* Reloads and packets leave the active generation alone, except for the   *)
(* switch to a complete one.                                               *)
(***************************************************************************)
LEMMA UneditedStep ==
    ASSUME EditInv, NEW a \in Applier, Call(a) \/ ApplyStep(a),
           edited' = IF activeGen' # activeGen THEN [k \in Key |-> "no"] ELSE edited
    PROVE  UneditedComplete'
  <1> USE DEF Goto, mapVars, callVars
  <1>1. activeGen \in Gen /\ kmap \in [Gen -> Table]
    BY DEF EditInv, Control, TypeInv, TypeOK
  <1>2. CASE SetActiveGeneration(a)
    <2>1. Staged(kmap'[activeGen'], installed', Len(installed'))
      BY <1>2 DEF SetActiveGeneration, EditInv, StagedPrefix
    <2> QED
      BY <2>1 DEF Staged, UneditedComplete
  <1>3. CASE ~SetActiveGeneration(a)
    <2>1. activeGen' = activeGen /\ installed' = installed
      BY <1>3 DEF Call, ApplyStep, Lock, ReadGeneration, Clear, ClearLock, ClearKey, ClearDone,
                  Stage, StageRule, StageFail, SetActiveGenerationFail, Return
    <2>2. kmap'[activeGen] = kmap[activeGen]
      <3>1. CASE ClearKey(a)
        <4>1. Target(a) \in Gen /\ Target(a) # activeGen
          BY <3>1, NextGenFacts
          DEF ClearKey, EditInv, Control, TypeInv, TypeOK, Generations, Clearing, Target
        <4> QED
          BY <1>1, <3>1, <4>1 DEF ClearKey
      <3>2. CASE StageRule(a)
        <4>1. nextGen[a] \in Gen /\ nextGen[a] # activeGen
          BY <3>2, NextGenFacts DEF StageRule, EditInv, Control, TypeInv, TypeOK, Generations
        <4> QED
          BY <1>1, <3>2, <4>1 DEF StageRule
      <3>3. CASE ~ClearKey(a) /\ ~StageRule(a)
        BY <1>3, <3>3 DEF Call, ApplyStep, Lock, ReadGeneration, Clear, ClearLock, ClearDone,
                          Stage, StageFail, SetActiveGenerationFail, Return
      <3> QED
        BY <3>1, <3>2, <3>3
    <2>3. edited' = edited
      BY <2>1
    <2> QED
      BY <2>1, <2>2, <2>3 DEF EditInv, UneditedComplete
  <1> QED
    BY <1>2, <1>3

(***************************************************************************)
(* The active generation only grows.                                       *)
(***************************************************************************)
LEMMA EditsPastStep ==
    ASSUME NoReuse, EditInv, NEW a \in Applier, Call(a) \/ ApplyStep(a), edit' = edit
    PROVE  EditsPast'
  <1>1. CASE SetActiveGeneration(a)
    <2>1. a \in Pending
      BY <1>1 DEF SetActiveGeneration, Pending
    <2>2. activeGen' = activeGen + 1
      BY <1>1, <2>1, NoWrap DEF SetActiveGeneration, EditInv, Control, Generations
    <2>3. activeGen \in Nat /\ \A e \in Editor : edit[e] # NoEdit => edit[e].gen \in Nat
      BY GenAssumption, EditFacts DEF EditInv, EditTypeInv, TypeInv, TypeOK, Gen
    <2> QED
      BY <2>2, <2>3 DEF EditInv, EditsPast
  <1>2. CASE ~SetActiveGeneration(a)
    <2>1. activeGen' = activeGen
      BY <1>2 DEF Call, ApplyStep, Lock, ReadGeneration, Clear, ClearLock, ClearKey, ClearDone,
                  Stage, StageRule, StageFail, SetActiveGenerationFail, Return, mapVars
    <2> QED
      BY <2>1 DEF EditInv, EditsPast
  <1> QED
    BY <1>1, <1>2

(***************************************************************************)
(* A finished edit touches one key of one generation that nobody stages    *)
(* under, and notes the key when that generation is the active one.        *)
(***************************************************************************)
LEMMA EditedInv ==
    ASSUME NoReuse, EditInv, EditTypeInv', NEW e \in Editor, NEW v \in Rule \cup {NoRule},
           NEW what \in {"added", "removed"}, Edited(e, v, what)
    PROVE  EditInv'
  <1>1. /\ edit[e].key \in Key /\ edit[e].gen \in Gen
        /\ edit[e].gen <= activeGen
    BY EditFacts DEF EditInv, EditTypeInv, EditsPast, Edited
  <1>2. /\ kmap' = [kmap EXCEPT ![edit[e].gen][edit[e].key] = v]
        /\ edited' = [edited EXCEPT ![edit[e].key] = what]
        /\ edit' = [edit EXCEPT ![e] = NoEdit]
        /\ UNCHANGED <<activeGen, smu, lmu, callVars, installed>>
    BY DEF Edited, Finish
  <1>3. Control'
    BY <1>2 DEF EditTypeInv, EditInv, Control, MutexHeld, LoaderLock, Generations, callVars
  <1>4. Counted'
    BY <1>2 DEF EditInv, Counted, Pending, callVars
  <1>5. /\ activeGen \in Gen /\ kmap \in [Gen -> Table]
        /\ edited \in [Key -> {"no", "added", "removed"}]
    BY DEF EditInv, EditTypeInv, EditTypes, TypeInv, TypeOK
  <1>6. StagedPrefix'
    <2>1. ASSUME NEW a \in Applier, pc[a] = "staging"
          PROVE  kmap'[nextGen[a]] = kmap[nextGen[a]]
      <3>1. a \in Pending
        BY <2>1 DEF Pending
      <3>2. nextGen[a] \in Gen /\ nextGen[a] = activeGen + 1
        BY <2>1, <3>1, NoWrap DEF EditInv, Control, TypeInv, TypeOK, Generations
      <3>3. nextGen[a] # edit[e].gen
        BY <1>1, <1>5, <3>2, GenAssumption DEF Gen
      <3> QED
        BY <1>2, <1>5, <3>2, <3>3
    <2> QED
      BY <1>2, <2>1 DEF EditInv, StagedPrefix, callVars
  <1>7. EditsPast'
    BY <1>2 DEF EditInv, EditTypeInv, EditTypes, EditsPast
  <1>8. UneditedComplete'
    <2>1. SUFFICES ASSUME NEW k \in Key, edited'[k] = "no"
                   PROVE  StagedAt(kmap'[activeGen], installed, Len(installed), k)
      BY <1>2 DEF UneditedComplete
    <2>2. k # edit[e].key /\ edited[k] = "no"
      BY <1>1, <1>2, <1>5, <2>1
    <2>3. kmap'[activeGen][k] = kmap[activeGen][k]
      BY <1>1, <1>2, <1>5, <2>2 DEF Table
    <2> QED
      BY <2>2, <2>3 DEF EditInv, UneditedComplete, StagedAt
  <1> QED
    BY <1>3, <1>4, <1>6, <1>7, <1>8 DEF EditInv

(***************************************************************************)
(* A step that leaves maps and appliers alone, and whose editors hold the  *)
(* active generation or what they held before.                             *)
(***************************************************************************)
LEMMA EditFrame ==
    ASSUME EditInv, EditTypeInv', UNCHANGED <<mapVars, smu, lmu, callVars, installed, edited>>,
           \A e \in Editor : \/ edit'[e] = edit[e] \/ edit'[e] = NoEdit
                             \/ edit'[e].gen = activeGen
    PROVE  EditInv'
  <1> USE DEF mapVars, callVars
  <1>1. Control'
    BY DEF EditInv, EditTypeInv, Control, MutexHeld, LoaderLock, Generations
  <1>2. Counted' /\ StagedPrefix' /\ UneditedComplete'
    BY DEF EditInv, Counted, Pending, StagedPrefix, UneditedComplete
  <1>3. activeGen \in Nat
    BY GenAssumption DEF EditInv, Control, TypeInv, TypeOK, Gen
  <1>4. EditsPast'
    BY <1>3 DEF EditInv, EditsPast
  <1> QED
    BY <1>1, <1>2, <1>4 DEF EditInv

(***************************************************************************)
(* Every step preserves the invariant.                                     *)
(***************************************************************************)
LEMMA EditInvStep == OneSwapper /\ NoReuse /\ EditInv /\ [EditNext]_allVars => EditInv'
  <1> SUFFICES ASSUME OneSwapper, NoReuse, EditInv, [EditNext]_allVars PROVE EditInv'
    OBVIOUS
  <1>1. EditTypeInv'
    BY EditTypeStep DEF EditInv
  <1>2. ASSUME NEW a \in Applier, Call(a) \/ ApplyStep(a), ReloadStep PROVE EditInv'
    <2>1. Control'
      BY <1>1, <1>2, ControlStep DEF EditInv, EditTypeInv
    <2>2. Counted' /\ StagedPrefix'
      BY <1>1, <1>2, CountedStep, StagedStep DEF EditInv, EditTypeInv
    <2>3. EditsPast' /\ UneditedComplete'
      BY <1>2, EditsPastStep, UneditedStep DEF ReloadStep
    <2> QED
      BY <1>1, <2>1, <2>2, <2>3 DEF EditInv
  <1>3. ASSUME NEW c \in Cpu, XdpStep(c), ReloadStep PROVE EditInv'
    BY <1>1, <1>3, XdpFrame, EditFrame DEF ReloadStep, mapVars
  <1>4. ASSUME NEW e \in Editor, BeginEdit(e) \/ EditFails(e) PROVE EditInv'
    <2>1. UNCHANGED <<mapVars, smu, lmu, callVars, installed, edited>>
      BY <1>4 DEF BeginEdit, EditFails, vars, mapVars, callVars
    <2>2. \A d \in Editor : \/ edit'[d] = edit[d] \/ edit'[d] = NoEdit
                            \/ edit'[d].gen = activeGen
      BY <1>4 DEF BeginEdit, EditFails, EditInv, EditTypeInv, EditTypes
    <2> QED
      BY <1>1, <2>1, <2>2, EditFrame
  <1>5. ASSUME NEW e \in Editor, FinishAdd(e) \/ FinishRemove(e) PROVE EditInv'
    BY <1>1, <1>5, FinishIsEdited, EditedInv
  <1>6. CASE UNCHANGED allVars
    BY <1>1, <1>6, EditFrame DEF allVars, editVars, vars, mapVars, callVars
  <1>7. CASE ReloadStep
    BY <1>2, <1>3, <1>7 DEF ReloadStep, Next
  <1> QED
    BY <1>4, <1>5, <1>6, <1>7 DEF EditNext, EditStep

(***************************************************************************)
(* Initially every map is empty and nobody calls or edits.                 *)
(***************************************************************************)
LEMMA EditInvInit == EditInit => EditInv
  <1> SUFFICES ASSUME EditInit PROVE EditInv
    OBVIOUS
  <1>1. EditTypeInv /\ SafeInv
    BY EditTypeInit, SafeInit DEF EditInit
  <1>2. Pending = {}
    BY DEF EditInit, Init, Pending
  <1>3. Counted
    BY <1>2, FS_EmptySet DEF EditInit, Init, Counted
  <1>4. EditsPast
    BY DEF EditInit, EditsPast
  <1>5. UneditedComplete
    BY <1>1 DEF SafeInv, ActiveComplete, Realizes, Staged, UneditedComplete
  <1> QED
    BY <1>1, <1>3, <1>4, <1>5 DEF EditInv, Control, SafeInv

(***************************************************************************)
(* Edits and reloads do not corrupt each other's entries, when all callers *)
(* share one MapSwapper and no generation number is used twice.            *)
(***************************************************************************)
THEOREM UneditedCompleteHolds == OneSwapper /\ NoReuse => (EditSpec => []UneditedComplete)
  <1> SUFFICES ASSUME OneSwapper, NoReuse PROVE EditSpec => []UneditedComplete
    OBVIOUS
  <1>1. EditInv /\ [EditNext]_allVars => EditInv'
    BY EditInvStep
  <1>2. EditInv => UneditedComplete
    BY DEF EditInv
  <1> QED
    BY <1>1, <1>2, EditInvInit, PTL DEF EditSpec
=============================================================================
