----------------------------- MODULE DirectRules -----------------------------
(***************************************************************************)
(* The loader's direct edits of the active generation (AddBlockCIDR,       *)
(* RemoveBlockCIDR, AddCgroupIdentity, RemoveCgroupIdentity and            *)
(* AddCgroupPathBlock in pkg/bpf/loader.go), running beside policy         *)
(* reloads.  The agent's main() adds its -block-cidr and -block-cgroup     *)
(* rules this way after the control server has started serving reloads.    *)
(* Every edit reads the active generation under l.mu, releases l.mu, and   *)
(* takes it again to change one map entry of that generation.              *)
(***************************************************************************)
EXTENDS PolicyReload

CONSTANTS
    Editor,     \* goroutines that edit rules directly
    EditRule,   \* the rule id they store
    MaxEdits    \* bound: number of edits

ASSUME EditAssumption == EditRule \in Rule /\ MaxEdits \in Nat

VARIABLES
    edit,       \* each editor's operation, its key and the generation it read
    edits,      \* edits begun so far
    edited      \* history: what was done to each key since the last switch

editVars == <<edit, edits, edited>>
allVars == <<vars, editVars>>

NoEdit == [op |-> "none", key |-> NoRule, gen |-> 0]

EditState == [op : {"add", "remove"}, key : Cidr \cup Cgroup, gen : Gen] \cup {NoEdit}

EditTypeOK ==
    /\ TypeOK
    /\ edit \in [Editor -> EditState]
    /\ edits \in 0..MaxEdits
    /\ edited \in [Key -> {"no", "added", "removed"}]

EditInit ==
    /\ Init
    /\ edit = [e \in Editor |-> NoEdit]
    /\ edits = 0
    /\ edited = [k \in Key |-> "no"]

-----------------------------------------------------------------------------
BeginEdit_NextGen(e) ==
    /\ edit[e] = NoEdit
    /\ edits < MaxEdits
    /\ lmu = Free
    /\ \E o \in {"add", "remove"}, k \in Cidr \cup Cgroup :
          edit' = [edit EXCEPT ![e] = [op |-> o, key |-> k, gen |-> activeGen + 1]]
    /\ edits' = edits + 1
    /\ UNCHANGED <<vars, edited>>

(***************************************************************************)
(* gen, _ := l.GetActiveGeneration()                                       *)
(***************************************************************************)
BeginEdit(e) ==
    /\ edit[e] = NoEdit
    /\ edits < MaxEdits
    /\ lmu = Free
    /\ \E o \in {"add", "remove"}, k \in Cidr \cup Cgroup :
          edit' = [edit EXCEPT ![e] = [op |-> o, key |-> k, gen |-> activeGen]]
    /\ edits' = edits + 1
    /\ UNCHANGED <<vars, edited>>

(***************************************************************************)
(* The history flags of the packets in flight after an edit.               *)
(***************************************************************************)
Observe ==
    /\ mayDrop' = [c \in Cpu |-> mayDrop[c] \/ (InFlight(c) /\ Drops(kmap'[activeGen], xdp[c].pkt))]
    /\ mayPass' = [c \in Cpu |-> mayPass[c] \/ (InFlight(c) /\ ~Drops(kmap'[activeGen], xdp[c].pkt))]
    /\ UNCHANGED <<xdp, lapped>>

Finish(e, what) ==
    /\ edited' = [edited EXCEPT ![edit[e].key] = what]
    /\ edit' = [edit EXCEPT ![e] = NoEdit]
    /\ Observe
    /\ UNCHANGED <<activeGen, smu, lmu, callVars, installed, edits>>

FinishAdd_NextGen(e) ==
    /\ edit[e].op = "add"
    /\ lmu = Free
    /\ edit[e].key \notin Unsupported
    /\ HasRoom(edit[e].gen, edit[e].key)
    /\ kmap' = [kmap EXCEPT ![(edit[e].gen + 1) % GenCount][edit[e].key] = EditRule]
    /\ Finish(e, "added")

(***************************************************************************)
(* The Put of the entry under the generation read before.                  *)
(***************************************************************************)
FinishAdd(e) ==
    /\ edit[e].op = "add"
    /\ lmu = Free
    /\ edit[e].key \notin Unsupported
    /\ HasRoom(edit[e].gen, edit[e].key)
    /\ kmap' = [kmap EXCEPT ![edit[e].gen][edit[e].key] = EditRule]
    /\ Finish(e, "added")

(***************************************************************************)
(* The Delete of the entry; a missing one is an error (EditFails).         *)
(***************************************************************************)
FinishRemove(e) ==
    /\ edit[e].op = "remove"
    /\ lmu = Free
    /\ kmap[edit[e].gen][edit[e].key] # NoRule
    /\ kmap' = [kmap EXCEPT ![edit[e].gen][edit[e].key] = NoRule]
    /\ Finish(e, "removed")

(***************************************************************************)
(* The edit returns an error: IPv6 CIDR, full map, unresolved cgroup path, *)
(* nothing to delete.  (RemoveBlockCIDR does not check for IPv6 as         *)
(* AddBlockCIDR does and panics there; no caller passes it one.)           *)
(***************************************************************************)
EditFails(e) ==
    /\ edit[e] # NoEdit
    /\ lmu = Free
    /\ edit' = [edit EXCEPT ![e] = NoEdit]
    /\ UNCHANGED <<vars, edits, edited>>

EditStep(e) == BeginEdit(e) \/ FinishAdd(e) \/ FinishRemove(e) \/ EditFails(e)

(***************************************************************************)
(* A step of the reload; a switch starts the history of edits afresh.      *)
(***************************************************************************)
ReloadStep ==
    /\ Next
    /\ edited' = IF activeGen' # activeGen THEN [k \in Key |-> "no"] ELSE edited
    /\ UNCHANGED <<edit, edits>>

EditNext == ReloadStep \/ \E e \in Editor : EditStep(e)

EditSpec == EditInit /\ [][EditNext]_allVars

-----------------------------------------------------------------------------
(***************************************************************************)
(* Edits and reloads do not corrupt each other's entries: a key nobody     *)
(* edited since the last switch holds what the installed policy says, even *)
(* when an edit was begun before the switch, or before a staging under a   *)
(* cleared generation, and finishes after it.  (An edit that slept while   *)
(* the uint32 generation came round again would be an exception; the       *)
(* bounds of the run leave it out.)                                        *)
(***************************************************************************)
UneditedComplete ==
    \A k \in Key :
        edited[k] = "no" => StagedAt(kmap[activeGen], installed, Len(installed), k)

(***************************************************************************)
(* "AddBlockCIDR inserts an IPv4 CIDR block rule into the LPM trie map for *)
(* active generation" (loader.go:125; the same for the other four): an     *)
(* edit that succeeded is in force until a later switch replaces the       *)
(* rules.                                                                  *)
(***************************************************************************)
EditsTakeEffect ==
    \A k \in Key : /\ edited[k] = "added" => kmap[activeGen][k] # NoRule
                   /\ edited[k] = "removed" => kmap[activeGen][k] = NoRule
=============================================================================
