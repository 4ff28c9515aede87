---------------------------- MODULE AtomicPolicy ----------------------------
(***************************************************************************)
(* What a policy reload promises: the table that decides packets changes   *)
(* only in one step, from the table of one policy to the complete table of *)
(* the policy being applied; a request is either installed or rejected,    *)
(* and a rejected one changes nothing.                                     *)
(***************************************************************************)
EXTENDS PolicyTable

CONSTANTS
    Applier,    \* the callers of ApplyPolicyAtomic
    NoPolicy

VARIABLES
    table,      \* the rules packets are judged by
    request,    \* request[a]: the policy a asks for, or NoPolicy
    status      \* "none", "pending", "installed" or "rejected"

vars == <<table, request, status>>

Init ==
    /\ table = EmptyTable
    /\ request = [a \in Applier |-> NoPolicy]
    /\ status = [a \in Applier |-> "none"]

Submit(a) ==
    /\ status[a] = "none"
    /\ \E p \in Policy : request' = [request EXCEPT ![a] = p]
    /\ status' = [status EXCEPT ![a] = "pending"]
    /\ UNCHANGED table

Install(a) ==
    /\ status[a] = "pending"
    /\ table' \in Table
    /\ Realizes(table', request[a])
    /\ status' = [status EXCEPT ![a] = "installed"]
    /\ UNCHANGED request

Reject(a) ==
    /\ status[a] = "pending"
    /\ status' = [status EXCEPT ![a] = "rejected"]
    /\ UNCHANGED <<table, request>>

Reply(a) ==
    /\ status[a] \in {"installed", "rejected"}
    /\ status' = [status EXCEPT ![a] = "none"]
    /\ request' = [request EXCEPT ![a] = NoPolicy]
    /\ UNCHANGED table

Next == \E a \in Applier : Submit(a) \/ Install(a) \/ Reject(a) \/ Reply(a)

Safety == Init /\ [][Next]_vars
=============================================================================
