---------------------------- MODULE ControlServer ----------------------------
(***************************************************************************)
(* The agent's control plane: ControlServer (pkg/control/server.go) on its *)
(* Unix socket, one goroutine per connection, the role of the peer         *)
(* (pkg/security/peercred.go, rbac.go), the clients of pkg/control/        *)
(* client.go, and the commands.  ApplyPolicyAtomic is one step that        *)
(* installs a policy or fails, which is what PolicyReload is proved to     *)
(* implement.                                                              *)
(***************************************************************************)
EXTENDS PolicyCompiler, FiniteSetsExt

CONSTANTS
    Conn,        \* connections, each used once
    Peer,        \* credentials of the processes that connect: uid and gid
    Nobody,      \* the credentials assumed when SO_PEERCRED fails
    Unsupported, \* keys of CIDRs that StageCIDRRule refuses (IPv6)
    Registered,  \* uids that may be registered with AddAdminUID and AddOperatorUID
    Request,     \* what clients send
    None

ASSUME PeerAssumption ==
    /\ Peer \subseteq [uid : Nat, gid : Nat]
    /\ Nobody \in [uid : Nat, gid : Nat]
    /\ Registered \subseteq Nat

Command == {"apply_policy", "get_status", "dump_maps", "other"}

(***************************************************************************)
(* A request: the command, whether it is spelled in lower case, and the    *)
(* policy sent with it.                                                    *)
(***************************************************************************)
IsRequest(r) ==
    /\ r \in [command : Command, lower : BOOLEAN, source : Source \cup {None}]
    /\ r.source = None <=> r.command # "apply_policy"

ASSUME RequestAssumption == None \notin Request /\ \A r \in Request : IsRequest(r)

VARIABLES
    listening,  \* the listener accepts connections
    live,       \* the agent's context is not cancelled
    adminUIDs, operatorUIDs,
    generation, \* the active generation
    table,      \* its rules
    conn,       \* where each connection's goroutine is
    installs    \* history: who installed what as generation 1, 2, ...

vars == <<listening, live, adminUIDs, operatorUIDs, generation, table, conn, installs>>

Role == {"Admin", "Operator", "Viewer"}

Response == [success : BOOLEAN, gen : Nat]

Failure == [success |-> FALSE, gen |-> 0]

(***************************************************************************)
(* The locals of a connection's goroutine, and the generation that was     *)
(* active when it was accepted.                                            *)
(***************************************************************************)
Fresh == [at |-> "new", peer |-> None, role |-> None, req |-> None, resp |-> None, since |-> 0]

Closed == [Fresh EXCEPT !.at = "closed"]

Stage == {"new", "accepted", "decoding", "received", "allowed", "apply", "reply", "closed"}

TypeOK ==
    /\ listening \in BOOLEAN /\ live \in BOOLEAN
    /\ adminUIDs \subseteq Nat /\ operatorUIDs \subseteq Nat
    /\ generation \in Nat
    /\ table \in Table
    /\ \A c \in Conn :
          /\ conn[c].at \in Stage
          /\ conn[c].peer \in Peer \cup {Nobody, None}
          /\ conn[c].role \in Role \cup {None}
          /\ conn[c].req \in Request \cup {None}
          /\ conn[c].resp \in Response \cup {None}
          /\ conn[c].at \in {"apply", "allowed", "received"} => conn[c].req \in Request
          /\ conn[c].since \in 0..generation
    /\ Len(installs) = generation

Init ==
    /\ listening = TRUE
    /\ live = TRUE
    /\ adminUIDs = {0}
    /\ operatorUIDs = {}
    /\ generation = 0
    /\ table = EmptyTable
    /\ conn = [c \in Conn |-> Fresh]
    /\ installs = <<>>

server == <<listening, live>>
rbac == <<adminUIDs, operatorUIDs>>
rules == <<generation, table, installs>>

Step(c, from, next) ==
    /\ conn[c].at = from
    /\ conn' = [conn EXCEPT ![c] = next]

-----------------------------------------------------------------------------
(***************************************************************************)
(* ResolveRole: uid rules first, then gid rules (root and sudo).           *)
(***************************************************************************)
AdminGIDs == {0, 27}

ResolveRole_AnyoneOperates(peer) ==
    IF peer.uid \in adminUIDs \/ peer.gid \in AdminGIDs THEN "Admin" ELSE "Operator"

ResolveRole(peer) ==
    IF peer.uid \in adminUIDs THEN "Admin"
    ELSE IF peer.uid \in operatorUIDs THEN "Operator"
    ELSE IF peer.gid \in AdminGIDs THEN "Admin" ELSE "Viewer"

(***************************************************************************)
(* EvaluatePermission compares the command in lower case.                  *)
(***************************************************************************)
Permitted(role, command) ==
    \/ command = "apply_policy" /\ role \in {"Admin", "Operator"}
    \/ command \in {"get_status", "dump_maps"}

AddAdminUID(u) ==
    /\ adminUIDs' = adminUIDs \cup {u}
    /\ UNCHANGED <<server, operatorUIDs, rules, conn>>

AddOperatorUID(u) ==
    /\ operatorUIDs' = operatorUIDs \cup {u}
    /\ UNCHANGED <<server, adminUIDs, rules, conn>>

-----------------------------------------------------------------------------
(***************************************************************************)
(* A client dials and the accept loop starts a goroutine for it.           *)
(***************************************************************************)
Accept(c) ==
    /\ listening
    /\ \E p \in Peer : Step(c, "new", 
                                 [Fresh EXCEPT !.at = "accepted", !.peer = p, !.since = generation])
    /\ UNCHANGED <<server, rbac, rules>>

(***************************************************************************)
(* GetPeerCredentials and the role that goes with them; without            *)
(* credentials the caller is a Viewer.                                     *)
(***************************************************************************)
Identify(c) ==
    /\ \/ Step(c, "accepted", [conn[c] EXCEPT !.at = "decoding", !.role = ResolveRole(conn[c].peer)])
       \/ Step(c, "accepted", [conn[c] EXCEPT !.at = "decoding", !.peer = Nobody, !.role = "Viewer"])
    /\ UNCHANGED <<server, rbac, rules>>

Respond(c, from, resp) ==
    Step(c, from, [conn[c] EXCEPT !.at = "reply", !.resp = resp])

(***************************************************************************)
(* The client's request is decoded; or it is no JSON, which is answered;   *)
(* or the client closed without sending one.                               *)
(***************************************************************************)
Receive(c) ==
    /\ \E r \in Request : Step(c, "decoding", [conn[c] EXCEPT !.at = "received", !.req = r])
    /\ UNCHANGED <<server, rbac, rules>>

ReceiveGarbage(c) ==
    /\ Respond(c, "decoding", Failure)
    /\ UNCHANGED <<server, rbac, rules>>

ReceiveNothing_FallsThrough(c) ==
    /\ Step(c, "decoding", [conn[c] EXCEPT !.at = "received"])
    /\ UNCHANGED <<server, rbac, rules>>

ReceiveNothing(c) ==
    /\ Step(c, "decoding", Closed)
    /\ UNCHANGED <<server, rbac, rules>>

(***************************************************************************)
(* The RBAC check of handleConnection, with the role found before the      *)
(* request was read.                                                       *)
(***************************************************************************)
Authorize(c) ==
    /\ conn[c].at = "received"
    /\ IF Permitted(conn[c].role, conn[c].req.command)
       THEN Step(c, "received", [conn[c] EXCEPT !.at = "allowed"])
       ELSE Respond(c, "received", Failure)
    /\ UNCHANGED <<server, rbac, rules>>

(***************************************************************************)
(* processRequest switches on the command as it was sent.  A policy is     *)
(* parsed, validated and compiled before it is applied.                    *)
(***************************************************************************)
Dispatch(c) ==
    /\ conn[c].at = "allowed"
    /\ LET r == conn[c].req IN
       IF ~r.lower \/ r.command = "other"
       THEN Respond(c, "allowed", Failure)
       ELSE IF r.command = "apply_policy"
       THEN IF Validate(r.source)
            THEN Step(c, "allowed", [conn[c] EXCEPT !.at = "apply"])
            ELSE Respond(c, "allowed", Failure)
       ELSE Respond(c, "allowed", [success |-> TRUE, gen |-> generation])
    /\ UNCHANGED <<server, rbac, rules>>

(***************************************************************************)
(* ApplyPolicyAtomic: all entries staged, the last one of a key deciding,  *)
(* and the new generation active; or an error and no change.               *)
(***************************************************************************)
TableOf_FirstPutStays(entries) ==
    [k \in Key |->
        LET at == {i \in DOMAIN entries : entries[i].key = k}
        IN  IF at = {} THEN NoRule ELSE entries[Min(at)].rule]

TableOf(entries) ==
    [k \in Key |->
        LET at == {i \in DOMAIN entries : entries[i].key = k}
        IN  IF at = {} THEN NoRule ELSE entries[Max(at)].rule]

Apply_ReportsOldGen(c) ==
    /\ conn[c].at = "apply"
    /\ LET entries == Compile(conn[c].req.source) IN
       /\ \A i \in DOMAIN entries : entries[i].key \notin Unsupported
       /\ table' = TableOf(entries)
    /\ generation' = generation + 1
    /\ installs' = Append(installs, [by |-> c, source |-> conn[c].req.source])
    /\ Respond(c, "apply", [success |-> TRUE, gen |-> generation])
    /\ UNCHANGED <<server, rbac>>

Apply(c) ==
    /\ conn[c].at = "apply"
    /\ LET entries == Compile(conn[c].req.source) IN
       /\ \A i \in DOMAIN entries : entries[i].key \notin Unsupported
       /\ table' = TableOf(entries)
    /\ generation' = generation + 1
    /\ installs' = Append(installs, [by |-> c, source |-> conn[c].req.source])
    /\ Respond(c, "apply", [success |-> TRUE, gen |-> generation + 1])
    /\ UNCHANGED <<server, rbac>>

ApplyFails(c) ==
    /\ Respond(c, "apply", Failure)
    /\ UNCHANGED <<server, rbac, rules>>

(***************************************************************************)
(* The response is sent (or the client is gone) and the connection closed. *)
(***************************************************************************)
Reply(c) ==
    /\ Step(c, "reply", Closed)
    /\ UNCHANGED <<server, rbac, rules>>

(***************************************************************************)
(* Shutdown: the context is cancelled, then the listener closed; accepted  *)
(* connections are served on.                                              *)
(***************************************************************************)
Cancel ==
    /\ live
    /\ live' = FALSE
    /\ UNCHANGED <<listening, rbac, rules, conn>>

CloseListener ==
    /\ ~live
    /\ listening
    /\ listening' = FALSE
    /\ UNCHANGED <<live, rbac, rules, conn>>

Serve(c) ==
    Identify(c) \/ Authorize(c) \/ Dispatch(c) \/ Apply(c) \/ ApplyFails(c) \/ Reply(c)

Next ==
    \/ \E c \in Conn : Accept(c) \/ Receive(c) \/ ReceiveGarbage(c) \/ ReceiveNothing(c) \/ Serve(c)
    \/ \E u \in Registered : AddAdminUID(u) \/ AddOperatorUID(u)
    \/ Cancel \/ CloseListener

Spec == Init /\ [][Next]_vars

-----------------------------------------------------------------------------
(***************************************************************************)
(* "RoleViewer: Read-only access" (README.md): the active policy changes   *)
(* only for a connection whose peer is, by the rules of RBACEnforcer, an   *)
(* Admin or Operator at that moment, however long ago its role was         *)
(* resolved and whatever was registered meanwhile.                         *)
(***************************************************************************)
OnlyOperatorsInstall ==
    [][generation' # generation =>
          \E c \in Conn :
             /\ conn[c].at = "apply" /\ conn'[c].at = "reply"
             /\ \/ conn[c].peer.uid \in adminUIDs \cup operatorUIDs
                \/ conn[c].peer.gid \in AdminGIDs]_vars

(***************************************************************************)
(* Responses tell the truth with other requests in between: a successful   *)
(* apply_policy names the generation its own policy became, a failed       *)
(* request installed nothing, and the generation a status names was active *)
(* while the connection was open.                                          *)
(***************************************************************************)
ResponsesTruthful ==
    \A c \in Conn : conn[c].resp # None =>
        IF ~conn[c].resp.success THEN \A g \in DOMAIN installs : installs[g].by # c
        ELSE IF conn[c].req.command = "apply_policy"
        THEN /\ conn[c].resp.gen \in DOMAIN installs
             /\ installs[conn[c].resp.gen] = [by |-> c, source |-> conn[c].req.source]
        ELSE conn[c].resp.gen \in conn[c].since..generation

(***************************************************************************)
(* Until a policy is installed the agent has no rules and lets pass.       *)
(***************************************************************************)
ActivePolicy ==
    IF installs = <<>> THEN [header |-> TRUE, default |-> "allow", rules |-> <<>>]
    ELSE Last(installs).source

ActiveRules == ActivePolicy.rules

(***************************************************************************)
(* What a rule and defaultAction of a policy file mean: "allow" or "deny"  *)
(* (dsl.go, and the error messages of Validate).  Every packet gets the    *)
(* action of a rule of the active policy that applies to it, or its        *)
(* default.  The code does not keep this: see Plain.                       *)
(***************************************************************************)
PoliciesEnforced ==
    \A pkt \in Packet : Enforces(table, ActivePolicy, pkt)

(***************************************************************************)
(* It does for the policies the maps can express, through overlapping      *)
(* rules, one prefix in two spellings, protocols left out, and the three   *)
(* lists that are staged one after the other: the table compiled and       *)
(* staged from a plain policy gives every packet the action of a rule that *)
(* applies to it, or the default.                                          *)
(***************************************************************************)
PlainPoliciesEnforced ==
    Plain(ActivePolicy) => \A pkt \in Packet : Enforces(table, ActivePolicy, pkt)

(***************************************************************************)
(* The rule id of an entry, which its audit events report, belongs to      *)
(* exactly one rule of the active policy, and that rule names the entry's  *)
(* key.                                                                    *)
(***************************************************************************)
RuleIdsExplain ==
    \A k \in Key : table[k] # NoRule =>
        LET named == {i \in DOMAIN ActiveRules : ActiveRules[i].id = table[k][1]}
        IN  \E i \in named : named = {i} /\ Names(ActiveRules[i], k)

(***************************************************************************)
(* The connections are callers of ApplyPolicyAtomic as AtomicPolicy, which *)
(* PolicyReload implements, describes them: a request that was authorised, *)
(* dispatched and validated is pending until it is installed whole or      *)
(* rejected, no other request changes the table, and the table installed   *)
(* realizes the compiled policy entry by entry.                            *)
(***************************************************************************)
Admitted(x) ==
    /\ x.req \in Request
    /\ x.req.command = "apply_policy" /\ x.req.lower
    /\ Permitted(x.role, x.req.command)
    /\ Validate(x.req.source)

ApplyStatus(x) ==
    IF x.at = "apply" THEN "pending"
    ELSE IF x.at = "reply" /\ Admitted(x)
    THEN IF x.resp.success THEN "installed" ELSE "rejected"
    ELSE "none"

Compiled == [p \in {q \in Source : Validate(q)} |-> Compile(p)]

ApplyRequest(x) == IF ApplyStatus(x) = "none" THEN None ELSE Compiled[x.req.source]

Applying == INSTANCE AtomicPolicy WITH
    Applier <- Conn,
    NoPolicy <- None,
    Policy <- Range(Compiled),
    request <- [c \in Conn |-> ApplyRequest(conn[c])],
    status <- [c \in Conn |-> ApplyStatus(conn[c])]

ServerAppliesAtomically == Applying!Safety
=============================================================================
