------------------------------ MODULE Dashboard ------------------------------
(***************************************************************************)
(* The dashboard (cmd/firewall-tui/main.go) on top of the audit pipeline:  *)
(* the Bubble Tea model polls get_status every 500 ms without waiting for  *)
(* the previous reply, the control server answers each request from its    *)
(* own goroutine with a copy of the AuditStore, and Update takes replies   *)
(* and keys one at a time, in whatever order they come.                    *)
(***************************************************************************)
EXTENDS AuditPipeline, FiniteSets

CONSTANTS
    MaxRequests, \* bound: get_status requests outstanding at a time
    Query       \* the filter texts, each as the set of event ids it matches

ASSUME DashAssumption == MaxRequests \in Nat /\ Query \subseteq SUBSET (1..MaxVerdicts)

VARIABLES
    listening,  \* the control server's listener is open
    requests,   \* the outstanding requests and replies, oldest request first
    tui,        \* the Bubble Tea model
    moved       \* history: the operator moved the selection since it was last placed

dashVars == <<listening, requests, tui, moved>>
allVars == <<vars, dashVars>>

Accepted == [at |-> "accepted", ok |-> FALSE, events |-> <<>>]
Failed == [Accepted EXCEPT !.at = "replied"]
Status(events) == [at |-> "replied", ok |-> TRUE, events |-> events]

All == 1..MaxVerdicts

FreshModel ==
    [running |-> TRUE, connected |-> FALSE, auditEvents |-> <<>>, selectedIdx |-> 0,
     filterQuery |-> All]

Events == UNION {[1..n -> Event] : n \in 0..Capacity}

DashTypeOK ==
    /\ TypeOK
    /\ listening \in BOOLEAN
    /\ Len(requests) <= MaxRequests
    /\ \A i \in DOMAIN requests :
          requests[i] \in [at : {"accepted", "replied"}, ok : BOOLEAN, events : Events]
    /\ tui \in [running : BOOLEAN, connected : BOOLEAN, auditEvents : Events,
                selectedIdx : Nat, filterQuery : Query \cup {All}]
    /\ moved \in BOOLEAN

DashInit ==
    /\ Init
    /\ listening = TRUE
    /\ requests = <<>>
    /\ tui = FreshModel
    /\ moved = FALSE

(***************************************************************************)
(* fetchStatus, from Init, a tick or the key "r": dial and send.           *)
(***************************************************************************)
Poll_NotRearmed ==
    /\ tui.running
    /\ ~tui.connected
    /\ Len(requests) < MaxRequests
    /\ requests' = Append(requests, IF listening THEN Accepted ELSE Failed)
    /\ UNCHANGED <<vars, listening, tui, moved>>

Poll ==
    /\ tui.running
    /\ Len(requests) < MaxRequests
    /\ requests' = Append(requests, IF listening THEN Accepted ELSE Failed)
    /\ UNCHANGED <<vars, listening, tui, moved>>

(***************************************************************************)
(* The handler's goroutine copies the store and replies.  A shutdown may   *)
(* end the process before it does.                                         *)
(***************************************************************************)
Answer(i) ==
    /\ i \in DOMAIN requests
    /\ requests[i].at = "accepted"
    /\ \/ requests' = [requests EXCEPT ![i] = Status(store)]
       \/ /\ ctx = "cancelled"
          /\ requests' = [requests EXCEPT ![i] = Failed]
    /\ UNCHANGED <<vars, listening, tui, moved>>

(***************************************************************************)
(* The goroutine Start leaves behind closes the listener after cancel.     *)
(***************************************************************************)
CloseListener ==
    /\ ctx = "cancelled"
    /\ listening
    /\ listening' = FALSE
    /\ UNCHANGED <<vars, requests, tui, moved>>

(***************************************************************************)
(* Update(statusMsg).  An empty event list leaves the stream as it is; the *)
(* selection follows when the list grew or no longer reaches it.           *)
(***************************************************************************)
Follow_OnGrowth(events) == Len(events) > Len(tui.auditEvents)

Follow(events) ==
    Len(events) > Len(tui.auditEvents) \/ tui.selectedIdx >= Len(events)

Connected_Sticky(reply) == reply.ok \/ tui.connected

Connected(reply) == reply.ok

Deliver(i) ==
    /\ tui.running
    /\ i \in DOMAIN requests
    /\ requests[i].at = "replied"
    /\ LET reply == requests[i]
           new == reply.ok /\ reply.events # <<>>
           follow == new /\ Follow(reply.events)
       IN /\ tui' = [tui EXCEPT
                        !.connected = Connected(reply),
                        !.auditEvents = IF new THEN reply.events ELSE @,
                        !.selectedIdx = IF follow THEN Len(reply.events) - 1 ELSE @]
          /\ moved' = (moved /\ ~follow)
    /\ requests' = RemoveAt(requests, i)
    /\ UNCHANGED <<vars, listening>>

-----------------------------------------------------------------------------
(***************************************************************************)
(* Update(KeyMsg).  The filter prompt, from "/" to Enter, is the action    *)
(* Filter at its Enter: while it is open it takes every key, and replies   *)
(* are delivered as before.  Update uses only the number of the filtered   *)
(* events; here they are the places of the stream that match.              *)
(***************************************************************************)
Matching(q) == {i \in DOMAIN tui.auditEvents : tui.auditEvents[i].id \in q}

filteredEvents == Matching(tui.filterQuery)

Clear ==
    /\ tui.running
    /\ tui' = [tui EXCEPT !.auditEvents = <<>>, !.selectedIdx = 0]
    /\ moved' = FALSE
    /\ UNCHANGED <<vars, listening, requests>>

Up ==
    /\ tui.running
    /\ tui.selectedIdx > 0
    /\ tui' = [tui EXCEPT !.selectedIdx = @ - 1]
    /\ moved' = TRUE
    /\ UNCHANGED <<vars, listening, requests>>

Down ==
    /\ tui.running
    /\ tui.selectedIdx + 1 < Cardinality(filteredEvents)
    /\ tui' = [tui EXCEPT !.selectedIdx = @ + 1]
    /\ moved' = TRUE
    /\ UNCHANGED <<vars, listening, requests>>

Filter ==
    /\ tui.running
    /\ \E q \in Query \cup {All} : tui' = [tui EXCEPT !.filterQuery = q]
    /\ UNCHANGED <<vars, listening, requests, moved>>

Quit ==
    /\ tui.running
    /\ tui' = [FreshModel EXCEPT !.running = FALSE]
    /\ requests' = <<>>
    /\ moved' = FALSE
    /\ UNCHANGED <<vars, listening>>

-----------------------------------------------------------------------------
Keys == Clear \/ Up \/ Down \/ Filter \/ Quit

DashNext ==
    \/ Next /\ UNCHANGED dashVars
    \/ Poll
    \/ \E i \in 1..MaxRequests : Answer(i) \/ Deliver(i)
    \/ CloseListener
    \/ Keys

DashSpec == DashInit /\ [][DashNext]_allVars

(***************************************************************************)
(* Ticks keep coming, and every request is answered and its reply reaches  *)
(* the program's message loop (the oldest one, then the next, and so on);  *)
(* no key has to be pressed.                                               *)
(***************************************************************************)
DashFairness ==
    /\ WF_allVars(Poll)
    /\ WF_allVars(Answer(1))
    /\ WF_allVars(Deliver(1))
    /\ WF_allVars(CloseListener)

DashFairSpec == DashSpec /\ Fairness /\ DashFairness

-----------------------------------------------------------------------------
(***************************************************************************)
(* With no filter on, the selection names an event of the list shown (or   *)
(* the list is empty), and it is the newest one unless the operator moved  *)
(* it since it was last placed ("auto-follow the newest event",            *)
(* main.go:261): with replies out of order, an evicting store, clearing,   *)
(* and filters set and lifted in between.  While a filter is on it need    *)
(* not: the selection is an index into the filtered list, and auto-follow  *)
(* places it by the length of the unfiltered one, behind what is shown;    *)
(* lifting the filter must bring it back into the list.                    *)
(***************************************************************************)
SelectionFollows ==
    tui.filterQuery = All =>
        LET shown == Cardinality(filteredEvents)
        IN IF shown = 0 THEN tui.selectedIdx = 0
           ELSE tui.selectedIdx < shown /\ (~moved => tui.selectedIdx = shown - 1)

(***************************************************************************)
(* A late reply can take the dashboard back in time, but while both        *)
(* programs run it shows the agent's audit store again and again.          *)
(***************************************************************************)
CatchesUp ==
    <>[](tui.running /\ ctx = "live") => []<>(tui.auditEvents = store)

(***************************************************************************)
(* Once the agent's socket is closed the dashboard turns OFFLINE and stays *)
(* so, whatever replies were still under way.                              *)
(***************************************************************************)
TurnsOffline == [](~listening => <>[](tui.connected => ~tui.running))
=============================================================================
