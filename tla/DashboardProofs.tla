--------------------------- MODULE DashboardProofs ---------------------------
(***************************************************************************)
(* Proofs about Dashboard, for every number of outstanding requests and    *)
(* every set of filters, on top of the proofs of the pipeline it polls.    *)
(***************************************************************************)
EXTENDS Dashboard, AuditPipelineProofs, FiniteSetTheorems

(***************************************************************************)
(* The dashboard leaves the pipeline alone: every behaviour with it is one *)
(* of the pipeline, so what is proved of the pipeline holds beside it.     *)
(***************************************************************************)
THEOREM DashboardObserves == DashSpec => Spec
  <1>1. DashInit => Init
    BY DEF DashInit
  <1>2. [DashNext]_allVars => [Next]_vars
    BY DEF DashNext, allVars, Poll, Answer, Deliver, CloseListener, Keys, Clear, Up, Down,
           Filter, Quit
  <1> QED
    BY <1>1, <1>2, PTL DEF DashSpec, Spec

(***************************************************************************)
(* A list of events the store can hold, as a sequence.                     *)
(***************************************************************************)
LEMMA EventsFacts == \A s : s \in Events <=> s \in Seq(Event) /\ Len(s) <= Capacity
  <1>1. ASSUME NEW s \in Events PROVE s \in Seq(Event) /\ Len(s) <= Capacity
    <2>1. PICK n \in 0..Capacity : s \in [1..n -> Event]
      BY DEF Events
    <2> QED
      BY <2>1, SizeAssumption
  <1>2. ASSUME NEW s \in Seq(Event), Len(s) <= Capacity PROVE s \in Events
    <2>1. Len(s) \in 0..Capacity /\ s \in [1..Len(s) -> Event]
      BY <1>2, SizeAssumption
    <2> QED
      BY <2>1 DEF Events
  <1> QED
    BY <1>1, <1>2

(***************************************************************************)
(* The empty list is one of the lists a reply may carry.                   *)
(***************************************************************************)
LEMMA EmptyEvents == <<>> \in Events
  <1>1. <<>> \in Seq(Event) /\ Len(<<>>) = 0
    OBVIOUS
  <1>2. 0 <= Capacity
    BY SizeAssumption
  <1> QED
    BY <1>1, <1>2, EventsFacts

(***************************************************************************)
(* Removing a message from the queue of replies.                           *)
(***************************************************************************)
LEMMA RemoveAtFacts ==
    ASSUME NEW S, NEW s \in Seq(S), NEW i \in 1..Len(s)
    PROVE  RemoveAt(s, i) \in Seq(S) /\ Len(RemoveAt(s, i)) = Len(s) - 1
  <1>1. Len(s) \in Nat
    OBVIOUS
  <1>2. SubSeq(s, 1, i - 1) \in Seq(S) /\ Len(SubSeq(s, 1, i - 1)) = i - 1
    BY <1>1
  <1>3. SubSeq(s, i + 1, Len(s)) \in Seq(S) /\ Len(SubSeq(s, i + 1, Len(s))) = Len(s) - i
    BY <1>1
  <1>4. \A a, b \in Seq(S) : a \o b \in Seq(S) /\ Len(a \o b) = Len(a) + Len(b)
    OBVIOUS
  <1>5. /\ RemoveAt(s, i) \in Seq(S)
        /\ Len(RemoveAt(s, i)) = (i - 1) + (Len(s) - i)
    BY <1>2, <1>3, <1>4 DEF RemoveAt
  <1> QED
    BY <1>1, <1>5

(***************************************************************************)
(* A filter shows no more events than there are.                           *)
(***************************************************************************)
LEMMA FilterShrinks ==
    ASSUME tui.auditEvents \in Seq(Event)
    PROVE  /\ Cardinality(filteredEvents) \in Nat
           /\ Cardinality(filteredEvents) <= Len(tui.auditEvents)
  <1> DEFINE n == Len(tui.auditEvents)
  <1>1. n \in Nat /\ DOMAIN tui.auditEvents = 1..n
    OBVIOUS
  <1>2. filteredEvents \subseteq 1..n
    BY <1>1 DEF filteredEvents, Matching
  <1>3. IsFiniteSet(1..n) /\ Cardinality(1..n) = n
    BY <1>1, FS_Interval
  <1>4. /\ IsFiniteSet(filteredEvents)
        /\ Cardinality(filteredEvents) <= Cardinality(1..n)
    BY <1>2, <1>3, FS_Subset
  <1> QED
    BY <1>3, <1>4, FS_CardinalityType

(***************************************************************************)
(* Without a filter, all of them are shown.                                *)
(***************************************************************************)
LEMMA UnfilteredShown ==
    ASSUME tui.auditEvents \in Seq(Event), tui.filterQuery = All
    PROVE  Cardinality(filteredEvents) = Len(tui.auditEvents)
  <1> DEFINE n == Len(tui.auditEvents)
  <1>1. n \in Nat /\ DOMAIN tui.auditEvents = 1..n
    OBVIOUS
  <1>2. \A i \in 1..n : tui.auditEvents[i].id \in All
    <2>1. \A e \in Event : e.id \in All
      BY DEF Event, All
    <2>2. \A i \in 1..n : tui.auditEvents[i] \in Event
      OBVIOUS
    <2> QED
      BY <2>1, <2>2
  <1>3. filteredEvents = 1..n
    BY <1>1, <1>2 DEF filteredEvents, Matching
  <1> QED
    BY <1>1, <1>3, FS_Interval

-----------------------------------------------------------------------------
Request == [at : {"accepted", "replied"}, ok : BOOLEAN, events : Events]

Model ==
    [running : BOOLEAN, connected : BOOLEAN, auditEvents : Events, selectedIdx : Nat,
     filterQuery : Query \cup {All}]

(***************************************************************************)
(* The strengthening of SelectionFollows that the steps keep: whatever the *)
(* filter, the selection is within the unfiltered stream, and at its end   *)
(* until it is moved.  Auto-follow counts that stream, and Down stays      *)
(* below the number of filtered events, which is no greater.  So when a    *)
(* filter is lifted the selection names an event again.                    *)
(***************************************************************************)
SelectionInStream ==
    LET n == Len(tui.auditEvents)
    IN IF n = 0 THEN tui.selectedIdx = 0
       ELSE tui.selectedIdx < n /\ (~moved => tui.selectedIdx = n - 1)

DashInv ==
    /\ listening \in BOOLEAN
    /\ requests \in Seq(Request) /\ Len(requests) <= MaxRequests
    /\ tui \in Model
    /\ moved \in BOOLEAN
    /\ SelectionInStream

(***************************************************************************)
(* A fresh dashboard has nothing to select.                                *)
(***************************************************************************)
LEMMA FreshFacts ==
    ASSUME NEW m, m = FreshModel \/ m = [FreshModel EXCEPT !.running = FALSE]
    PROVE  m \in Model /\ m.auditEvents = <<>> /\ m.selectedIdx = 0
  <1>1. FreshModel \in Model /\ FreshModel.auditEvents = <<>> /\ FreshModel.selectedIdx = 0
    BY EmptyEvents DEF FreshModel, Model
  <1> QED
    BY <1>1 DEF Model

(***************************************************************************)
(* The dashboard starts with nothing listed and nothing selected.          *)
(***************************************************************************)
LEMMA DashInitInv == DashInit => DashInv
  <1> SUFFICES ASSUME DashInit PROVE DashInv
    OBVIOUS
  <1>1. listening \in BOOLEAN /\ moved \in BOOLEAN
    BY Zenon DEF DashInit
  <1>2. tui \in Model /\ tui.auditEvents = <<>> /\ tui.selectedIdx = 0
    BY FreshFacts DEF DashInit
  <1>3. requests \in Seq(Request) /\ Len(requests) <= MaxRequests
    BY DashAssumption DEF DashInit
  <1>4. SelectionInStream
    BY <1>2 DEF SelectionInStream
  <1> QED
    BY <1>1, <1>2, <1>3, <1>4 DEF DashInv

(***************************************************************************)
(* A reply that is delivered: the selection goes to its last event, or     *)
(* stays where it was, within a list of the same length as before.         *)
(***************************************************************************)
LEMMA DashDeliver ==
    ASSUME DashInv, NEW i \in 1..MaxRequests, Deliver(i)
    PROVE  DashInv'
  <1> DEFINE reply == requests[i]
             new == reply.ok /\ reply.events # <<>>
             follow == new /\ Follow(reply.events)
             old == tui.auditEvents
  <1>1. /\ i \in 1..Len(requests) /\ requests \in Seq(Request) /\ tui \in Model
        /\ Len(requests) <= MaxRequests
    BY DEF DashInv, Deliver
  <1>2. reply \in Request
    BY <1>1
  <1>3. /\ reply.ok \in BOOLEAN /\ reply.events \in Events
        /\ tui.auditEvents \in Events /\ tui.selectedIdx \in Nat
    BY <1>1, <1>2 DEF Request, Model
  <1>4. /\ Len(reply.events) \in Nat /\ (reply.events # <<>> => Len(reply.events) > 0)
        /\ Len(old) \in Nat
    BY <1>3, EventsFacts
  <1>5. /\ tui' = [tui EXCEPT !.connected = Connected(reply),
                              !.auditEvents = IF new THEN reply.events ELSE @,
                              !.selectedIdx = IF follow THEN Len(reply.events) - 1 ELSE @]
        /\ moved' = (moved /\ ~follow)
        /\ requests' = RemoveAt(requests, i)
        /\ UNCHANGED listening
    BY DEF Deliver
  <1>6. tui' \in Model
    <2>1. (IF new THEN reply.events ELSE old) \in Events
      BY <1>3
    <2>2. (IF follow THEN Len(reply.events) - 1 ELSE tui.selectedIdx) \in Nat
      BY <1>3, <1>4
    <2>3. Connected(reply) \in BOOLEAN
      BY <1>3 DEF Connected
    <2> QED
      BY <1>1, <1>5, <2>1, <2>2, <2>3 DEF Model
  <1>7. requests' \in Seq(Request) /\ Len(requests') <= MaxRequests
    BY <1>1, <1>5, RemoveAtFacts, DashAssumption
  <1>8. moved' \in BOOLEAN /\ listening' \in BOOLEAN
    BY <1>5, Zenon DEF DashInv
  <1>9. /\ tui'.auditEvents = IF new THEN reply.events ELSE old
        /\ tui'.selectedIdx = IF follow THEN Len(reply.events) - 1 ELSE tui.selectedIdx
    BY <1>1, <1>5 DEF Model
  <1>10. SelectionInStream'
    <2>1. CASE ~new
      <3>1. tui'.auditEvents = old /\ tui'.selectedIdx = tui.selectedIdx /\ (~moved' => ~moved)
        BY <1>5, <1>9, <2>1
      <3> QED
        BY <3>1 DEF DashInv, SelectionInStream
    <2>2. CASE follow
      <3>1. tui'.auditEvents = reply.events /\ tui'.selectedIdx = Len(reply.events) - 1
        BY <1>9, <2>2
      <3> QED
        BY <1>4, <2>2, <3>1 DEF SelectionInStream
    <2>3. CASE new /\ ~follow
      <3>1. /\ tui'.auditEvents = reply.events /\ tui'.selectedIdx = tui.selectedIdx
            /\ ~moved' => ~moved
        BY <1>5, <1>9, <2>3
      <3>2. Len(reply.events) <= Len(old) /\ tui.selectedIdx < Len(reply.events)
        BY <1>3, <1>4, <2>3 DEF Follow
      <3>3. Len(old) # 0 /\ (~moved => tui.selectedIdx = Len(old) - 1)
        BY <1>3, <1>4, <3>2 DEF DashInv, SelectionInStream
      <3> QED
        BY <1>3, <1>4, <3>1, <3>2, <3>3 DEF SelectionInStream
    <2> QED
      BY <2>1, <2>2, <2>3
  <1> QED
    BY <1>6, <1>7, <1>8, <1>10 DEF DashInv

(***************************************************************************)
(* The keys: within the list, and to its end only when it is emptied.      *)
(***************************************************************************)
LEMMA DashKeys ==
    ASSUME DashInv, Keys
    PROVE  DashInv'
  <1>1. /\ tui \in Model /\ tui.auditEvents \in Events /\ tui.selectedIdx \in Nat
        /\ requests \in Seq(Request) /\ Len(requests) <= MaxRequests
        /\ listening \in BOOLEAN
    BY DEF DashInv, Model
  <1>2. tui.auditEvents \in Seq(Event) /\ Len(tui.auditEvents) \in Nat
    BY <1>1, EventsFacts
  <1>3. listening' = listening
    BY DEF Keys, Clear, Up, Down, Filter, Quit
  <1>4. CASE Clear
    <2>1. <<>> \in Events
      BY EmptyEvents
    <2>2. /\ tui' \in Model /\ tui'.auditEvents = <<>> /\ tui'.selectedIdx = 0
          /\ requests' = requests
      BY <1>1, <1>4, <2>1 DEF Clear, Model
    <2>3. moved' \in BOOLEAN
      BY <1>4, Zenon DEF Clear
    <2>4. SelectionInStream'
      BY <2>2 DEF SelectionInStream
    <2> QED
      BY <1>1, <1>3, <2>2, <2>3, <2>4 DEF DashInv
  <1>5. CASE Up
    <2>1. /\ tui' \in Model /\ tui'.auditEvents = tui.auditEvents
          /\ tui'.selectedIdx = tui.selectedIdx - 1 /\ tui.selectedIdx > 0
          /\ requests' = requests
      BY <1>1, <1>5 DEF Up, Model
    <2>2. moved'
      BY <1>5 DEF Up
    <2>3. moved' \in BOOLEAN
      BY <1>5, Zenon DEF Up
    <2>4. SelectionInStream'
      BY <1>1, <1>2, <2>1, <2>2 DEF DashInv, SelectionInStream
    <2> QED
      BY <1>1, <1>3, <2>1, <2>3, <2>4 DEF DashInv
  <1>6. CASE Down
    <2>1. /\ tui' \in Model /\ tui'.auditEvents = tui.auditEvents
          /\ tui'.selectedIdx = tui.selectedIdx + 1
          /\ tui.selectedIdx + 1 < Cardinality(filteredEvents)
          /\ requests' = requests
      BY <1>1, <1>6 DEF Down, Model
    <2>2. moved'
      BY <1>6 DEF Down
    <2>3. moved' \in BOOLEAN
      BY <1>6, Zenon DEF Down
    <2>4. /\ Cardinality(filteredEvents) \in Nat
          /\ Cardinality(filteredEvents) <= Len(tui.auditEvents)
      BY <1>2, FilterShrinks
    <2>5. tui'.selectedIdx < Len(tui.auditEvents) /\ Len(tui.auditEvents) # 0
      BY <1>1, <1>2, <2>1, <2>4
    <2>6. SelectionInStream'
      BY <2>1, <2>2, <2>5 DEF SelectionInStream
    <2> QED
      BY <1>1, <1>3, <2>1, <2>3, <2>6 DEF DashInv
  <1>7. CASE Filter
    <2>1. /\ tui' \in Model /\ tui'.auditEvents = tui.auditEvents
          /\ tui'.selectedIdx = tui.selectedIdx
          /\ requests' = requests /\ moved' = moved
      BY <1>1, <1>7 DEF Filter, Model
    <2>2. SelectionInStream'
      BY <2>1 DEF DashInv, SelectionInStream
    <2> QED
      BY <1>3, <2>1, <2>2 DEF DashInv
  <1>8. CASE Quit
    <2>1. tui' \in Model /\ tui'.auditEvents = <<>> /\ tui'.selectedIdx = 0
      BY <1>8, FreshFacts DEF Quit
    <2>2. requests' \in Seq(Request) /\ Len(requests') <= MaxRequests
      BY <1>8, DashAssumption DEF Quit
    <2>3. moved' \in BOOLEAN
      BY <1>8, Zenon DEF Quit
    <2>4. SelectionInStream'
      BY <2>1 DEF SelectionInStream
    <2> QED
      BY <1>1, <1>3, <2>1, <2>2, <2>3, <2>4 DEF DashInv
  <1> QED
    BY <1>4, <1>5, <1>6, <1>7, <1>8 DEF Keys

(***************************************************************************)
(* Every step of agent and dashboard keeps the dashboard's invariant; the  *)
(* replies are lists the store could hold.                                 *)
(***************************************************************************)
LEMMA DashStep == PipeInv /\ DashInv /\ [DashNext]_allVars => DashInv'
  <1> SUFFICES ASSUME PipeInv, DashInv, [DashNext]_allVars PROVE DashInv'
    OBVIOUS
  <1>1. store \in Events
    <2>1. store \in Seq(Event) /\ Len(store) \in 0..Capacity
      BY PipeTypeOK DEF PipeInv, PipeTypes, TypeOK
    <2> QED
      BY <2>1, EventsFacts, SizeAssumption
  <1>2. <<>> \in Events
    BY EmptyEvents
  <1>3. Accepted \in Request /\ Failed \in Request /\ Status(store) \in Request
    BY <1>1, <1>2 DEF Accepted, Failed, Status, Request
  <1>4. requests \in Seq(Request) /\ Len(requests) <= MaxRequests
    BY DEF DashInv
  <1>5. ASSUME UNCHANGED dashVars PROVE DashInv'
    BY <1>5 DEF dashVars, DashInv, SelectionInStream
  <1>6. CASE Poll
    <2>1. /\ requests' \in Seq(Request) /\ Len(requests') <= MaxRequests
      BY <1>3, <1>4, <1>6, DashAssumption DEF Poll
    <2> QED
      BY <1>6, <2>1 DEF Poll, DashInv, SelectionInStream
  <1>7. ASSUME NEW i \in 1..MaxRequests, Answer(i) PROVE DashInv'
    <2>1. /\ requests' \in Seq(Request) /\ Len(requests') = Len(requests)
      BY <1>3, <1>4, <1>7 DEF Answer
    <2> QED
      BY <1>4, <1>7, <2>1 DEF Answer, DashInv, SelectionInStream
  <1>8. CASE CloseListener
    <2>1. listening' \in BOOLEAN
      BY <1>8, Zenon DEF CloseListener
    <2> QED
      BY <1>8, <2>1 DEF CloseListener, DashInv, SelectionInStream
  <1> QED
    BY <1>5, <1>6, <1>7, <1>8, DashDeliver, DashKeys DEF DashNext, allVars

(***************************************************************************)
(* Pipeline and dashboard together.                                        *)
(***************************************************************************)
LEMMA DashInvHolds == DashSpec => [](PipeInv /\ DashInv)
  <1>1. DashInit => PipeInv /\ DashInv
    BY PipeInit, DashInitInv DEF DashInit
  <1>2. [DashNext]_allVars => [Next]_vars
    BY DEF DashNext, allVars, Poll, Answer, Deliver, CloseListener, Keys, Clear, Up, Down,
           Filter, Quit
  <1>3. PipeInv /\ DashInv /\ [DashNext]_allVars => (PipeInv /\ DashInv)'
    BY <1>2, PipeStep, DashStep
  <1> QED
    BY <1>1, <1>3, PTL DEF DashSpec

(***************************************************************************)
(* With no filter on, the selection names an event of the list shown, and  *)
(* the newest one until the operator moves it, with any number of requests *)
(* in flight, replies in any order, and any filters set and lifted before. *)
(***************************************************************************)
THEOREM SelectionFollowsHolds == DashSpec => []SelectionFollows
  <1>1. PipeInv /\ DashInv => SelectionFollows
    <2> SUFFICES ASSUME DashInv, tui.filterQuery = All PROVE SelectionFollows
      BY DEF SelectionFollows
    <2>1. tui.auditEvents \in Seq(Event)
      BY EventsFacts DEF DashInv, Model
    <2>2. Cardinality(filteredEvents) = Len(tui.auditEvents)
      BY <2>1, UnfilteredShown
    <2> QED
      BY <2>2 DEF DashInv, SelectionInStream, SelectionFollows
  <1> QED
    BY <1>1, DashInvHolds, PTL

(***************************************************************************)
(* What the dashboard shows is always a list the AuditStore could hold.    *)
(***************************************************************************)
THEOREM DashboardTypeCorrect == DashSpec => []DashTypeOK
  <1>1. ASSUME PipeInv, DashInv PROVE DashTypeOK
    <2>1. TypeOK
      BY <1>1, PipeTypeOK
    <2>2. \A i \in DOMAIN requests : requests[i] \in Request
      BY <1>1 DEF DashInv
    <2>3. /\ listening \in BOOLEAN /\ moved \in BOOLEAN
          /\ Len(requests) <= MaxRequests /\ tui \in Model
      BY <1>1 DEF DashInv
    <2> QED
      BY <2>1, <2>2, <2>3 DEF DashTypeOK, Request, Model
  <1> QED
    BY <1>1, DashInvHolds, PTL
=============================================================================
