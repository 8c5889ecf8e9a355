------------------------ MODULE TicketLifecycleProofs ------------------------
(* Theorems about TicketLifecycle for any tickets, operators, approvals,      *)
(* REST calls and routes.                                                     *)
EXTENDS TicketLifecycle, TLAPS

EventRecord == [type : TicketEventType, by : Actors]

\* What recording an event does to the logs.
LEMMA RecordEffect ==
    ASSUME TypeOK, NEW t \in Tickets, NEW type \in TicketEventType, NEW by \in Actors,
           Record(t, type, by)
    PROVE  /\ events' \in [Tickets -> Seq(EventRecord)]
           /\ \A u \in Tickets : u # t => events'[u] = events[u]
           /\ Len(events'[t]) = Len(events[t]) + 1
           /\ DOMAIN events'[t] = DOMAIN events[t] \cup {Len(events[t]) + 1}
           /\ DOMAIN events[t] = 1 .. Len(events[t])
           /\ Len(events[t]) \in Nat
           /\ \A i \in DOMAIN events[t] : events'[t][i] = events[t][i]
           /\ events'[t][Len(events[t]) + 1] = [type |-> type, by |-> by]
<1> DEFINE e == [type |-> type, by |-> by]
<1>1. events \in [Tickets -> Seq(EventRecord)]
  BY DEF TypeOK, EventRecord
<1>2. e \in EventRecord
  BY DEF EventRecord
<1>3. events' = [events EXCEPT ![t] = Append(events[t], e)]
  BY DEF Record
<1> HIDE DEF e
<1>4. events[t] \in Seq(EventRecord)
  BY <1>1
<1>5. Append(events[t], e) \in Seq(EventRecord)
  BY <1>2, <1>4
<1>6. events'[t] = Append(events[t], e)
  BY <1>1, <1>3
<1>7. \A u \in Tickets : u # t => events'[u] = events[u]
  BY <1>1, <1>3
<1>8. events' \in [Tickets -> Seq(EventRecord)]
  BY <1>1, <1>3, <1>5
<1>9. /\ Len(events'[t]) = Len(events[t]) + 1
      /\ DOMAIN events'[t] = DOMAIN events[t] \cup {Len(events[t]) + 1}
      /\ DOMAIN events[t] = 1 .. Len(events[t])
      /\ Len(events[t]) \in Nat
      /\ \A i \in DOMAIN events[t] : events'[t][i] = events[t][i]
      /\ events'[t][Len(events[t]) + 1] = e
  BY <1>2, <1>4, <1>6
<1>10. QED
  BY <1>7, <1>8, <1>9 DEF e

\* The store's transition records an event of the state machine.
LEMMA TransitionEffect ==
    ASSUME TypeOK, NEW t \in Tickets, NEW target \in {"RESOLVED", "IN_PROGRESS", "CLOSED"},
           NEW by \in Actors, Transition(t, target, by)
    PROVE  /\ status' \in [Tickets -> TicketStatus \cup {"NONE"}]
           /\ \A u \in Tickets : u # t => status'[u] = status[u]
           /\ status'[t] = target
           /\ EventForTransition(status[t], target) \in TicketEventType
           /\ Record(t, EventForTransition(status[t], target), by)
           /\ events' \in [Tickets -> Seq(EventRecord)]
           /\ target = "RESOLVED" => status[t] = "IN_PROGRESS"
           /\ target = "CLOSED" => status[t] \in {"IN_PROGRESS", "RESOLVED"}
<1>1. /\ status' \in [Tickets -> TicketStatus \cup {"NONE"}]
      /\ \A u \in Tickets : u # t => status'[u] = status[u]
      /\ status'[t] = target
  BY DEF TypeOK, Transition, TicketStatus
<1>2. EventForTransition(status[t], target) \in TicketEventType
  BY DEF EventForTransition, TicketEventType
<1>3. Record(t, EventForTransition(status[t], target), by)
  BY DEF Transition
<1>4. events' \in [Tickets -> Seq(EventRecord)]
  BY <1>2, <1>3, RecordEffect
<1>5. status[t] \in TicketStatus \cup {"NONE"} /\ target \in AllowedTransitions[status[t]]
  BY DEF TypeOK, Transition
<1>6. /\ target = "RESOLVED" => status[t] = "IN_PROGRESS"
      /\ target = "CLOSED" => status[t] \in {"IN_PROGRESS", "RESOLVED"}
  BY <1>5 DEF AllowedTransitions, TicketStatus
<1>7. QED
  BY <1>1, <1>2, <1>3, <1>4, <1>6

\* Enqueueing only adds notifications of the given tickets and audiences.
LEMMA EnqueueType ==
    ASSUME TypeOK, NEW notes, NEW via, Enqueue(notes, via),
           \A n \in notes : n.ticket \in Tickets /\ n.to \in Audiences
    PROVE  \A n \in outbox' : n.ticket \in Tickets /\ n.to \in Audiences
BY DEF TypeOK, Enqueue

-----------------------------------------------------------------------------
(* Type correctness                                                          *)

\* The tables an action does not write keep their shape; what it does write
\* has the shape the lemmas above give it.
LEMMA TypeInit == Init => TypeOK
<1>1. SUFFICES ASSUME Init PROVE TypeOK
  OBVIOUS
<1>2. << >> \in Seq([type : TicketEventType, by : Actors])
  OBVIOUS
<1>3. events \in [Tickets -> Seq([type : TicketEventType, by : Actors])]
  BY <1>1, <1>2 DEF Init
<1>4. QED
  BY <1>1, <1>3 DEF Init, TypeOK

\* A step of an operator or of the requester keeps the shapes.
LEMMA TypeTicketStep ==
    ASSUME TypeOK, OperatorStep \/ RequesterStep
    PROVE  TypeOK'
<1>1. ASSUME NEW t \in Tickets, NEW o \in Operators, NEW via \in Routes, Claim(t, o, via)
      PROVE  TypeOK'
  <2>1. o \in Actors /\ "claimed" \in TicketEventType
    BY DEF Actors, TicketEventType
  <2>2. events' \in [Tickets -> Seq(EventRecord)]
    BY <1>1, <2>1, RecordEffect DEF Claim
  <2>3. \A n \in outbox' : n.ticket \in Tickets /\ n.to \in Audiences
    BY <1>1, EnqueueType DEF Claim, Note, Audiences
  <2>4. QED
    BY <1>1, <2>2, <2>3 DEF Claim, TypeOK, EventRecord, TicketStatus
<1>2. ASSUME NEW t \in Tickets, NEW o \in Operators, NEW via \in Routes, Resolve(t, o, via)
      PROVE  TypeOK'
  <2>1. o \in Actors
    BY DEF Actors
  <2>2. /\ status' \in [Tickets -> TicketStatus \cup {"NONE"}]
        /\ events' \in [Tickets -> Seq(EventRecord)]
    BY <1>2, <2>1, TransitionEffect DEF Resolve
  <2>3. \A n \in outbox' : n.ticket \in Tickets /\ n.to \in Audiences
    BY <1>2, EnqueueType DEF Resolve, Note, Audiences
  <2>4. QED
    BY <1>2, <2>2, <2>3 DEF Resolve, TypeOK, EventRecord
<1>3. ASSUME NEW t \in Tickets, CreateTicket(t)
      PROVE  TypeOK'
  <2>1. NoOne \in Actors /\ "created" \in TicketEventType
    BY DEF Actors, TicketEventType
  <2>2. events' \in [Tickets -> Seq(EventRecord)]
    BY <1>3, <2>1, RecordEffect DEF CreateTicket
  <2>3. \A n \in outbox' : n.ticket \in Tickets /\ n.to \in Audiences
    BY <1>3, EnqueueType DEF CreateTicket, Note, Audiences
  <2>4. QED
    BY <1>3, <2>2, <2>3 DEF CreateTicket, TypeOK, EventRecord, TicketStatus
<1>4. ASSUME NEW t \in Tickets, RequesterConfirm(t)
      PROVE  TypeOK'
  <2>1. Requester \in Actors
    BY DEF Actors
  <2>2. /\ status' \in [Tickets -> TicketStatus \cup {"NONE"}]
        /\ events' \in [Tickets -> Seq(EventRecord)]
    BY <1>4, <2>1, TransitionEffect DEF RequesterConfirm
  <2>3. \A n \in outbox' : n.ticket \in Tickets /\ n.to \in Audiences
    BY <1>4, EnqueueType DEF RequesterConfirm, Note, Audiences
  <2>4. QED
    BY <1>4, <2>2, <2>3 DEF RequesterConfirm, Remember, TypeOK, EventRecord
<1>5. ASSUME NEW t \in Tickets, RejectResolution(t)
      PROVE  TypeOK'
  <2>1. Requester \in Actors
    BY DEF Actors
  <2>2. /\ status' \in [Tickets -> TicketStatus \cup {"NONE"}]
        /\ events' \in [Tickets -> Seq(EventRecord)]
    BY <1>5, <2>1, TransitionEffect DEF RejectResolution
  <2>3. \A n \in outbox' : n.ticket \in Tickets /\ n.to \in Audiences
    BY <1>5, EnqueueType DEF RejectResolution, Note, Audiences
  <2>4. QED
    BY <1>5, <2>2, <2>3 DEF RejectResolution, TypeOK, EventRecord
<1>6. QED
  BY <1>1, <1>2, <1>3, <1>4, <1>5 DEF OperatorStep, RequesterStep

\* Asking for an approval keeps the shapes.
LEMMA TypeRequest ==
    ASSUME TypeOK, NEW a \in Approvals, NEW t \in Tickets, NEW action \in ApprovableAction, NEW via,
           RequestApproval(a, t, action, via), checked' \in [RestCalls -> Tickets \cup {NoTicket}]
    PROVE  TypeOK'
<1>1. \A n \in outbox' : n.ticket \in Tickets /\ n.to \in Audiences
  BY EnqueueType DEF RequestApproval, Note, Audiences
<1>2. QED
  BY <1>1 DEF RequestApproval, TypeOK, ApprovableAction

LEMMA TypeRequestStep ==
    ASSUME TypeOK, RequestStep
    PROVE  TypeOK'
<1>1. checked \in [RestCalls -> Tickets \cup {NoTicket}]
  BY DEF TypeOK
<1>2. ASSUME NEW a \in Approvals, NEW t \in Tickets, NEW via \in Routes, Escalate(a, t, via)
      PROVE  TypeOK'
  BY <1>1, <1>2, TypeRequest DEF Escalate, ApprovableAction
<1>3. ASSUME NEW a \in Approvals, NEW t \in Tickets, ForceClose(a, t)
      PROVE  TypeOK'
  BY <1>1, <1>3, TypeRequest DEF ForceClose, ApprovableAction
<1>4. ASSUME NEW a \in Approvals, NEW t \in Tickets, NEW action \in ApprovableAction, Propose(a, t, action)
      PROVE  TypeOK'
  BY <1>1, <1>4, TypeRequest DEF Propose
<1>5. ASSUME NEW a \in Approvals, NEW r \in RestCalls, RequestForceClose(r, a)
      PROVE  TypeOK'
  <2>1. checked[r] \in Tickets /\ checked' \in [RestCalls -> Tickets \cup {NoTicket}]
    BY <1>1, <1>5 DEF RequestForceClose
  <2>2. QED
    BY <1>5, <2>1, TypeRequest DEF RequestForceClose, ApprovableAction
<1>6. QED
  BY <1>2, <1>3, <1>4, <1>5 DEF RequestStep

\* Every approval asked for concerns a ticket that exists and one of the two
\* approvable actions.
Addressed ==
    \A a \in Approvals :
        approvals[a].status # "NONE" =>
            /\ approvals[a].ticket \in Tickets
            /\ status[approvals[a].ticket] # "NONE"
            /\ approvals[a].action \in ApprovableAction

\* A decision keeps the shapes.
LEMMA TypeApproverStep ==
    ASSUME TypeOK, Addressed, ApproverStep
    PROVE  TypeOK'
<1>1. ASSUME NEW a \in Approvals, NEW d \in {"APPROVED", "REJECTED"}, NEW x \in {"EXECUTED", "SKIPPED"},
             Decide(a, d, x)
      PROVE  /\ approvals[a].ticket \in Tickets
             /\ approvals' \in [Approvals -> [status : {"NONE", "PENDING", "APPROVED", "REJECTED"},
                                               ticket : Tickets \cup {NoTicket},
                                               action : ApprovableAction \cup {"NONE"}]]
             /\ pending' \in [Approvals -> {"NONE", "PENDING", "EXECUTED", "SKIPPED"}]
             /\ assignee' = assignee /\ checked' = checked
  BY <1>1 DEF Decide, Addressed, TypeOK
<1>2. ASSUME NEW a \in Approvals, NEW via \in Routes, ApproveEscalate(a, via)
      PROVE  TypeOK'
  <2> DEFINE t == approvals[a].ticket
  <2>1. t \in Tickets /\ Decide(a, "APPROVED", "EXECUTED")
    BY <1>1, <1>2 DEF ApproveEscalate
  <2>2. a \in Actors /\ "escalated" \in TicketEventType
    BY DEF Actors, TicketEventType
  <2>3. events' \in [Tickets -> Seq(EventRecord)]
    BY <1>2, <2>1, <2>2, RecordEffect DEF ApproveEscalate
  <2>4. \A n \in outbox' : n.ticket \in Tickets /\ n.to \in Audiences
    BY <1>2, <2>1, EnqueueType DEF ApproveEscalate, Note, Audiences
  <2>5. QED
    BY <1>1, <1>2, <2>1, <2>3, <2>4 DEF ApproveEscalate, TypeOK, EventRecord
<1>3. ASSUME NEW a \in Approvals, NEW via \in Routes, ApproveForceClose(a, via)
      PROVE  TypeOK'
  <2> DEFINE t == approvals[a].ticket
  <2>1. t \in Tickets /\ Decide(a, "APPROVED", "EXECUTED")
    BY <1>1, <1>3 DEF ApproveForceClose
  <2>2. a \in Actors
    BY DEF Actors
  <2>3. /\ status' \in [Tickets -> TicketStatus \cup {"NONE"}]
        /\ events' \in [Tickets -> Seq(EventRecord)]
    BY <1>3, <2>1, <2>2, TransitionEffect DEF ApproveForceClose
  <2>4. \A n \in outbox' : n.ticket \in Tickets /\ n.to \in Audiences
    BY <1>3, <2>1, EnqueueType DEF ApproveForceClose, Note, Audiences
  <2>5. memory' \in [Tickets -> {"none", "confirmed_closure", "force_closed"}]
    BY <1>3 DEF ApproveForceClose, Remember, TypeOK
  <2>6. QED
    BY <1>1, <2>1, <2>3, <2>4, <2>5 DEF TypeOK, EventRecord
<1>4. ASSUME NEW a \in Approvals, NEW via \in Routes, Reject(a, via)
      PROVE  TypeOK'
  <2>1. Decide(a, "REJECTED", "SKIPPED") /\ approvals[a].ticket \in Tickets
    BY <1>1, <1>4 DEF Reject
  <2>2. \A n \in outbox' : n.ticket \in Tickets /\ n.to \in Audiences
    BY <1>4, <2>1, EnqueueType DEF Reject, Note, Audiences
  <2>3. QED
    BY <1>1, <1>4, <2>1, <2>2 DEF Reject, TypeOK
<1>5. ASSUME NEW a \in Approvals, ApproveInVain(a)
      PROVE  TypeOK'
  BY <1>1, <1>5 DEF ApproveInVain, TypeOK
<1>6. QED
  BY <1>2, <1>3, <1>4, <1>5 DEF ApproverStep

LEMMA TypeStep ==
    ASSUME TypeOK, Addressed, [Next]_vars
    PROVE  TypeOK'
<1>1. CASE \E r \in RestCalls, t \in Tickets : CheckForceClose(r, t)
  BY <1>1 DEF CheckForceClose, TypeOK
<1>2. CASE UNCHANGED vars
  BY <1>2 DEF vars, TypeOK
<1>3. QED
  BY <1>1, <1>2, TypeTicketStep, TypeRequestStep, TypeApproverStep DEF Next

-----------------------------------------------------------------------------
(* What a step does to the tickets.  Whichever handler runs, either no ticket *)
(* changes, or one ticket takes one of seven moves and logs it.              *)

Untouched == UNCHANGED <<status, assignee, events, memory>>

OthersUntouched(t) ==
    \A u \in Tickets : u # t =>
        status'[u] = status[u] /\ assignee'[u] = assignee[u] /\ memory'[u] = memory[u]

Approving(a, t, action) ==
    /\ approvals[a].status = "PENDING" /\ approvals[a].ticket = t /\ approvals[a].action = action
    /\ approvals' = [approvals EXCEPT ![a].status = "APPROVED"]
    /\ pending' = [pending EXCEPT ![a] = "EXECUTED"]

\* The move of ticket t that is logged as an event of this type and actor.
Move(t, type, by) ==
    \/ /\ type = "created" /\ by = NoOne
       /\ status[t] = "NONE" /\ status'[t] = "OPEN"
       /\ assignee' = assignee /\ memory' = memory /\ approvals' = approvals /\ pending' = pending
    \/ /\ type = "claimed" /\ by \in Operators
       /\ status[t] = "OPEN" /\ status'[t] = "IN_PROGRESS"
       /\ assignee[t] = NoOne /\ assignee'[t] = by
       /\ memory' = memory /\ approvals' = approvals /\ pending' = pending
    \/ /\ type = "resolved" /\ by \in Operators
       /\ status[t] = "IN_PROGRESS" /\ status'[t] = "RESOLVED"
       /\ assignee' = assignee /\ memory' = memory /\ approvals' = approvals /\ pending' = pending
    \/ /\ type = "resolution_rejected" /\ by = Requester
       /\ status[t] = "RESOLVED" /\ status'[t] = "IN_PROGRESS"
       /\ assignee' = assignee /\ memory' = memory /\ approvals' = approvals /\ pending' = pending
    \/ /\ type = "closed" /\ by = Requester
       /\ status[t] = "RESOLVED" /\ status'[t] = "CLOSED"
       /\ memory'[t] = IF memory[t] = "none" THEN "confirmed_closure" ELSE memory[t]
       /\ assignee' = assignee /\ approvals' = approvals /\ pending' = pending
    \/ /\ type = "escalated" /\ by \in Approvals
       /\ status' = status /\ assignee' = assignee /\ memory' = memory
       /\ Approving(by, t, "ESCALATE")
    \/ /\ by \in Approvals
       /\ type = IF status[t] = "IN_PROGRESS" THEN "force_closed" ELSE "closed"
       /\ status[t] \in {"IN_PROGRESS", "RESOLVED"} /\ status'[t] = "CLOSED"
       /\ memory'[t] = IF memory[t] = "none" THEN "force_closed" ELSE memory[t]
       /\ assignee' = assignee
       /\ Approving(by, t, "FORCE_CLOSE")

LoggedMove(t, type, by) ==
    Record(t, type, by) /\ OthersUntouched(t) /\ Move(t, type, by)

\* Carrying out an approval is a logged move of its ticket.
LEMMA ApproveMoves ==
    ASSUME TypeOK, Addressed, NEW a \in Approvals, NEW via \in Routes,
           ApproveEscalate(a, via) \/ ApproveForceClose(a, via)
    PROVE  /\ approvals[a].ticket \in Tickets
           /\ \E type \in TicketEventType : LoggedMove(approvals[a].ticket, type, a)
<1>1. approvals[a].ticket \in Tickets
  BY DEF ApproveEscalate, ApproveForceClose, Decide, Addressed
<1>2. CASE ApproveEscalate(a, via)
  <2>1. LoggedMove(approvals[a].ticket, "escalated", a)
    BY <1>2 DEF ApproveEscalate, Decide, LoggedMove, OthersUntouched, Move, Approving
  <2>2. QED
    BY <1>1, <2>1 DEF TicketEventType
<1>3. CASE ApproveForceClose(a, via)
  <2> DEFINE t == approvals[a].ticket
  <2> DEFINE type == EventForTransition(status[t], "CLOSED")
  <2>1. t \in Tickets /\ a \in Actors /\ Transition(t, "CLOSED", a)
    BY <1>1, <1>3 DEF ApproveForceClose, Actors
  <2>2. type = IF status[t] = "IN_PROGRESS" THEN "force_closed" ELSE "closed"
    BY DEF EventForTransition
  <2>3. /\ memory'[t] = IF memory[t] = "none" THEN "force_closed" ELSE memory[t]
        /\ \A u \in Tickets : u # t => memory'[u] = memory[u]
    BY <1>3, <2>1 DEF ApproveForceClose, Remember, TypeOK
  <2>4. /\ type \in TicketEventType /\ Record(t, type, a)
        /\ status[t] \in {"IN_PROGRESS", "RESOLVED"} /\ status'[t] = "CLOSED"
        /\ \A u \in Tickets : u # t => status'[u] = status[u]
    BY <2>1, TransitionEffect
  <2>5. Approving(a, t, "FORCE_CLOSE") /\ assignee' = assignee
    BY <1>3 DEF ApproveForceClose, Decide, Approving
  <2>6. Move(t, type, a)
    BY <2>2, <2>3, <2>4, <2>5 DEF Move
  <2>7. LoggedMove(t, type, a)
    BY <2>3, <2>4, <2>5, <2>6 DEF LoggedMove, OthersUntouched
  <2>8. QED
    BY <2>1, <2>4, <2>7
<1>4. QED
  BY <1>2, <1>3

LEMMA StepMoves ==
    ASSUME TypeOK, Addressed, [Next]_vars
    PROVE  \/ Untouched
           \/ \E t \in Tickets, type \in TicketEventType, by \in Actors : LoggedMove(t, type, by)
<1>1. ASSUME NEW t \in Tickets, NEW o \in Operators, NEW via \in Routes, Claim(t, o, via)
      PROVE  LoggedMove(t, "claimed", o)
  BY <1>1 DEF Claim, Claimable, LoggedMove, OthersUntouched, Move, TypeOK
<1>2. ASSUME NEW t \in Tickets, NEW o \in Operators, NEW via \in Routes, Resolve(t, o, via)
      PROVE  LoggedMove(t, "resolved", o)
  <2>1. Transition(t, "RESOLVED", o) /\ o \in Actors
    BY <1>2 DEF Resolve, Actors
  <2>2. EventForTransition(status[t], "RESOLVED") = "resolved"
    BY DEF EventForTransition
  <2>3. QED
    BY <1>2, <2>1, <2>2, TransitionEffect DEF Resolve, LoggedMove, OthersUntouched, Move
<1>3. ASSUME NEW t \in Tickets, CreateTicket(t)
      PROVE  LoggedMove(t, "created", NoOne)
  BY <1>3 DEF CreateTicket, LoggedMove, OthersUntouched, Move, TypeOK
<1>4. ASSUME NEW t \in Tickets, RequesterConfirm(t)
      PROVE  LoggedMove(t, "closed", Requester)
  <2>1. Transition(t, "CLOSED", Requester) /\ Requester \in Actors /\ status[t] = "RESOLVED"
    BY <1>4 DEF RequesterConfirm, AwaitsAnswer, Actors
  <2>2. EventForTransition(status[t], "CLOSED") = "closed"
    BY <2>1 DEF EventForTransition
  <2>3. /\ memory'[t] = IF memory[t] = "none" THEN "confirmed_closure" ELSE memory[t]
        /\ \A u \in Tickets : u # t => memory'[u] = memory[u]
    BY <1>4 DEF RequesterConfirm, Remember, TypeOK
  <2>4. QED
    BY <1>4, <2>1, <2>2, <2>3, TransitionEffect
    DEF RequesterConfirm, LoggedMove, OthersUntouched, Move
<1>5. ASSUME NEW t \in Tickets, RejectResolution(t)
      PROVE  LoggedMove(t, "resolution_rejected", Requester)
  <2>1. Transition(t, "IN_PROGRESS", Requester) /\ Requester \in Actors /\ status[t] = "RESOLVED"
    BY <1>5 DEF RejectResolution, AwaitsAnswer, Actors
  <2>2. EventForTransition(status[t], "IN_PROGRESS") = "resolution_rejected"
    BY <2>1 DEF EventForTransition
  <2>3. QED
    BY <1>5, <2>1, <2>2, TransitionEffect DEF RejectResolution, LoggedMove, OthersUntouched, Move
<1>6. CASE RequestStep
  BY <1>6 DEF RequestStep, Escalate, ForceClose, Propose, RequestForceClose, RequestApproval, Untouched
<1>7. ASSUME NEW a \in Approvals, (\E via \in Routes : Reject(a, via)) \/ ApproveInVain(a)
      PROVE  Untouched
  BY <1>7 DEF Reject, ApproveInVain, Decide, Untouched
<1>8. CASE (\E r \in RestCalls, t \in Tickets : CheckForceClose(r, t)) \/ UNCHANGED vars
  BY <1>8 DEF CheckForceClose, Untouched, vars
<1>9. {"created", "claimed", "resolved", "resolution_rejected", "closed"} \subseteq TicketEventType
  BY DEF TicketEventType
<1>10. Operators \subseteq Actors /\ Approvals \subseteq Actors /\ {Requester, NoOne} \subseteq Actors
  BY DEF Actors
<1>11. CASE OperatorStep \/ RequesterStep
  BY <1>1, <1>2, <1>3, <1>4, <1>5, <1>9, <1>10, <1>11 DEF OperatorStep, RequesterStep
<1>12. CASE ApproverStep
  BY ApproveMoves, <1>7, <1>10, <1>12 DEF ApproverStep
<1>13. QED
  BY <1>6, <1>8, <1>11, <1>12 DEF Next

Taken(t) == status[t] \in {"IN_PROGRESS", "RESOLVED", "CLOSED"}

\* A ticket that was taken up is never handed back, a closed one stays closed.
LEMMA StatusForward ==
    ASSUME TypeOK, Addressed, [Next]_vars, NEW t \in Tickets
    PROVE  /\ Taken(t) => Taken(t)'
           /\ status[t] = "CLOSED" => status'[t] = "CLOSED"
           /\ status[t] # "NONE" => status'[t] # "NONE"
<1>1. CASE Untouched
  BY <1>1 DEF Untouched, Taken
<1>2. ASSUME NEW u \in Tickets, NEW type \in TicketEventType, NEW by \in Actors, LoggedMove(u, type, by)
      PROVE  /\ Taken(t) => Taken(t)'
             /\ status[t] = "CLOSED" => status'[t] = "CLOSED"
             /\ status[t] # "NONE" => status'[t] # "NONE"
  <2>1. CASE t # u
    BY <1>2, <2>1 DEF LoggedMove, OthersUntouched, Taken
  <2>2. CASE t = u
    BY <1>2, <2>2 DEF LoggedMove, Move, Taken
  <2>3. QED
    BY <2>1, <2>2
<1>3. QED
  BY <1>1, <1>2, StepMoves

-----------------------------------------------------------------------------
(* What a step does to the approvals                                         *)

\* Approval and pending action are decided together.
DecidedTogether ==
    \A a \in Approvals :
        /\ approvals[a].status = "NONE"     => pending[a] = "NONE"
        /\ approvals[a].status = "PENDING"  => pending[a] = "PENDING"
        /\ approvals[a].status = "APPROVED" => pending[a] = "EXECUTED"
        /\ approvals[a].status = "REJECTED" => pending[a] = "SKIPPED"

\* A forced close is only ever asked for a ticket that was taken up: what a
\* REST call has read stays true in this respect however late it asks.
ForceCloseOfTaken ==
    /\ \A a \in Approvals :
          approvals[a].status # "NONE" /\ approvals[a].action = "FORCE_CLOSE"
              => Taken(approvals[a].ticket)
    /\ \A r \in RestCalls : checked[r] # NoTicket => Taken(checked[r])

RequestsInv ==
    TypeOK /\ Addressed /\ DecidedTogether /\ ForceCloseOfTaken /\ ExecutedForceCloseMeansClosed

\* Approval a is asked for, about ticket t.
AskedFor(a, t, action) ==
    /\ approvals[a].status = "NONE" /\ status[t] # "NONE"
    /\ action = "FORCE_CLOSE" => Taken(t)
    /\ approvals' = [approvals EXCEPT ![a] = [status |-> "PENDING", ticket |-> t, action |-> action]]
    /\ pending' = [pending EXCEPT ![a] = "PENDING"]

\* Approval a is decided, a forced close only with the ticket closed.
Settled(a, decision, execution) ==
    /\ Decide(a, decision, execution)
    /\ <<decision, execution>> \in {<<"APPROVED", "EXECUTED">>, <<"REJECTED", "SKIPPED">>}
    /\ decision = "APPROVED" /\ approvals[a].action = "FORCE_CLOSE"
          => status'[approvals[a].ticket] = "CLOSED"

\* Every way to ask for an approval asks for it this way.
LEMMA RequestAsks ==
    ASSUME RequestsInv, RequestStep
    PROVE  \E a \in Approvals, t \in Tickets, action \in ApprovableAction : AskedFor(a, t, action)
<1> USE DEF RequestsInv
<1>1. ASSUME NEW a \in Approvals, NEW t \in Tickets, NEW via \in Routes, Escalate(a, t, via)
      PROVE  AskedFor(a, t, "ESCALATE")
  BY <1>1 DEF Escalate, RequestApproval, AskedFor
<1>2. ASSUME NEW a \in Approvals, NEW t \in Tickets, ForceClose(a, t)
      PROVE  AskedFor(a, t, "FORCE_CLOSE")
  BY <1>2 DEF ForceClose, ForceCloseAllowed, RequestApproval, AskedFor, Taken
<1>3. ASSUME NEW a \in Approvals, NEW t \in Tickets, NEW action \in ApprovableAction, Propose(a, t, action)
      PROVE  AskedFor(a, t, action)
  BY <1>3 DEF Propose, ProposalAllowed, ForceCloseAllowed, RequestApproval, AskedFor, Taken
<1>4. ASSUME NEW a \in Approvals, NEW r \in RestCalls, RequestForceClose(r, a)
      PROVE  checked[r] \in Tickets /\ AskedFor(a, checked[r], "FORCE_CLOSE")
  BY <1>4 DEF RequestForceClose, RequestApproval, AskedFor, ForceCloseOfTaken, TypeOK
<1>5. QED
  BY <1>1, <1>2, <1>3, <1>4 DEF RequestStep, ApprovableAction

LEMMA StepRequests ==
    ASSUME RequestsInv, [Next]_vars
    PROVE  \/ approvals' = approvals /\ pending' = pending
           \/ \E a \in Approvals, t \in Tickets, action \in ApprovableAction : AskedFor(a, t, action)
           \/ \E a \in Approvals, d \in {"APPROVED", "REJECTED"}, x \in {"EXECUTED", "SKIPPED"} :
                 Settled(a, d, x)
<1> USE DEF RequestsInv
<1>1. CASE OperatorStep \/ RequesterStep
  BY <1>1 DEF OperatorStep, RequesterStep, Claim, Resolve, CreateTicket, RequesterConfirm, RejectResolution
<1>2. CASE (\E r \in RestCalls, t \in Tickets : CheckForceClose(r, t)) \/ UNCHANGED vars
  BY <1>2 DEF CheckForceClose, vars
<1>3. CASE RequestStep
  BY <1>3, RequestAsks
<1>4. ASSUME NEW a \in Approvals, NEW via \in Routes, ApproveEscalate(a, via)
      PROVE  Settled(a, "APPROVED", "EXECUTED")
  BY <1>4 DEF ApproveEscalate, Settled
<1>5. ASSUME NEW a \in Approvals, NEW via \in Routes, ApproveForceClose(a, via)
      PROVE  Settled(a, "APPROVED", "EXECUTED")
  <2>1. approvals[a].ticket \in Tickets
    BY <1>5 DEF ApproveForceClose, Decide, Addressed
  <2>2. status'[approvals[a].ticket] = "CLOSED"
    BY <1>5, <2>1 DEF ApproveForceClose, Transition, TypeOK
  <2>3. QED
    BY <1>5, <2>2 DEF ApproveForceClose, Settled
<1>6. ASSUME NEW a \in Approvals, NEW via \in Routes, Reject(a, via)
       PROVE  Settled(a, "REJECTED", "SKIPPED")
  BY <1>6 DEF Reject, Settled
<1>7. ASSUME NEW a \in Approvals, ApproveInVain(a)
       PROVE  Settled(a, "APPROVED", "EXECUTED")
  <2> DEFINE t == approvals[a].ticket
  <2>1. t \in Tickets /\ Taken(t)
    BY <1>7 DEF ApproveInVain, Decide, Addressed, ForceCloseOfTaken
  <2>2. "CLOSED" \notin AllowedTransitions[status[t]]
    BY <1>7 DEF ApproveInVain
  <2>3. status[t] = "CLOSED"
    BY <2>1, <2>2 DEF Taken, AllowedTransitions, TicketStatus
  <2>4. QED
    BY <1>7, <2>3 DEF ApproveInVain, Settled
<1>8. CASE ApproverStep
  BY <1>4, <1>5, <1>6, <1>7, <1>8 DEF ApproverStep
<1>9. QED
  BY <1>1, <1>2, <1>3, <1>8 DEF Next

\* Approvals once asked for keep their ticket and action, decided ones their decision.
LEMMA RequestsForward ==
    ASSUME RequestsInv, [Next]_vars, NEW a \in Approvals, approvals[a].status # "NONE"
    PROVE  /\ approvals'[a].status # "NONE"
           /\ approvals'[a].ticket = approvals[a].ticket
           /\ approvals'[a].action = approvals[a].action
           /\ approvals[a].status # "PENDING" => approvals'[a].status = approvals[a].status
<1>1. ASSUME NEW b \in Approvals, NEW t \in Tickets, NEW action \in ApprovableAction, AskedFor(b, t, action)
      PROVE  approvals'[a] = approvals[a]
  BY <1>1 DEF AskedFor, RequestsInv, TypeOK
<1>2. ASSUME NEW b \in Approvals, NEW d \in {"APPROVED", "REJECTED"}, NEW x \in {"EXECUTED", "SKIPPED"},
             Settled(b, d, x)
      PROVE  /\ approvals'[a].status # "NONE"
             /\ approvals'[a].ticket = approvals[a].ticket
             /\ approvals'[a].action = approvals[a].action
             /\ approvals[a].status # "PENDING" => approvals'[a].status = approvals[a].status
  BY <1>2 DEF Settled, Decide, RequestsInv, TypeOK
<1>3. QED
  BY <1>1, <1>2, StepRequests

LEMMA RequestsInvInit == Init => RequestsInv
BY TypeInit DEF Init, RequestsInv, Addressed, DecidedTogether, ForceCloseOfTaken,
                ExecutedForceCloseMeansClosed

LEMMA RequestsInvStep == RequestsInv /\ [Next]_vars => RequestsInv'
<1> SUFFICES ASSUME RequestsInv, [Next]_vars PROVE RequestsInv'
  OBVIOUS
<1>1. TypeOK'
  BY TypeStep DEF RequestsInv
<1>2. /\ \A t \in Tickets : Taken(t) => Taken(t)'
      /\ \A t \in Tickets : status[t] = "CLOSED" => status'[t] = "CLOSED"
      /\ \A t \in Tickets : status[t] # "NONE" => status'[t] # "NONE"
  BY StatusForward DEF RequestsInv
<1>3. /\ \A a \in Approvals : approvals[a].status # "NONE" => approvals[a].ticket \in Tickets
      /\ \A a \in Approvals : pending[a] = "EXECUTED" => approvals[a].status # "NONE"
  BY DEF RequestsInv, Addressed, DecidedTogether
<1>4. \A r \in RestCalls : checked'[r] # NoTicket => Taken(checked[r])'
  <2>1. SUFFICES ASSUME NEW r \in RestCalls, checked'[r] # NoTicket PROVE Taken(checked[r])'
    OBVIOUS
  <2>2. checked[r] # NoTicket => checked[r] \in Tickets /\ Taken(checked[r])
    BY DEF RequestsInv, ForceCloseOfTaken, TypeOK
  <2>3. CASE checked'[r] = checked[r]
    BY <1>2, <2>1, <2>2, <2>3 DEF Taken
  <2>4. ASSUME NEW q \in RestCalls, NEW t \in Tickets, CheckForceClose(q, t)
        PROVE  Taken(checked[r])'
    BY <1>2, <2>1, <2>2, <2>4 DEF CheckForceClose, ForceCloseAllowed, Taken, RequestsInv, TypeOK
  <2>5. ASSUME NEW q \in RestCalls, NEW a \in Approvals, RequestForceClose(q, a)
        PROVE  Taken(checked[r])'
    <3>1. checked'[r] = checked[r]
      BY <2>1, <2>5 DEF RequestForceClose, RequestsInv, TypeOK
    <3>2. QED
      BY <2>3, <3>1
  <2>6. CASE checked' = checked
    BY <2>3, <2>6
  <2>7. OperatorStep \/ RequesterStep \/ ApproverStep \/ UNCHANGED vars => checked' = checked
    BY DEF OperatorStep, RequesterStep, ApproverStep, Claim, Resolve, CreateTicket, RequesterConfirm,
           RejectResolution, ApproveEscalate, ApproveForceClose, ApproveInVain, Reject, Decide, vars
  <2>8. RequestStep => \/ checked' = checked
                       \/ \E q \in RestCalls, a \in Approvals : RequestForceClose(q, a)
    BY DEF RequestStep, Escalate, ForceClose, Propose
  <2>9. QED
    BY <2>4, <2>5, <2>6, <2>7, <2>8 DEF Next
<1>5. CASE approvals' = approvals /\ pending' = pending
  BY <1>1, <1>2, <1>3, <1>4, <1>5
  DEF RequestsInv, Addressed, DecidedTogether, ForceCloseOfTaken, ExecutedForceCloseMeansClosed, Taken
<1>6. ASSUME NEW a \in Approvals, NEW t \in Tickets, NEW action \in ApprovableAction, AskedFor(a, t, action)
      PROVE  RequestsInv'
  <2>1. /\ approvals'[a] = [status |-> "PENDING", ticket |-> t, action |-> action]
        /\ pending'[a] = "PENDING"
        /\ \A b \in Approvals : b # a => approvals'[b] = approvals[b] /\ pending'[b] = pending[b]
    BY <1>6 DEF AskedFor, RequestsInv, TypeOK
  <2>2. action = "FORCE_CLOSE" => Taken(t)'
    BY <1>2, <1>6 DEF AskedFor
  <2>3. Addressed' /\ DecidedTogether'
    BY <1>2, <1>6, <2>1 DEF RequestsInv, Addressed, DecidedTogether, AskedFor
  <2>4. \A b \in Approvals :
           approvals'[b].status # "NONE" /\ approvals'[b].action = "FORCE_CLOSE" => Taken(approvals[b].ticket)'
    BY <1>2, <1>3, <2>1, <2>2 DEF RequestsInv, ForceCloseOfTaken, Taken
  <2>5. ExecutedForceCloseMeansClosed'
    BY <1>2, <1>3, <2>1 DEF RequestsInv, ExecutedForceCloseMeansClosed
  <2>6. QED
    BY <1>1, <1>4, <2>3, <2>4, <2>5 DEF RequestsInv, ForceCloseOfTaken
<1>7. ASSUME NEW a \in Approvals, NEW d \in {"APPROVED", "REJECTED"}, NEW x \in {"EXECUTED", "SKIPPED"},
             Settled(a, d, x)
      PROVE  RequestsInv'
  <2>1. /\ approvals'[a] = [approvals[a] EXCEPT !.status = d] /\ approvals[a].status = "PENDING"
        /\ pending'[a] = x
        /\ <<d, x>> \in {<<"APPROVED", "EXECUTED">>, <<"REJECTED", "SKIPPED">>}
        /\ \A b \in Approvals : b # a => approvals'[b] = approvals[b] /\ pending'[b] = pending[b]
    BY <1>7 DEF Settled, Decide, RequestsInv, TypeOK
  <2>2. /\ approvals'[a].ticket = approvals[a].ticket /\ approvals'[a].action = approvals[a].action
        /\ approvals'[a].status = d
    BY <2>1 DEF RequestsInv, TypeOK
  <2>3. \A b \in Approvals :
          /\ approvals'[b].status # "NONE" => approvals[b].status # "NONE"
          /\ approvals'[b].ticket = approvals[b].ticket
          /\ approvals'[b].action = approvals[b].action
    BY <2>1, <2>2
  <2>4. DecidedTogether'
    BY <2>1, <2>2 DEF RequestsInv, DecidedTogether
  <2>5. Addressed'
    BY <1>2, <2>3 DEF RequestsInv, Addressed
  <2>6. \A b \in Approvals :
           approvals'[b].status # "NONE" /\ approvals'[b].action = "FORCE_CLOSE" => Taken(approvals[b].ticket)'
    <3>1. SUFFICES ASSUME NEW b \in Approvals,
                          approvals'[b].status # "NONE", approvals'[b].action = "FORCE_CLOSE"
                   PROVE  Taken(approvals[b].ticket)'
      OBVIOUS
    <3>2. approvals[b].ticket \in Tickets /\ Taken(approvals[b].ticket)
      BY <1>3, <2>3, <3>1 DEF RequestsInv, ForceCloseOfTaken
    <3>3. QED
      BY <1>2, <2>3, <3>2 DEF Taken
  <2>7. ASSUME NEW b \in Approvals, pending'[b] = "EXECUTED", approvals'[b].action = "FORCE_CLOSE"
        PROVE  status'[approvals'[b].ticket] = "CLOSED"
    <3>1. CASE b = a
      BY <1>7, <2>1, <2>2, <2>7, <3>1 DEF Settled
    <3>2. CASE b # a
      BY <1>2, <1>3, <2>1, <2>7, <3>2 DEF RequestsInv, ExecutedForceCloseMeansClosed
    <3>3. QED
      BY <3>1, <3>2
  <2>8. ExecutedForceCloseMeansClosed'
    BY <2>7 DEF ExecutedForceCloseMeansClosed
  <2>9. QED
    BY <1>1, <1>4, <2>4, <2>5, <2>6, <2>8 DEF RequestsInv, ForceCloseOfTaken
<1>8. QED
  BY <1>5, <1>6, <1>7, StepRequests

\* The shapes of the tables hold in every reachable state.
THEOREM TypeCorrect == Spec => []TypeOK
<1>1. RequestsInv => TypeOK
  BY DEF RequestsInv
<1>2. QED
  BY <1>1, RequestsInvInit, RequestsInvStep, PTL DEF Spec

\* However stale the status that POST /tickets/{id}/close acted on, and whichever
\* route executes the approval, an executed forced close has its ticket closed.
THEOREM ForceCloseIsClosed == Spec => []ExecutedForceCloseMeansClosed
<1>1. RequestsInv => ExecutedForceCloseMeansClosed
  BY DEF RequestsInv
<1>2. QED
  BY <1>1, RequestsInvInit, RequestsInvStep, PTL DEF Spec

-----------------------------------------------------------------------------
(* What the logs say                                                         *)

\* One logged move, spelled out for the log of its ticket.
LEMMA LoggedMoveEffect ==
    ASSUME TypeOK, NEW t \in Tickets, NEW type \in TicketEventType, NEW by \in Actors,
           LoggedMove(t, type, by)
    PROVE  /\ \A u \in Tickets : u # t => /\ events'[u] = events[u] /\ status'[u] = status[u]
                                           /\ assignee'[u] = assignee[u] /\ memory'[u] = memory[u]
           /\ Len(events[t]) \in Nat
           /\ DOMAIN events[t] = 1 .. Len(events[t])
           /\ Len(events'[t]) = Len(events[t]) + 1
           /\ DOMAIN events'[t] = DOMAIN events[t] \cup {Len(events[t]) + 1}
           /\ \A i \in DOMAIN events[t] : events'[t][i] = events[t][i] /\ i # Len(events[t]) + 1
           /\ events'[t][Len(events[t]) + 1].type = type
           /\ events'[t][Len(events[t]) + 1].by = by
           /\ Move(t, type, by)
<1>1. Record(t, type, by)
  BY DEF LoggedMove
<1>2. DOMAIN events[t] = 1 .. Len(events[t]) /\ Len(events[t]) \in Nat
  BY <1>1, RecordEffect
<1>3. \A i \in DOMAIN events[t] : i # Len(events[t]) + 1
  BY <1>2
<1>4. events'[t][Len(events[t]) + 1] = [type |-> type, by |-> by]
  BY <1>1, RecordEffect
<1>5. QED
  BY <1>1, <1>2, <1>3, <1>4, RecordEffect DEF LoggedMove, OthersUntouched

\* However many operators claim: OneClaim is inductive with RequestsInv.
LEMMA OneClaimStep ==
    ASSUME RequestsInv, OneClaim, [Next]_vars
    PROVE  OneClaim'
<1>1. CASE Untouched
  BY <1>1 DEF Untouched, OneClaim
<1>2. ASSUME NEW t \in Tickets, NEW type \in TicketEventType, NEW by \in Actors, LoggedMove(t, type, by)
      PROVE  OneClaim'
  <2> DEFINE n == Len(events[t]) + 1
  <2> DEFINE Claims(u) == {i \in DOMAIN events[u] : events[u][i].type = "claimed"}
  <2> DEFINE ClaimsNext(u) == {i \in DOMAIN events'[u] : events'[u][i].type = "claimed"}
  <2>1. /\ \A u \in Tickets : u # t => /\ events'[u] = events[u] /\ status'[u] = status[u]
                                        /\ assignee'[u] = assignee[u]
        /\ DOMAIN events'[t] = DOMAIN events[t] \cup {n}
        /\ \A i \in DOMAIN events[t] : events'[t][i] = events[t][i] /\ i # n
        /\ events'[t][n].type = type /\ events'[t][n].by = by
        /\ Move(t, type, by)
    BY <1>2, LoggedMoveEffect DEF RequestsInv
  <2> HIDE DEF n
  <2>2. ClaimsNext(t) = IF type = "claimed" THEN Claims(t) \cup {n} ELSE Claims(t)
    BY <2>1
  <2>3. \A i \in Claims(t) : events'[t][i].by = events[t][i].by
    BY <2>1
  <2>4. /\ status[t] \in {"NONE", "OPEN"} => Claims(t) = {} /\ assignee[t] = NoOne
        /\ status[t] \notin {"NONE", "OPEN"} =>
              \E i \in Claims(t) : Claims(t) = {i} /\ assignee[t] = events[t][i].by
    BY DEF OneClaim
  <2> HIDE DEF Claims, ClaimsNext
  <2>5. CASE type = "claimed"
    <3>1. ClaimsNext(t) = {n} /\ assignee'[t] = by /\ status'[t] = "IN_PROGRESS"
      BY <2>1, <2>2, <2>4, <2>5 DEF Move
    <3>2. QED
      BY <2>1, <3>1 DEF OneClaim, ClaimsNext
  <2>6. CASE type # "claimed"
    <3>1. /\ ClaimsNext(t) = Claims(t) /\ assignee'[t] = assignee[t]
          /\ status[t] \in {"NONE", "OPEN"} <=> status'[t] \in {"NONE", "OPEN"}
      BY <2>1, <2>2, <2>6 DEF Move
    <3>2. \A u \in Tickets : u # t => ClaimsNext(u) = Claims(u)
      BY <2>1 DEF ClaimsNext, Claims
    <3>3. /\ status'[t] \in {"NONE", "OPEN"} => ClaimsNext(t) = {} /\ assignee'[t] = NoOne
          /\ status'[t] \notin {"NONE", "OPEN"} =>
                \E i \in ClaimsNext(t) : ClaimsNext(t) = {i} /\ assignee'[t] = events'[t][i].by
      BY <2>3, <2>4, <3>1
    <3>4. QED
      BY <2>1, <3>2, <3>3 DEF OneClaim, ClaimsNext, Claims
  <2>7. QED
    BY <2>5, <2>6
<1>3. QED
  BY <1>1, <1>2, StepMoves DEF RequestsInv

\* No approval acts before it is approved, on another ticket, or twice.
LEMMA ApprovalsActOnceStep ==
    ASSUME RequestsInv, ApprovalsActOnce, [Next]_vars
    PROVE  ApprovalsActOnce'
<1> DEFINE Acted(a) == \A t \in Tickets : \A i \in DOMAIN events[t] :
                          events[t][i].by = a =>
                             /\ approvals[a].ticket = t
                             /\ approvals[a].status = "APPROVED"
                             /\ \A j \in DOMAIN events[t] : events[t][j].by = a => i = j
<1>1. ASSUME NEW a \in Approvals
      PROVE  pending'[a] = CASE approvals'[a].status = "APPROVED" -> "EXECUTED"
                             [] approvals'[a].status = "REJECTED" -> "SKIPPED"
                             [] OTHER                             -> approvals'[a].status
  <2>1. RequestsInv'
    BY RequestsInvStep
  <2>2. approvals'[a].status \in {"NONE", "PENDING", "APPROVED", "REJECTED"}
    BY <2>1 DEF RequestsInv, TypeOK
  <2>3. QED
    BY <2>1, <2>2 DEF RequestsInv, DecidedTogether
<1>2. ASSUME NEW a \in Approvals
      PROVE  Acted(a)'
  <2>1. Acted(a)
    BY DEF ApprovalsActOnce
  <2>2. /\ approvals[a].status = "APPROVED" => approvals'[a].status = "APPROVED"
        /\ approvals[a].status # "NONE" => approvals'[a].ticket = approvals[a].ticket
    BY RequestsForward
  <2>3. CASE Untouched
    BY <2>1, <2>2, <2>3 DEF Untouched
  <2>4. ASSUME NEW t \in Tickets, NEW type \in TicketEventType, NEW by \in Actors, LoggedMove(t, type, by)
        PROVE  Acted(a)'
    <3> DEFINE n == Len(events[t]) + 1
    <3>1. /\ \A u \in Tickets : u # t => events'[u] = events[u]
          /\ DOMAIN events'[t] = DOMAIN events[t] \cup {n}
          /\ \A i \in DOMAIN events[t] : events'[t][i] = events[t][i] /\ i # n
          /\ events'[t][n].by = by
          /\ Move(t, type, by)
      BY <2>4, LoggedMoveEffect DEF RequestsInv
    <3> HIDE DEF n
    <3>2. CASE by # a
      BY <2>1, <2>2, <3>1, <3>2
    <3>3. CASE by = a
      <4>1. approvals[a].status = "PENDING" /\ approvals[a].ticket = t /\ approvals'[a].status = "APPROVED"
        BY <3>1, <3>3, ActorsAssumption DEF Move, Approving, RequestsInv, TypeOK
      <4>2. \A u \in Tickets : \A i \in DOMAIN events[u] : events[u][i].by # a
        BY <2>1, <4>1
      <4>3. QED
        BY <2>2, <3>1, <4>1, <4>2
    <3>4. QED
      BY <3>2, <3>3
  <2>5. QED
    BY <2>3, <2>4, StepMoves DEF RequestsInv
<1>3. QED
  BY <1>1, <1>2 DEF ApprovalsActOnce

\* What a move other than an escalation does to the status is what its event
\* says, and the state machine allows it.
LEMMA MoveStatus ==
    ASSUME TypeOK, NEW t \in Tickets, NEW type, NEW by, Move(t, type, by), type # "escalated"
    PROVE  /\ status'[t] = StatusAfter(type)
           /\ status[t] # "NONE" => StatusAfter(type) \in AllowedTransitions[status[t]]
           /\ status[t] = "NONE" => type = "created"
           /\ status'[t] # "NONE"
<1>1. /\ AllowedTransitions["OPEN"] = {"IN_PROGRESS"}
      /\ AllowedTransitions["IN_PROGRESS"] = {"RESOLVED", "CLOSED"}
      /\ AllowedTransitions["RESOLVED"] = {"CLOSED", "IN_PROGRESS"}
  BY DEF AllowedTransitions, TicketStatus
<1>2. /\ StatusAfter("created") = "OPEN" /\ StatusAfter("claimed") = "IN_PROGRESS"
      /\ StatusAfter("resolution_rejected") = "IN_PROGRESS" /\ StatusAfter("resolved") = "RESOLVED"
      /\ StatusAfter("closed") = "CLOSED" /\ StatusAfter("force_closed") = "CLOSED"
  BY DEF StatusAfter
<1>3. QED
  BY <1>1, <1>2 DEF Move

\* The log of one ticket explains its status.
Explains(log, s) ==
    /\ (s = "NONE") <=> (log = << >>)
    /\ log # << >> => log[1].type = "created"
    /\ \A i \in DOMAIN log :
          log[i].type # "escalated" =>
             /\ QuietBetween(log, i, Len(log) + 1) => s = StatusAfter(log[i].type)
             /\ \A j \in DOMAIN log :
                   (i < j /\ log[j].type # "escalated" /\ QuietBetween(log, i, j))
                      => StatusAfter(log[j].type) \in AllowedTransitions[StatusAfter(log[i].type)]

\* Appending an event to a log that explains a status.
LEMMA ExplainsAppend ==
    ASSUME NEW R, NEW log \in Seq(R), NEW s, Explains(log, s),
           NEW more \in Seq(R), NEW r, Len(more) = Len(log) + 1,
           \A i \in DOMAIN log : more[i] = log[i],
           NEW type, more[Len(log) + 1].type = type,
           \/ type = "escalated" /\ r = s /\ s # "NONE"
           \/ /\ type # "escalated" /\ r = StatusAfter(type) /\ r # "NONE"
              /\ s = "NONE" => type = "created"
              /\ s # "NONE" => StatusAfter(type) \in AllowedTransitions[s]
    PROVE  Explains(more, r)
<1> DEFINE n == Len(log) + 1
<1>1. /\ n \in Nat /\ Len(more) = n /\ DOMAIN more = 1 .. n /\ DOMAIN log = 1 .. (n - 1)
      /\ n \in DOMAIN more
  OBVIOUS
<1>2. \A i \in DOMAIN log : i \in DOMAIN more /\ i < n /\ more[i] = log[i] /\ i \in Nat
  BY <1>1
<1>3. \A i \in DOMAIN more : i = n \/ i \in DOMAIN log
  BY <1>1
<1>4. more # << >> /\ more[n].type = type
  BY <1>1
<1>5. log = << >> <=> n = 1
  OBVIOUS
<1> HIDE DEF n
<1>6. more[1].type = "created"
  BY <1>1, <1>2, <1>4, <1>5 DEF Explains
<1>7. \A i, j \in DOMAIN log : QuietBetween(more, i, j) <=> QuietBetween(log, i, j)
  BY <1>1, <1>2, <1>3 DEF QuietBetween
<1>8. \A i \in DOMAIN log : QuietBetween(more, i, n) <=> QuietBetween(log, i, n)
  BY <1>1, <1>2, <1>3 DEF QuietBetween
<1>9. \A i \in DOMAIN log : QuietBetween(more, i, n + 1) => QuietBetween(log, i, n) /\ type = "escalated"
  BY <1>1, <1>2, <1>4 DEF QuietBetween
<1>10. \A i \in DOMAIN log :
          log[i].type # "escalated" =>
             /\ QuietBetween(log, i, n) => s = StatusAfter(log[i].type)
             /\ \A j \in DOMAIN log :
                   (i < j /\ log[j].type # "escalated" /\ QuietBetween(log, i, j))
                      => StatusAfter(log[j].type) \in AllowedTransitions[StatusAfter(log[i].type)]
  BY DEF Explains, n
<1>11. ASSUME NEW i \in DOMAIN more, more[i].type # "escalated", QuietBetween(more, i, Len(more) + 1)
       PROVE  r = StatusAfter(more[i].type)
  <2>1. CASE i = n
    BY <1>4, <1>11, <2>1
  <2>2. CASE i \in DOMAIN log
    BY <1>1, <1>2, <1>9, <1>10, <1>11, <2>2
  <2>3. QED
    BY <1>3, <2>1, <2>2
<1>12. ASSUME NEW i \in DOMAIN more, NEW j \in DOMAIN more, more[i].type # "escalated",
              i < j, more[j].type # "escalated", QuietBetween(more, i, j)
       PROVE  StatusAfter(more[j].type) \in AllowedTransitions[StatusAfter(more[i].type)]
  <2>1. i \in DOMAIN log
    BY <1>1, <1>12
  <2>2. CASE j \in DOMAIN log
    BY <1>2, <1>7, <1>10, <1>12, <2>1, <2>2
  <2>3. CASE j = n
    <3>1. s = StatusAfter(log[i].type) /\ type # "escalated"
      BY <1>2, <1>4, <1>8, <1>10, <1>12, <2>1, <2>3
    <3>2. s # "NONE"
      BY <1>1, <2>1 DEF Explains
    <3>3. QED
      BY <1>2, <1>4, <2>1, <2>3, <3>1, <3>2
  <2>4. QED
    BY <1>3, <2>2, <2>3
<1>13. r # "NONE"
  OBVIOUS
<1>14. QED
  BY <1>4, <1>6, <1>11, <1>12, <1>13 DEF Explains

LEMMA LogExplainsStatusStep ==
    ASSUME RequestsInv, LogExplainsStatus, [Next]_vars
    PROVE  LogExplainsStatus'
<1>1. \A t \in Tickets : Explains(events[t], status[t])
  BY DEF LogExplainsStatus, Explains
<1>2. SUFFICES ASSUME NEW t \in Tickets PROVE Explains(events'[t], status'[t])
  BY DEF LogExplainsStatus, Explains, QuietBetween
<1>3. CASE Untouched
  BY <1>1, <1>3 DEF Untouched
<1>4. ASSUME NEW u \in Tickets, NEW type \in TicketEventType, NEW by \in Actors, LoggedMove(u, type, by)
      PROVE  Explains(events'[t], status'[t])
  <2>1. CASE t # u
    BY <1>1, <1>4, <2>1, LoggedMoveEffect DEF RequestsInv
  <2>2. CASE t = u
    <3>1. /\ Len(events'[t]) = Len(events[t]) + 1
          /\ \A i \in DOMAIN events[t] : events'[t][i] = events[t][i]
          /\ events'[t][Len(events[t]) + 1].type = type
          /\ Move(t, type, by)
      BY <1>4, <2>2, LoggedMoveEffect DEF RequestsInv
    <3>2. events[t] \in Seq(EventRecord) /\ events'[t] \in Seq(EventRecord)
      BY <1>4, <2>2, RecordEffect DEF RequestsInv, TypeOK, EventRecord, LoggedMove
    <3>3. CASE type = "escalated"
      <4>1. status'[t] = status[t] /\ Approving(by, t, "ESCALATE") /\ by \in Approvals
        BY <3>1, <3>3 DEF Move
      <4>2. status[t] # "NONE"
        BY <4>1 DEF Approving, RequestsInv, Addressed
      <4>3. QED
        BY <1>1, <3>1, <3>2, <3>3, <4>1, <4>2, ExplainsAppend
    <3>4. CASE type # "escalated"
      BY <1>1, <3>1, <3>2, <3>4, MoveStatus, ExplainsAppend DEF RequestsInv
    <3>5. QED
      BY <3>3, <3>4
  <2>3. QED
    BY <2>1, <2>2
<1>5. QED
  BY <1>3, <1>4, StepMoves DEF RequestsInv

\* A closed ticket is closed by a mandate, and only a closed one is; its memory
\* carries the provenance of that mandate.
MandateInv ==
    /\ ClosureHasMandate
    /\ MemoryProvenance
    /\ \A t \in Tickets :
          status[t] # "CLOSED" => \A i \in DOMAIN events[t] : ~Closing(events[t][i])

Mandated(a, t) == ForceCloseOf(a, t) /\ approvals[a].status = "APPROVED"

LEMMA MandateStep ==
    ASSUME RequestsInv, MandateInv, [Next]_vars
    PROVE  MandateInv'
<1> DEFINE MandatedLog(t) ==
        /\ status[t] = "CLOSED" => \E i \in DOMAIN events[t] : Closing(events[t][i])
        /\ \A i \in DOMAIN events[t] :
              Closing(events[t][i]) =>
                 \/ events[t][i].by = Requester /\ events[t][i].type = "closed"
                 \/ \E a \in Approvals : events[t][i].by = a /\ Mandated(a, t)
        /\ \A i, j \in DOMAIN events[t] :
              Closing(events[t][i]) /\ Closing(events[t][j]) => i = j
        /\ memory[t] =
              IF status[t] # "CLOSED" THEN "none"
              ELSE IF \E i \in DOMAIN events[t] : Closing(events[t][i]) /\ events[t][i].by = Requester
                   THEN "confirmed_closure" ELSE "force_closed"
        /\ status[t] # "CLOSED" => \A i \in DOMAIN events[t] : ~Closing(events[t][i])
<1>1. \A t \in Tickets : MandatedLog(t)
  BY DEF MandateInv, ClosureHasMandate, MemoryProvenance, Mandated
<1>2. \A a \in Approvals, t \in Tickets : Mandated(a, t) => Mandated(a, t)'
  BY RequestsForward DEF Mandated, ForceCloseOf
<1>3. SUFFICES ASSUME NEW t \in Tickets PROVE MandatedLog(t)'
  BY DEF MandateInv, ClosureHasMandate, MemoryProvenance, Mandated
<1>4. ASSUME events'[t] = events[t], status'[t] = status[t], memory'[t] = memory[t]
      PROVE  MandatedLog(t)'
  BY <1>1, <1>2, <1>4 DEF Closing
<1>5. ASSUME NEW type \in TicketEventType, NEW by \in Actors, LoggedMove(t, type, by)
      PROVE  MandatedLog(t)'
  <2> DEFINE n == Len(events[t]) + 1
  <2>1. /\ DOMAIN events'[t] = DOMAIN events[t] \cup {n}
        /\ \A i \in DOMAIN events[t] : events'[t][i] = events[t][i] /\ i # n
        /\ events'[t][n].type = type /\ events'[t][n].by = by
        /\ Move(t, type, by)
    BY <1>5, LoggedMoveEffect DEF RequestsInv
  <2> HIDE DEF n
  <2>2. CASE type \notin {"closed", "force_closed"}
    <3>1. \A i \in DOMAIN events'[t] : Closing(events'[t][i]) =>
             i \in DOMAIN events[t] /\ events'[t][i] = events[t][i]
      BY <2>1, <2>2 DEF Closing
    <3>2. \A i \in DOMAIN events[t] : i \in DOMAIN events'[t] /\ events'[t][i] = events[t][i]
      BY <2>1
    <3>3. (status'[t] = "CLOSED" <=> status[t] = "CLOSED") /\ memory'[t] = memory[t]
      BY <2>1, <2>2 DEF Move
    <3>4. QED
      BY <1>1, <1>2, <3>1, <3>2, <3>3 DEF Closing
  <2>3. CASE type \in {"closed", "force_closed"}
    <3>1. status'[t] = "CLOSED" /\ status[t] # "CLOSED" /\ memory[t] = "none"
      BY <1>1, <2>1, <2>3 DEF Move
    <3>2. \A i \in DOMAIN events'[t] : Closing(events'[t][i]) <=> i = n
      BY <1>1, <2>1, <2>3, <3>1 DEF Closing
    <3>3. CASE by = Requester
      <4>1. type = "closed" /\ memory'[t] = "confirmed_closure"
        BY <2>1, <2>3, <3>1, <3>3, ActorsAssumption DEF Move
      <4>2. QED
        BY <2>1, <3>1, <3>2, <3>3, <4>1
    <3>4. CASE by # Requester
      <4>1. by \in Approvals /\ Approving(by, t, "FORCE_CLOSE") /\ memory'[t] = "force_closed"
        BY <2>1, <2>3, <3>1, <3>4 DEF Move
      <4>2. Mandated(by, t)'
        BY <4>1 DEF Approving, Mandated, ForceCloseOf, RequestsInv, TypeOK
      <4>3. QED
        BY <2>1, <3>1, <3>2, <3>4, <4>1, <4>2
    <3>5. QED
      BY <3>3, <3>4
  <2>4. QED
    BY <2>2, <2>3
<1>6. ASSUME NEW u \in Tickets, NEW type \in TicketEventType, NEW by \in Actors, LoggedMove(u, type, by)
      PROVE  MandatedLog(t)'
  <2>1. CASE t = u
    BY <1>5, <1>6, <2>1
  <2>2. CASE t # u
    BY <1>4, <1>6, <2>2, LoggedMoveEffect DEF RequestsInv
  <2>3. QED
    BY <2>1, <2>2
<1>7. CASE Untouched
  BY <1>4, <1>7 DEF Untouched
<1>8. QED
  BY <1>6, <1>7, StepMoves DEF RequestsInv

-----------------------------------------------------------------------------
\* The inductive invariant.
IInv == RequestsInv /\ OneClaim /\ ApprovalsActOnce /\ LogExplainsStatus /\ MandateInv

LEMMA IInvInit == Init => IInv
<1> SUFFICES ASSUME Init PROVE IInv
  OBVIOUS
<1>1. RequestsInv
  BY RequestsInvInit
<1>2. \A t \in Tickets : events[t] = << >> /\ DOMAIN events[t] = {}
  BY DEF Init
<1>3. OneClaim
  BY <1>2 DEF Init, OneClaim
<1>4. ApprovalsActOnce
  BY <1>2 DEF Init, ApprovalsActOnce
<1>5. LogExplainsStatus
  BY <1>2 DEF Init, LogExplainsStatus
<1>6. MandateInv
  BY <1>2 DEF Init, MandateInv, ClosureHasMandate, MemoryProvenance
<1>7. QED
  BY <1>1, <1>3, <1>4, <1>5, <1>6 DEF IInv

LEMMA IInvStep == IInv /\ [Next]_vars => IInv'
BY RequestsInvStep, OneClaimStep, ApprovalsActOnceStep, LogExplainsStatusStep, MandateStep DEF IInv

LEMMA IInvInvariant == Spec => []IInv
BY IInvInit, IInvStep, PTL DEF Spec

\* One winner among any number of operators who claim the same ticket (AC-15).
THEOREM OneClaimHolds == Spec => []OneClaim
<1>1. IInv => OneClaim
  BY DEF IInv
<1>2. QED
  BY <1>1, IInvInvariant, PTL

\* Ticket status and ticket events never drift apart.
THEOREM LogExplainsStatusHolds == Spec => []LogExplainsStatus
<1>1. IInv => LogExplainsStatus
  BY DEF IInv
<1>2. QED
  BY <1>1, IInvInvariant, PTL

\* Approvals are decided with their pending action and act at most once, on
\* their own ticket.
THEOREM ApprovalsActOnceHolds == Spec => []ApprovalsActOnce
<1>1. IInv => ApprovalsActOnce
  BY DEF IInv
<1>2. QED
  BY <1>1, IInvInvariant, PTL

\* Nobody but the requester or an approver of a forced close closes a ticket.
THEOREM ClosureHasMandateHolds == Spec => []ClosureHasMandate
<1>1. IInv => ClosureHasMandate
  BY DEF IInv, MandateInv
<1>2. QED
  BY <1>1, IInvInvariant, PTL

\* Memory is tagged with the provenance of the closure it was extracted at.
THEOREM MemoryProvenanceHolds == Spec => []MemoryProvenance
<1>1. IInv => MemoryProvenance
  BY DEF IInv, MandateInv
<1>2. QED
  BY <1>1, IInvInvariant, PTL

-----------------------------------------------------------------------------
(* Refinement: without decisions by channel, TicketLifecycle is Casework.     *)

\* One logged move, as the abstract variables see it.
LEMMA AbstractMove ==
    ASSUME TypeOK, TypeOK', NEW t \in Tickets, NEW type \in TicketEventType, NEW by \in Actors,
           LoggedMove(t, type, by)
    PROVE  /\ ClosedBy' = IF type \in {"closed", "force_closed"}
                          THEN [ClosedBy EXCEPT ![t] = @ \cup {by}] ELSE ClosedBy
           /\ EscalatedBy' = IF type = "escalated"
                             THEN [EscalatedBy EXCEPT ![t] = @ \cup {by}] ELSE EscalatedBy
           /\ status' = [status EXCEPT ![t] = status'[t]]
<1> DEFINE n == Len(events[t]) + 1
<1>1. /\ \A u \in Tickets : u # t => events'[u] = events[u] /\ status'[u] = status[u]
      /\ DOMAIN events'[t] = DOMAIN events[t] \cup {n}
      /\ \A i \in DOMAIN events[t] : events'[t][i] = events[t][i] /\ i # n
      /\ events'[t][n].type = type /\ events'[t][n].by = by
      /\ Move(t, type, by)
  BY LoggedMoveEffect
<1> HIDE DEF n
<1>2. ASSUME NEW types
      PROVE  EventsBy(t, types)' = IF type \in types THEN EventsBy(t, types) \cup {by} ELSE EventsBy(t, types)
  BY <1>1 DEF EventsBy
<1>3. ASSUME NEW types, NEW u \in Tickets, u # t
      PROVE  EventsBy(u, types)' = EventsBy(u, types)
  BY <1>1, <1>3 DEF EventsBy
<1>4. ClosedBy' = IF type \in {"closed", "force_closed"}
                  THEN [ClosedBy EXCEPT ![t] = @ \cup {by}] ELSE ClosedBy
  BY <1>2, <1>3 DEF ClosedBy
<1>5. EscalatedBy' = IF type = "escalated"
                     THEN [EscalatedBy EXCEPT ![t] = @ \cup {by}] ELSE EscalatedBy
  BY <1>2, <1>3 DEF EscalatedBy
<1>6. QED
  BY <1>1, <1>4, <1>5 DEF TypeOK

\* A decision, as the abstract variables see it.
LEMMA AbstractDecision ==
    ASSUME TypeOK, NEW a \in Approvals, NEW d \in {"APPROVED", "REJECTED"},
           approvals[a].status = "PENDING",
           approvals' = [approvals EXCEPT ![a].status = d]
    PROVE  LET t == approvals[a].ticket  action == approvals[a].action IN
           /\ CaseRequests[a] = Case!Asked(t, action, "open")
           /\ CaseRequests' = [CaseRequests EXCEPT
                 ![a] = Case!Asked(t, action, IF d = "APPROVED" THEN "done" ELSE "declined")]
<1>1. /\ approvals'[a].ticket = approvals[a].ticket /\ approvals'[a].action = approvals[a].action
      /\ approvals'[a].status = d
      /\ \A b \in Approvals : b # a => approvals'[b] = approvals[b]
  BY DEF TypeOK
<1>2. CaseRequest(a) = Case!Asked(approvals[a].ticket, approvals[a].action, "open")
  BY DEF CaseRequest, Case!Asked
<1>3. CaseRequest(a)' = Case!Asked(approvals[a].ticket, approvals[a].action,
                                   IF d = "APPROVED" THEN "done" ELSE "declined")
  BY <1>1 DEF CaseRequest, Case!Asked
<1>4. \A b \in Approvals : b # a => CaseRequest(b)' = CaseRequest(b)
  BY <1>1 DEF CaseRequest
<1>5. QED
  BY <1>2, <1>3, <1>4 DEF CaseRequests

\* Every logged move is a step of Casework.
LEMMA MoveRefines ==
    ASSUME RequestsInv, RequestsInv', NEW t \in Tickets, NEW type \in TicketEventType, NEW by \in Actors,
           LoggedMove(t, type, by)
    PROVE  Case!Next
<1>1. /\ ClosedBy' = IF type \in {"closed", "force_closed"}
                     THEN [ClosedBy EXCEPT ![t] = @ \cup {by}] ELSE ClosedBy
      /\ EscalatedBy' = IF type = "escalated"
                        THEN [EscalatedBy EXCEPT ![t] = @ \cup {by}] ELSE EscalatedBy
      /\ status' = [status EXCEPT ![t] = status'[t]]
  BY AbstractMove DEF RequestsInv
<1>2. Move(t, type, by) /\ OthersUntouched(t)
  BY DEF LoggedMove
<1>3. assignee' = assignee => Holder' = Holder
  BY DEF Holder
<1>4. approvals' = approvals => CaseRequests' = CaseRequests
  BY DEF CaseRequests, CaseRequest
<1>5. CASE type = "created"
  <2>1. Case!Open(t)
    BY <1>1, <1>2, <1>3, <1>4, <1>5 DEF Move, Case!Open, Case!Move
  <2>2. QED
    BY <2>1 DEF Case!Next, Case!CaseStep
<1>6. CASE type = "claimed"
  <2>1. by \in Operators /\ assignee[t] = NoOne /\ assignee'[t] = by /\ by # NoOne
    BY <1>2, <1>6, ActorsAssumption DEF Move
  <2>2. Holder[t] = {} /\ Holder' = [Holder EXCEPT ![t] = {by}]
    BY <1>2, <2>1 DEF Holder, OthersUntouched
  <2>3. Case!Take(t, by)
    BY <1>1, <1>2, <1>4, <1>6, <2>2 DEF Move, Case!Take, Case!Move
  <2>4. QED
    BY <2>1, <2>3 DEF Case!Next, Case!CaseStep
<1>7. CASE type = "resolved"
  <2>1. Case!Answer(t)
    BY <1>1, <1>2, <1>3, <1>4, <1>7 DEF Move, Case!Answer, Case!Move
  <2>2. QED
    BY <2>1 DEF Case!Next, Case!CaseStep
<1>8. CASE type = "resolution_rejected"
  <2>1. Case!Refuse(t)
    BY <1>1, <1>2, <1>3, <1>4, <1>8 DEF Move, Case!Refuse, Case!Move
  <2>2. QED
    BY <2>1 DEF Case!Next, Case!CaseStep
<1>9. CASE type = "escalated"
  <2>1. by \in Approvals /\ Approving(by, t, "ESCALATE") /\ status' = status /\ assignee' = assignee
    BY <1>2, <1>9 DEF Move
  <2>2. /\ CaseRequests[by] = Case!Asked(t, "ESCALATE", "open")
        /\ CaseRequests' = [CaseRequests EXCEPT ![by] = Case!Asked(t, "ESCALATE", "done")]
    BY <2>1, AbstractDecision DEF Approving, RequestsInv
  <2>3. Case!CarryOutEscalate(by, t)
    BY <1>1, <1>3, <1>9, <2>1, <2>2 DEF Case!CarryOutEscalate
  <2>4. QED
    BY <2>1, <2>3 DEF Case!Next, Case!RequestStep
<1>10. CASE type \in {"closed", "force_closed"} /\ by \in Approvals
  <2>1. /\ Approving(by, t, "FORCE_CLOSE") /\ assignee' = assignee
        /\ status[t] \in {"IN_PROGRESS", "RESOLVED"} /\ status'[t] = "CLOSED"
    BY <1>2, <1>10, ActorsAssumption DEF Move
  <2>2. /\ CaseRequests[by] = Case!Asked(t, "FORCE_CLOSE", "open")
        /\ CaseRequests' = [CaseRequests EXCEPT ![by] = Case!Asked(t, "FORCE_CLOSE", "done")]
    BY <1>10, <2>1, AbstractDecision DEF Approving, RequestsInv
  <2>3. Case!CarryOutForceClose(by, t)
    BY <1>1, <1>3, <1>10, <2>1, <2>2 DEF Case!CarryOutForceClose, Case!Move
  <2>4. QED
    BY <1>10, <2>3 DEF Case!Next, Case!RequestStep
<1>11. CASE type \in {"closed", "force_closed"} /\ by \notin Approvals
  <2>1. /\ by = Requester /\ status[t] = "RESOLVED" /\ status'[t] = "CLOSED"
        /\ assignee' = assignee /\ approvals' = approvals
    BY <1>2, <1>11 DEF Move
  <2>2. Case!Accept(t)
    BY <1>1, <1>3, <1>4, <1>11, <2>1 DEF Case!Accept, Case!Move, Requester
  <2>3. QED
    BY <2>2 DEF Case!Next, Case!CaseStep
<1>12. QED
  BY <1>5, <1>6, <1>7, <1>8, <1>9, <1>10, <1>11 DEF TicketEventType

\* Without decisions by channel a step that moves no ticket approves nothing.
LEMMA RestStep ==
    ASSUME RequestsInv, "channel" \notin Routes, [Next]_vars
    PROVE  \/ \E t \in Tickets, type \in TicketEventType, by \in Actors : LoggedMove(t, type, by)
           \/ /\ Untouched
              /\ \/ approvals' = approvals /\ pending' = pending
                 \/ \E a \in Approvals, t \in Tickets, action \in ApprovableAction : AskedFor(a, t, action)
                 \/ \E a \in Approvals : Settled(a, "REJECTED", "SKIPPED")
<1>1. CASE OperatorStep \/ RequesterStep
  <2>1. approvals' = approvals /\ pending' = pending
    BY <1>1 DEF OperatorStep, RequesterStep, Claim, Resolve, CreateTicket, RequesterConfirm, RejectResolution
  <2>2. QED
    BY <2>1, StepMoves DEF RequestsInv
<1>2. CASE RequestStep
  <2>1. Untouched
    BY <1>2 DEF RequestStep, Escalate, ForceClose, Propose, RequestForceClose, RequestApproval, Untouched
  <2>2. QED
    BY <1>2, <2>1, RequestAsks
<1>3. CASE ApproverStep
  <2>1. ASSUME NEW a \in Approvals, NEW via \in Routes, Reject(a, via)
        PROVE  Untouched /\ Settled(a, "REJECTED", "SKIPPED")
    BY <2>1 DEF Reject, Decide, Settled, Untouched
  <2>2. ~ \E a \in Approvals : ApproveInVain(a)
    BY DEF ApproveInVain
  <2>3. Approvals \subseteq Actors
    BY DEF Actors
  <2>4. QED
    BY <1>3, <2>1, <2>2, <2>3, ApproveMoves DEF ApproverStep, RequestsInv
<1>4. CASE (\E r \in RestCalls, t \in Tickets : CheckForceClose(r, t)) \/ UNCHANGED vars
  BY <1>4 DEF CheckForceClose, Untouched, vars
<1>5. QED
  BY <1>1, <1>2, <1>3, <1>4 DEF Next

LEMMA CaseStep ==
    ASSUME RequestsInv, RequestsInv', "channel" \notin Routes, [Next]_vars
    PROVE  [Case!Next]_(Case!vars)
<1>1. CASE \E t \in Tickets, type \in TicketEventType, by \in Actors : LoggedMove(t, type, by)
  BY <1>1, MoveRefines
<1>2. Untouched => /\ status' = status /\ Holder' = Holder
                   /\ ClosedBy' = ClosedBy /\ EscalatedBy' = EscalatedBy
  BY DEF Untouched, Holder, ClosedBy, EscalatedBy, EventsBy
<1>3. CASE Untouched /\ approvals' = approvals
  <2>1. CaseRequests' = CaseRequests
    BY <1>3 DEF CaseRequests, CaseRequest
  <2>2. QED
    BY <1>2, <1>3, <2>1 DEF Case!vars
<1>4. ASSUME Untouched, NEW a \in Approvals, NEW t \in Tickets, NEW action \in ApprovableAction,
             AskedFor(a, t, action)
      PROVE  Case!Next
  <2>1. /\ approvals'[a] = [status |-> "PENDING", ticket |-> t, action |-> action]
        /\ \A b \in Approvals : b # a => approvals'[b] = approvals[b]
    BY <1>4 DEF AskedFor, RequestsInv, TypeOK
  <2>2. CaseRequest(a) = Case!Unasked /\ CaseRequest(a)' = Case!Asked(t, action, "open")
    BY <1>4, <2>1 DEF AskedFor, CaseRequest, Case!Unasked, Case!Asked
  <2>3. \A b \in Approvals : b # a => CaseRequest(b)' = CaseRequest(b)
    BY <2>1 DEF CaseRequest
  <2>4. /\ CaseRequests[a] = Case!Unasked
        /\ CaseRequests' = [CaseRequests EXCEPT ![a] = Case!Asked(t, action, "open")]
    BY <2>2, <2>3 DEF CaseRequests
  <2>5. Case!Ask(a, t, action)
    BY <1>2, <1>4, <2>4 DEF Case!Ask, AskedFor, Taken
  <2>6. QED
    BY <2>5 DEF Case!Next, Case!RequestStep, ApprovableAction
<1>5. ASSUME Untouched, NEW a \in Approvals, Settled(a, "REJECTED", "SKIPPED")
      PROVE  Case!Next
  <2> DEFINE t == approvals[a].ticket
  <2> DEFINE action == approvals[a].action
  <2>1. /\ CaseRequests[a] = Case!Asked(t, action, "open")
        /\ CaseRequests' = [CaseRequests EXCEPT ![a] = Case!Asked(t, action, "declined")]
    BY <1>5, AbstractDecision DEF Settled, Decide, RequestsInv
  <2>2. Case!Decline(a, t, action)
    BY <1>2, <1>5, <2>1 DEF Case!Decline
  <2>3. t \in Tickets /\ action \in {"ESCALATE", "FORCE_CLOSE"}
    BY <1>5 DEF Settled, Decide, RequestsInv, Addressed, ApprovableAction
  <2>4. QED
    BY <2>2, <2>3 DEF Case!Next, Case!RequestStep
<1>6. QED
  BY <1>1, <1>3, <1>4, <1>5, RestStep

LEMMA CaseInit == Init => Case!Init
<1> SUFFICES ASSUME Init PROVE Case!Init
  OBVIOUS
<1>1. \A types : \A t \in Tickets : EventsBy(t, types) = {}
  BY DEF Init, EventsBy
<1>2. \A a \in Approvals : CaseRequest(a) = Case!Unasked
  BY DEF Init, CaseRequest, Case!Unasked
<1>3. \A t \in Tickets : {assignee[t]} \ {NoOne} = {}
  BY DEF Init
<1>4. QED
  BY <1>1, <1>2, <1>3 DEF Init, Case!Init, Holder, CaseRequests, ClosedBy, EscalatedBy

\* "Every action is a unit of work": with decisions by REST, whatever fails
\* rolls back, and the ticket subsystem is the atomic Casework.
THEOREM RestRefinesCasework ==
    ASSUME "channel" \notin Routes
    PROVE  Spec => ImplementsCasework
<1>1. Init => RequestsInv /\ Case!Init
  BY RequestsInvInit, CaseInit
<1>2. RequestsInv /\ [Next]_vars => RequestsInv' /\ [Case!Next]_(Case!vars)
  BY RequestsInvStep, CaseStep
<1>3. QED
  BY <1>1, <1>2, PTL DEF Spec, ImplementsCasework, Case!Spec

\* Without decisions by channel an action that counts as executed has left its
\* mark in the log: the approval is spent only together with its effect.
THEOREM RestActionsHaveEffect ==
    ASSUME "channel" \notin Routes
    PROVE  Spec => []ExecutedActionHasEffect
<1> DEFINE Effect(a) == \E i \in DOMAIN events[approvals[a].ticket] : events[approvals[a].ticket][i].by = a
<1>1. Init => ExecutedActionHasEffect
  BY DEF Init, ExecutedActionHasEffect
<1>2. ASSUME RequestsInv, ExecutedActionHasEffect, [Next]_vars
      PROVE  ExecutedActionHasEffect'
  <2>1. SUFFICES ASSUME NEW a \in Approvals, pending'[a] = "EXECUTED" PROVE Effect(a)'
    BY DEF ExecutedActionHasEffect
  <2>2. ASSUME pending[a] = "EXECUTED"
        PROVE  approvals[a].ticket \in Tickets /\ approvals'[a].ticket = approvals[a].ticket /\ Effect(a)
    BY <1>2, <2>2, RequestsForward DEF RequestsInv, DecidedTogether, Addressed, ExecutedActionHasEffect
  <2>3. ASSUME NEW t \in Tickets, NEW type \in TicketEventType, NEW by \in Actors, LoggedMove(t, type, by)
        PROVE  Effect(a)'
    <3>1. /\ \A u \in Tickets : u # t => events'[u] = events[u]
          /\ DOMAIN events'[t] = DOMAIN events[t] \cup {Len(events[t]) + 1}
          /\ \A i \in DOMAIN events[t] : events'[t][i] = events[t][i]
          /\ events'[t][Len(events[t]) + 1].by = by
          /\ Move(t, type, by)
      BY <1>2, <2>3, LoggedMoveEffect DEF RequestsInv
    <3>2. CASE pending[a] = "EXECUTED"
      BY <2>2, <3>1, <3>2
    <3>3. CASE pending[a] # "EXECUTED"
      <4>1. pending' # pending
        BY <2>1, <3>3
      <4>2. by \in Approvals /\ \E action \in ApprovableAction : Approving(by, t, action)
        BY <3>1, <4>1 DEF Move, ApprovableAction
      <4>3. by = a
        BY <1>2, <2>1, <3>3, <4>2 DEF Approving, RequestsInv, TypeOK
      <4>4. approvals'[a].ticket = t
        BY <1>2, <4>2, <4>3 DEF Approving, RequestsInv, TypeOK
      <4>5. QED
        BY <3>1, <4>3, <4>4
    <3>4. QED
      BY <3>2, <3>3
  <2>4. ASSUME Untouched, pending[a] = "EXECUTED"
        PROVE  Effect(a)'
    BY <2>2, <2>4 DEF Untouched
  <2>5. ASSUME NEW b \in Approvals, NEW t \in Tickets, NEW action \in ApprovableAction, AskedFor(b, t, action)
        PROVE  pending[a] = "EXECUTED"
    BY <1>2, <2>1, <2>5 DEF AskedFor, RequestsInv, TypeOK
  <2>6. ASSUME NEW b \in Approvals, Settled(b, "REJECTED", "SKIPPED")
        PROVE  pending[a] = "EXECUTED"
    BY <1>2, <2>1, <2>6 DEF Settled, Decide, RequestsInv, TypeOK
  <2>7. QED
    BY <1>2, <2>1, <2>3, <2>4, <2>5, <2>6, RestStep
<1>3. QED
  BY <1>1, <1>2, RequestsInvInit, RequestsInvStep, PTL DEF Spec

\* A step that closes a ticket is the requester's answer to a resolution or
\* the approval of its forced close, whatever else goes on.
THEOREM ClosesOnlyByDecisionHolds == Spec => ClosesOnlyByDecision
<1> DEFINE Decision(t) == \/ status[t] = "RESOLVED" /\ approvals' = approvals
                         \/ \E a \in Approvals : /\ ForceCloseOf(a, t)
                                                 /\ approvals[a].status = "PENDING"
                                                 /\ approvals'[a].status = "APPROVED"
<1>1. ASSUME RequestsInv, [Next]_vars, NEW t \in Tickets, status[t] # "CLOSED", status'[t] = "CLOSED"
      PROVE  Decision(t)
  <2>1. ~Untouched
    BY <1>1 DEF Untouched
  <2>2. ASSUME NEW u \in Tickets, NEW type \in TicketEventType, NEW by \in Actors, LoggedMove(u, type, by)
        PROVE  Decision(t)
    <3>1. u = t /\ Move(t, type, by)
      BY <1>1, <2>2 DEF LoggedMove, OthersUntouched
    <3>2. QED
      BY <1>1, <3>1 DEF Move, Approving, ForceCloseOf, RequestsInv, TypeOK
  <2>3. QED
    BY <1>1, <2>1, <2>2, StepMoves DEF RequestsInv
<1>2. RequestsInv /\ [Next]_vars => [CloseIsDecided]_vars
  BY <1>1 DEF CloseIsDecided
<1>3. QED
  BY <1>2, RequestsInvInit, RequestsInvStep, PTL DEF Spec, ClosesOnlyByDecision

-----------------------------------------------------------------------------
(* What the notifications say                                                *)

\* Logs only grow, and so does the outbox.
LEMMA LogsGrow ==
    ASSUME RequestsInv, [Next]_vars, NEW t \in Tickets
    PROVE  /\ DOMAIN events[t] \subseteq DOMAIN events'[t]
           /\ \A i \in DOMAIN events[t] : events'[t][i] = events[t][i]
<1>1. CASE Untouched
  BY <1>1 DEF Untouched
<1>2. ASSUME NEW u \in Tickets, NEW type \in TicketEventType, NEW by \in Actors, LoggedMove(u, type, by)
      PROVE  /\ DOMAIN events[t] \subseteq DOMAIN events'[t]
             /\ \A i \in DOMAIN events[t] : events'[t][i] = events[t][i]
  <2>1. CASE u = t
    BY <1>2, <2>1, LoggedMoveEffect DEF RequestsInv
  <2>2. CASE u # t
    BY <1>2, <2>2, LoggedMoveEffect DEF RequestsInv
  <2>3. QED
    BY <2>1, <2>2
<1>3. QED
  BY <1>1, <1>2, StepMoves DEF RequestsInv

LEMMA OutboxGrows == [Next]_vars => outbox \subseteq outbox'
<1> SUFFICES ASSUME [Next]_vars PROVE outbox \subseteq outbox'
  OBVIOUS
<1> USE DEF Enqueue
<1>1. CASE OperatorStep \/ RequesterStep
  BY <1>1 DEF OperatorStep, RequesterStep, Claim, Resolve, CreateTicket, RequesterConfirm, RejectResolution
<1>2. CASE RequestStep
  BY <1>2 DEF RequestStep, Escalate, ForceClose, Propose, RequestForceClose, RequestApproval
<1>3. CASE ApproverStep
  BY <1>3 DEF ApproverStep, ApproveEscalate, ApproveForceClose, Reject, ApproveInVain
<1>4. CASE (\E r \in RestCalls, t \in Tickets : CheckForceClose(r, t)) \/ UNCHANGED vars
  BY <1>4 DEF CheckForceClose, vars
<1>5. QED
  BY <1>1, <1>2, <1>3, <1>4 DEF Next

\* What NotesTellTheTruth says of one notification.
Truthful(n) ==
    LET subject == n.cause[1]  k == n.cause[2]  t == n.ticket IN
    IF subject \in Approvals
    THEN /\ approvals[subject].ticket = t
         /\ k = 0 => approvals[subject].status # "NONE"
         /\ k = 1 => approvals[subject].status \in {"APPROVED", "REJECTED"}
         /\ n.type = "REQUESTER_STATUS_UPDATE" =>
               \E i \in DOMAIN events[t] : Closing(events[t][i]) /\ events[t][i].by = subject
    ELSE /\ subject = t
         /\ k \in DOMAIN events[t]
         /\ n.type = "REQUESTER_CONFIRMATION_REQUEST" => events[t][k].type = "resolved"
         /\ n.type = "OPERATOR_WORK_ITEM" => events[t][k].type = "created"

\* It stays true because an approval that was asked for is never withdrawn.
Lasting(n) ==
    /\ n.ticket \in Tickets
    /\ n.cause[1] \in Approvals => approvals[n.cause[1]].status # "NONE"
    /\ Truthful(n)

\* What a notification says is not undone: logs grow, decisions stand.
LEMMA TruthLasts ==
    ASSUME RequestsInv, [Next]_vars, NEW n, Lasting(n)
    PROVE  Lasting(n)'
<1> DEFINE a == n.cause[1]
<1> DEFINE t == n.ticket
<1>1. /\ DOMAIN events[t] \subseteq DOMAIN events'[t]
      /\ \A i \in DOMAIN events[t] : events'[t][i] = events[t][i]
  BY LogsGrow DEF Lasting
<1>2. CASE a \in Approvals
  <2>1. /\ approvals'[a].status # "NONE"
        /\ approvals'[a].ticket = approvals[a].ticket
        /\ approvals[a].status # "PENDING" => approvals'[a].status = approvals[a].status
    BY <1>2, RequestsForward DEF Lasting
  <2>2. QED
    BY <1>1, <1>2, <2>1 DEF Lasting, Truthful
<1>3. CASE a \notin Approvals
  BY <1>1, <1>3 DEF Lasting, Truthful
<1>4. QED
  BY <1>2, <1>3

\* A notification that cites the entry being logged.
LEMMA EntryNote ==
    ASSUME RequestsInv, NEW t \in Tickets, NEW type \in TicketEventType, NEW by \in Actors,
           Record(t, type, by), NEW n, n.ticket = t, n.cause = NewEvent(t),
           n.type = "REQUESTER_CONFIRMATION_REQUEST" => type = "resolved",
           n.type = "OPERATOR_WORK_ITEM" => type = "created"
    PROVE  Lasting(n)'
<1>1. n.cause[1] = t /\ n.cause[2] = Len(events[t]) + 1
  BY DEF NewEvent
<1>2. t \notin Approvals
  BY IdsAssumption
<1>3. TypeOK
  BY DEF RequestsInv
<1>4. /\ DOMAIN events'[t] = DOMAIN events[t] \cup {Len(events[t]) + 1}
      /\ events'[t][Len(events[t]) + 1] = [type |-> type, by |-> by]
  BY <1>3, RecordEffect
<1>5. QED
  BY <1>1, <1>2, <1>4 DEF Lasting, Truthful

\* A notification about an approval that was just asked for or decided.
LEMMA ApprovalNote ==
    ASSUME NEW a \in Approvals, NEW n, n.ticket \in Tickets, n.type # "REQUESTER_STATUS_UPDATE",
           approvals'[a].ticket = n.ticket,
           \/ n.cause = Requested(a) /\ approvals'[a].status = "PENDING"
           \/ n.cause = Decided(a) /\ approvals'[a].status \in {"APPROVED", "REJECTED"}
    PROVE  Lasting(n)'
BY DEF Requested, Decided, Lasting, Truthful

\* What a step adds to the outbox is true when the step is done.
LEMMA NewNotes ==
    ASSUME RequestsInv, [Next]_vars, NEW n \in outbox', n \notin outbox
    PROVE  Lasting(n)'
<1> USE DEF Enqueue, Note
<1>1. TypeOK /\ Addressed
  BY DEF RequestsInv
<1>2. Operators \subseteq Actors /\ Approvals \subseteq Actors /\ {Requester, NoOne} \subseteq Actors
  BY DEF Actors
<1>3. {"created", "claimed", "resolved"} \subseteq TicketEventType
  BY DEF TicketEventType
<1>4. ASSUME NEW t \in Tickets, NEW o \in Operators, NEW via \in Routes, Claim(t, o, via)
      PROVE  Lasting(n)'
  <2>1. Record(t, "claimed", o) /\ n.ticket = t /\ n.cause = NewEvent(t)
        /\ n.type \in {"OPERATOR_ACTION_RECEIPT", "REQUESTER_STATUS_UPDATE"}
    BY <1>4 DEF Claim
  <2>2. QED
    BY <1>2, <1>3, <2>1, EntryNote
<1>5. ASSUME NEW t \in Tickets, NEW o \in Operators, NEW via \in Routes, Resolve(t, o, via)
      PROVE  Lasting(n)'
  <2>1. Transition(t, "RESOLVED", o) /\ n.ticket = t /\ n.cause = NewEvent(t)
        /\ n.type \in {"OPERATOR_ACTION_RECEIPT", "REQUESTER_CONFIRMATION_REQUEST"}
    BY <1>5 DEF Resolve
  <2>2. EventForTransition(status[t], "RESOLVED") = "resolved"
    BY DEF EventForTransition
  <2>3. Record(t, "resolved", o)
    BY <2>1, <2>2 DEF Transition
  <2>4. QED
    BY <1>2, <1>3, <2>1, <2>3, EntryNote
<1>6. ASSUME NEW t \in Tickets, CreateTicket(t)
      PROVE  Lasting(n)'
  <2>1. Record(t, "created", NoOne) /\ n.ticket = t /\ n.cause = NewEvent(t)
        /\ n.type = "OPERATOR_WORK_ITEM"
    BY <1>6 DEF CreateTicket
  <2>2. QED
    BY <1>2, <1>3, <2>1, EntryNote
<1>7. ASSUME NEW t \in Tickets, NEW to \in {"CLOSED", "IN_PROGRESS"}, Transition(t, to, Requester),
             n.ticket = t, n.cause = NewEvent(t), n.type \in {"REQUESTER_STATUS_UPDATE", "INTERNAL_NOTE"}
      PROVE  Lasting(n)'
  <2>1. /\ EventForTransition(status[t], to) \in TicketEventType
        /\ Record(t, EventForTransition(status[t], to), Requester)
    BY <1>1, <1>2, <1>7, TransitionEffect
  <2>2. QED
    BY <1>2, <1>7, <2>1, EntryNote
<1>8. ASSUME NEW t \in Tickets, RequesterConfirm(t) \/ RejectResolution(t)
      PROVE  Lasting(n)'
  BY <1>7, <1>8 DEF RequesterConfirm, RejectResolution
<1>9. ASSUME NEW a \in Approvals, NEW t \in Tickets, NEW action, NEW via, RequestApproval(a, t, action, via)
      PROVE  Lasting(n)'
  <2>1. n.ticket = t /\ n.cause = Requested(a) /\ n.type # "REQUESTER_STATUS_UPDATE"
    BY <1>9 DEF RequestApproval
  <2>2. approvals'[a].ticket = t /\ approvals'[a].status = "PENDING"
    BY <1>1, <1>9 DEF RequestApproval, TypeOK
  <2>3. QED
    BY <2>1, <2>2, ApprovalNote
<1>10. CASE RequestStep
  <2>1. \A r \in RestCalls : checked[r] # NoTicket => checked[r] \in Tickets
    BY <1>1 DEF TypeOK
  <2>2. QED
    BY <1>9, <1>10, <2>1 DEF RequestStep, Escalate, ForceClose, Propose, RequestForceClose
<1>11. ASSUME NEW a \in Approvals, NEW d \in {"APPROVED", "REJECTED"}, NEW x, Decide(a, d, x)
       PROVE  /\ approvals[a].ticket \in Tickets
              /\ approvals'[a].ticket = approvals[a].ticket
              /\ approvals'[a].status = d
  BY <1>1, <1>11 DEF Decide, Addressed, TypeOK
<1>12. ASSUME NEW a \in Approvals, NEW via \in Routes, ApproveEscalate(a, via) \/ Reject(a, via)
       PROVE  Lasting(n)'
  <2>1. \E d \in {"APPROVED", "REJECTED"} : \E x : Decide(a, d, x)
    BY <1>12 DEF ApproveEscalate, Reject
  <2>2. n.ticket = approvals[a].ticket /\ n.cause = Decided(a) /\ n.type # "REQUESTER_STATUS_UPDATE"
    BY <1>12 DEF ApproveEscalate, Reject
  <2>3. QED
    BY <1>11, <2>1, <2>2, ApprovalNote
<1>13. ASSUME NEW a \in Approvals, NEW via \in Routes, ApproveForceClose(a, via)
       PROVE  Lasting(n)'
  <2> DEFINE t == approvals[a].ticket
  <2> DEFINE type == EventForTransition(status[t], "CLOSED")
  <2>1. Decide(a, "APPROVED", "EXECUTED") /\ Transition(t, "CLOSED", a)
    BY <1>13 DEF ApproveForceClose
  <2>2. t \in Tickets /\ approvals'[a].ticket = t /\ approvals'[a].status = "APPROVED"
    BY <1>11, <2>1
  <2>3. n.ticket = t /\ n.cause = <<a, 1>>
    BY <1>13 DEF ApproveForceClose, Decided
  <2>4. type \in TicketEventType /\ Record(t, type, a)
    BY <1>1, <1>2, <2>1, <2>2, TransitionEffect
  <2>5. /\ DOMAIN events'[t] = DOMAIN events[t] \cup {Len(events[t]) + 1}
        /\ events'[t][Len(events[t]) + 1] = [type |-> type, by |-> a]
    BY <1>1, <1>2, <2>2, <2>4, RecordEffect
  <2>6. type \in {"closed", "force_closed"}
    BY DEF EventForTransition
  <2>7. \E i \in DOMAIN events'[t] : Closing(events'[t][i]) /\ events'[t][i].by = a
    BY <2>5, <2>6 DEF Closing
  <2>8. QED
    BY <2>2, <2>3, <2>7 DEF Lasting, Truthful, Closing
<1>14. ASSUME NEW a \in Approvals, ApproveInVain(a)
       PROVE  FALSE
  BY <1>14 DEF ApproveInVain
<1>15. CASE (\E r \in RestCalls, t \in Tickets : CheckForceClose(r, t)) \/ UNCHANGED vars
  BY <1>15 DEF CheckForceClose, vars
<1>16. CASE OperatorStep \/ RequesterStep
  BY <1>4, <1>5, <1>6, <1>8, <1>16 DEF OperatorStep, RequesterStep
<1>17. CASE ApproverStep
  BY <1>12, <1>13, <1>14, <1>17 DEF ApproverStep
<1>18. QED
  BY <1>10, <1>15, <1>16, <1>17 DEF Next

NotesInv == \A n \in outbox : Lasting(n)

\* No notification announces what was rolled back or never happened, however
\* the failed handlers of either route interleave with the others.
THEOREM NotesTellTheTruthHolds == Spec => []NotesTellTheTruth
<1>1. Init => NotesInv
  BY DEF Init, NotesInv
<1>2. ASSUME RequestsInv, NotesInv, [Next]_vars
      PROVE  NotesInv'
  <2>1. SUFFICES ASSUME NEW n \in outbox' PROVE Lasting(n)'
    BY DEF NotesInv
  <2>2. QED
    BY <1>2, NewNotes, TruthLasts DEF NotesInv
<1>3. NotesInv => NotesTellTheTruth
  BY DEF NotesInv, Lasting, Truthful, NotesTellTheTruth
<1>4. QED
  BY <1>1, <1>2, <1>3, RequestsInvInit, RequestsInvStep, PTL DEF Spec

\* Only Resolve makes a ticket wait for its requester, and it asks.
LEMMA ResolvedIsAsked ==
    ASSUME RequestsInv, [Next]_vars, NEW t \in Tickets, "public" \in Reachable,
           status[t] # "RESOLVED", status'[t] = "RESOLVED"
    PROVE  Note(t, NewEvent(t), "REQUESTER_CONFIRMATION_REQUEST", "public") \in outbox'
<1>1. TypeOK /\ Addressed
  BY DEF RequestsInv
<1>2. \A u \in Tickets, o \in Operators, via \in Routes : ~Claim(u, o, via)
  BY <1>1 DEF Claim, TypeOK
<1>3. \A u \in Tickets : ~CreateTicket(u) /\ ~RequesterConfirm(u) /\ ~RejectResolution(u)
  BY <1>1 DEF CreateTicket, RequesterConfirm, RejectResolution, Transition, TypeOK
<1>4. ~RequestStep /\ ~UNCHANGED vars /\ ~\E r \in RestCalls, u \in Tickets : CheckForceClose(r, u)
  BY DEF RequestStep, Escalate, ForceClose, Propose, RequestForceClose, RequestApproval, CheckForceClose, vars
<1>5. ~ApproverStep
  BY <1>1 DEF ApproverStep, ApproveEscalate, ApproveForceClose, Reject, ApproveInVain, Transition, TypeOK
<1>6. PICK u \in Tickets, o \in Operators, via \in Routes : Resolve(u, o, via)
  BY <1>2, <1>3, <1>4, <1>5 DEF Next, OperatorStep, RequesterStep
<1>7. u = t
  BY <1>1, <1>6 DEF Resolve, Transition, TypeOK
<1>8. QED
  BY <1>6, <1>7 DEF Resolve, Enqueue, Note

\* The requester is asked about the last resolution, and the question is never
\* withdrawn while the ticket waits.
THEOREM ConfirmationAskedHolds == Spec => []ConfirmationAsked
<1> DEFINE AskedAbout(t, i) ==
              /\ QuietBetween(events[t], i, Len(events[t]) + 1)
              /\ Note(t, <<t, i>>, "REQUESTER_CONFIRMATION_REQUEST", "public") \in outbox
<1> DEFINE Waits(t) == status[t] = "RESOLVED" /\ "public" \in Reachable
<1>1. Init => ConfirmationAsked
  BY DEF Init, ConfirmationAsked
<1>2. ASSUME RequestsInv, ConfirmationAsked, [Next]_vars
      PROVE  ConfirmationAsked'
  <2>1. SUFFICES ASSUME NEW t \in Tickets, Waits(t)' PROVE \E i \in DOMAIN events'[t] : AskedAbout(t, i)'
    BY DEF ConfirmationAsked
  <2>2. outbox \subseteq outbox'
    BY <1>2, OutboxGrows
  <2>3. ASSUME events'[t] = events[t], status'[t] = status[t]
        PROVE  \E i \in DOMAIN events'[t] : AskedAbout(t, i)'
    <3>1. PICK i \in DOMAIN events[t] : AskedAbout(t, i)
      BY <1>2, <2>1, <2>3 DEF ConfirmationAsked
    <3>2. AskedAbout(t, i)'
      BY <2>2, <2>3, <3>1 DEF QuietBetween, Note
    <3>3. QED
      BY <2>3, <3>1, <3>2
  <2>4. ASSUME NEW type \in TicketEventType, NEW by \in Actors, LoggedMove(t, type, by)
        PROVE  \E i \in DOMAIN events'[t] : AskedAbout(t, i)'
    <3> DEFINE len == Len(events[t])
    <3>1. /\ len \in Nat
          /\ DOMAIN events[t] = 1 .. len
          /\ Len(events'[t]) = len + 1
          /\ DOMAIN events'[t] = DOMAIN events[t] \cup {len + 1}
          /\ \A i \in DOMAIN events[t] : events'[t][i] = events[t][i]
          /\ events'[t][len + 1].type = type
          /\ Move(t, type, by)
      BY <1>2, <2>4, LoggedMoveEffect DEF RequestsInv
    <3>2. CASE status[t] = "RESOLVED"
      <4>1. type = "escalated"
        BY <2>1, <3>1, <3>2 DEF Move
      <4>2. PICK i \in DOMAIN events[t] : AskedAbout(t, i)
        BY <1>2, <2>1, <3>2 DEF ConfirmationAsked
      <4>3. QuietBetween(events'[t], i, len + 2)
        BY <3>1, <4>1, <4>2 DEF QuietBetween
      <4>4. AskedAbout(t, i)'
        BY <2>2, <3>1, <4>2, <4>3 DEF Note
      <4>5. QED
        BY <3>1, <4>2, <4>4
    <3>3. CASE status[t] # "RESOLVED"
      <4>1. PICK i \in DOMAIN events'[t] : i = len + 1
        BY <3>1
      <4>2. Note(t, <<t, i>>, "REQUESTER_CONFIRMATION_REQUEST", "public") \in outbox'
        BY <1>2, <2>1, <3>3, <4>1, ResolvedIsAsked DEF NewEvent
      <4>3. QuietBetween(events'[t], i, len + 2)
        BY <3>1, <4>1 DEF QuietBetween
      <4>4. AskedAbout(t, i)'
        BY <3>1, <4>2, <4>3 DEF Note
      <4>5. QED
        BY <4>4
    <3>4. QED
      BY <3>2, <3>3
  <2>5. ASSUME NEW u \in Tickets, NEW type \in TicketEventType, NEW by \in Actors, LoggedMove(u, type, by)
        PROVE  \E i \in DOMAIN events'[t] : AskedAbout(t, i)'
    <3>1. CASE u = t
      BY <2>4, <2>5, <3>1
    <3>2. CASE u # t
      <4>1. events'[t] = events[t] /\ status'[t] = status[t]
        BY <1>2, <2>5, <3>2, LoggedMoveEffect DEF RequestsInv
      <4>2. QED
        BY <2>3, <4>1
    <3>3. QED
      BY <3>1, <3>2
  <2>6. CASE Untouched
    <3>1. events'[t] = events[t] /\ status'[t] = status[t]
      BY <2>6 DEF Untouched
    <3>2. QED
      BY <2>3, <3>1
  <2>7. QED
    BY <1>2, <2>5, <2>6, StepMoves DEF RequestsInv
<1>3. QED
  BY <1>1, <1>2, RequestsInvInit, RequestsInvStep, PTL DEF Spec
=============================================================================
