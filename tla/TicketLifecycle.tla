--------------------------- MODULE TicketLifecycle ---------------------------
(***************************************************************************)
(* The life of a ticket: app/domain/ticket.py (the strict state machine),  *)
(* TicketStore in app/infrastructure/repositories.py, and                  *)
(* TicketActionService, the unit of work behind every operator, requester  *)
(* and approver action, with the human-in-the-loop (HITL) approvals that   *)
(* guard ESCALATE and FORCE_CLOSE.                                         *)
(*                                                                         *)
(* Every database transaction runs under one connection lock               *)
(* (repositories.txn), so a handler whose reads and writes are all inside  *)
(* txn is one action here.  The one handler that is not is the REST        *)
(* endpoint POST /tickets/{id}/close: it reads the ticket's status before  *)
(* its transaction opens, and is two actions.                              *)
(*                                                                         *)
(* A call arrives by one of two routes, and they differ in what a failure  *)
(* leaves behind.  On "rest" the handler's own txn is outermost, and an    *)
(* exception rolls it back.  On "channel" the handler runs nested inside   *)
(* the ingress transaction, SupportWorkflow turns the exception into a     *)
(* reply, and what was written before the exception is committed.          *)
(*                                                                         *)
(* Left out: message texts, payloads, trace rows, and the operational      *)
(* fields (summary, category, priority, queue), which guard nothing here.  *)
(* A message id or a trace id is new for each call, so an enqueued         *)
(* notification is identified by the log entry or approval it is about.    *)
(***************************************************************************)
EXTENDS Naturals, Sequences, FiniteSets

CONSTANTS
    Tickets,         \* ticket ids new_ticket_id() may hand out
    Operators,       \* users with the OPERATOR role
    Approvals,       \* approval ids new_id("apr_") may hand out
    RestCalls,       \* concurrent POST /tickets/{id}/close requests
    Routes,          \* how operators and approvers call: {"channel", "rest"} or part
    Reachable,       \* the audiences for which TargetResolver finds a target
    MaxResolutions   \* bound on how often a ticket may be resolved

Requester == "requester"   \* the user who owns the ticket (tickets.user_id)
NoOne     == "no one"      \* a NULL assignee_user_id or actor_user_id
NoTicket  == "no ticket"

ASSUME RoutesAssumption   == Routes \subseteq {"channel", "rest"}
ASSUME ActorsAssumption   == /\ Approvals \cap (Operators \cup {Requester, NoOne}) = {}
                             /\ Operators \cap {Requester, NoOne} = {}
ASSUME BoundAssumption    == MaxResolutions \in Nat
ASSUME TicketsAssumption  == NoTicket \notin Tickets
ASSUME IdsAssumption      == Tickets \cap Approvals = {}   \* "T1001", "apr_..."

VARIABLES
    status,      \* tickets.status; "NONE" for an id not handed out yet
    assignee,    \* tickets.assignee_user_id
    events,      \* ticket_events of each ticket in insertion order
    approvals,   \* the approvals table
    pending,     \* pending_actions.execution_status, by approval id
    memory,      \* source of the memories extracted for a ticket, or "none"
    outbox,      \* notification_outbox; a set, as its UNIQUE key makes it
    checked      \* the ticket whose status a REST close has read, by request

vars == <<status, assignee, events, approvals, pending, memory, outbox, checked>>

TicketStatus == {"OPEN", "IN_PROGRESS", "RESOLVED", "CLOSED"}

TicketEventType == {"created", "claimed", "resolved", "resolution_rejected",
                    "escalated", "force_closed", "closed"}

ApprovableAction == {"ESCALATE", "FORCE_CLOSE"}

\* Mutant: an OPEN ticket may be resolved without being claimed.
AllowedTransitionsWithShortcut ==
    [s \in TicketStatus \cup {"NONE"} |->
        CASE s = "OPEN"        -> {"IN_PROGRESS", "RESOLVED"}
          [] s = "IN_PROGRESS" -> {"RESOLVED", "CLOSED"}
          [] s = "RESOLVED"    -> {"CLOSED", "IN_PROGRESS"}
          [] OTHER             -> {}]

AllowedTransitions ==
    [s \in TicketStatus \cup {"NONE"} |->
        CASE s = "OPEN"        -> {"IN_PROGRESS"}
          [] s = "IN_PROGRESS" -> {"RESOLVED", "CLOSED"}
          [] s = "RESOLVED"    -> {"CLOSED", "IN_PROGRESS"}
          [] OTHER             -> {}]

\* EVENT_FOR_TRANSITION: the event recorded when a ticket goes from one status
\* to another.  A forced close of a RESOLVED ticket is recorded as "closed".
EventForTransition(from, to) ==
    CASE to = "RESOLVED"                            -> "resolved"
      [] to = "IN_PROGRESS" /\ from = "OPEN"        -> "claimed"
      [] to = "IN_PROGRESS" /\ from # "OPEN"        -> "resolution_rejected"
      [] to = "CLOSED"      /\ from = "IN_PROGRESS" -> "force_closed"
      [] OTHER                                      -> "closed"

\* Mutant: an OPEN ticket may be closed by force.
ForceCloseAllowedFromOpen(t) == status[t] \in {"OPEN", "IN_PROGRESS", "RESOLVED"}

ForceCloseAllowed(t) == status[t] \in {"IN_PROGRESS", "RESOLVED"}

Resolutions(t) == Cardinality({i \in DOMAIN events[t] : events[t][i].type = "resolved"})

-----------------------------------------------------------------------------
(* TicketStore, MemoryService and NotificationOutbox, as the handlers use    *)
(* them.                                                                     *)

\* An event is by its actor, or by the approval whose id its payload carries.
Record(t, type, by) ==
    events' = [events EXCEPT ![t] = Append(@, [type |-> type, by |-> by])]

\* Mutant: the status is written without its event.
TransitionUnlogged(t, target, by) ==
    /\ target \in AllowedTransitions[status[t]]
    /\ status' = [status EXCEPT ![t] = target]
    /\ UNCHANGED events

\* Mutant: a ticket that is already there is accepted.
TransitionIdempotent(t, target, by) ==
    /\ target \in AllowedTransitions[status[t]] \cup {status[t]}
    /\ status' = [status EXCEPT ![t] = target]
    /\ IF target = status[t] THEN UNCHANGED events
       ELSE Record(t, EventForTransition(status[t], target), by)

\* TicketStore.transition: validate, UPDATE ... WHERE status = current, event.
Transition(t, target, by) ==
    /\ target \in AllowedTransitions[status[t]]
    /\ status' = [status EXCEPT ![t] = target]
    /\ Record(t, EventForTransition(status[t], target), by)

\* Mutant: every memory counts as confirmed.
RememberAsConfirmed(t, source) ==
    memory' = [memory EXCEPT ![t] = IF @ = "none" THEN "confirmed_closure" ELSE @]

\* MemoryService.remember keeps what an earlier call stored for the ticket.
Remember(t, source) ==
    memory' = [memory EXCEPT ![t] = IF @ = "none" THEN source ELSE @]

\* OutboundNotificationService.enqueue drops a notification with no target.
\* The caller's own conversation is a target only for a call by channel.
Note(t, cause, type, to) == [ticket |-> t, cause |-> cause, type |-> type, to |-> to]

\* Mutant: the dedupe key forgets which event a notification is about.
EnqueueOncePerTicket(notes, via) ==
    outbox' = outbox \cup
        {n \in notes :
            /\ n.to \in Reachable \/ (n.to = "origin" /\ via = "channel")
            /\ \A o \in outbox : <<o.ticket, o.type, o.to>> # <<n.ticket, n.type, n.to>>}

Enqueue(notes, via) ==
    outbox' = outbox \cup
        {n \in notes : n.to \in Reachable \/ (n.to = "origin" /\ via = "channel")}

\* The log entry a handler is about to record is what its notifications cite.
NewEvent(t) == <<t, Len(events[t]) + 1>>

Requested(a) == <<a, 0>>
Decided(a)   == <<a, 1>>

-----------------------------------------------------------------------------
Init ==
    /\ status    = [t \in Tickets |-> "NONE"]
    /\ assignee  = [t \in Tickets |-> NoOne]
    /\ events    = [t \in Tickets |-> << >>]
    /\ approvals = [a \in Approvals |-> [status |-> "NONE", ticket |-> NoTicket, action |-> "NONE"]]
    /\ pending   = [a \in Approvals |-> "NONE"]
    /\ memory    = [t \in Tickets |-> "none"]
    /\ outbox    = {}
    /\ checked   = [r \in RestCalls |-> NoTicket]

CreateTicket(t) ==
    /\ status[t] = "NONE"
    /\ status' = [status EXCEPT ![t] = "OPEN"]
    /\ Record(t, "created", NoOne)
    /\ Enqueue({Note(t, NewEvent(t), "OPERATOR_WORK_ITEM", "operators")}, "channel")
    /\ UNCHANGED <<assignee, approvals, pending, memory, checked>>

\* Mutant: a claim only looks whether the ticket is still being worked on.
ClaimableInWork(t) == status[t] \in {"OPEN", "IN_PROGRESS"}

\* TicketStore.claim has its own guard.
Claimable(t) == status[t] = "OPEN" /\ assignee[t] = NoOne

Claim(t, o, via) ==
    /\ Claimable(t)
    /\ status' = [status EXCEPT ![t] = "IN_PROGRESS"]
    /\ assignee' = [assignee EXCEPT ![t] = o]
    /\ Record(t, "claimed", o)
    /\ Enqueue({Note(t, NewEvent(t), "OPERATOR_ACTION_RECEIPT", "origin"),
                Note(t, NewEvent(t), "REQUESTER_STATUS_UPDATE", "public"),
                Note(t, NewEvent(t), "REQUESTER_STATUS_UPDATE", "private")}, via)
    /\ UNCHANGED <<approvals, pending, memory, checked>>

\* Any operator may resolve, not only the assignee.
Resolve(t, o, via) ==
    /\ Resolutions(t) < MaxResolutions
    /\ Transition(t, "RESOLVED", o)
    /\ Enqueue({Note(t, NewEvent(t), "OPERATOR_ACTION_RECEIPT", "origin"),
                Note(t, NewEvent(t), "REQUESTER_CONFIRMATION_REQUEST", "public"),
                Note(t, NewEvent(t), "REQUESTER_CONFIRMATION_REQUEST", "private")}, via)
    /\ UNCHANGED <<assignee, approvals, pending, memory, checked>>

\* Mutant: the sender's ticket in work is taken for one to confirm.
AwaitsAnswerInWork(t) == status[t] \in {"IN_PROGRESS", "RESOLVED"}

\* SupportWorkflow._handle_confirmation only takes a RESOLVED ticket of the
\* sender; the check and the transition share the ingress transaction.
AwaitsAnswer(t) == status[t] = "RESOLVED"

RequesterConfirm(t) ==
    /\ AwaitsAnswer(t)
    /\ Transition(t, "CLOSED", Requester)
    /\ Remember(t, "confirmed_closure")
    /\ Enqueue({Note(t, NewEvent(t), "REQUESTER_STATUS_UPDATE", "public"),
                Note(t, NewEvent(t), "REQUESTER_STATUS_UPDATE", "private"),
                Note(t, NewEvent(t), "INTERNAL_NOTE", "operators")}, "channel")
    /\ UNCHANGED <<assignee, approvals, pending, checked>>

RejectResolution(t) ==
    /\ AwaitsAnswer(t)
    /\ Transition(t, "IN_PROGRESS", Requester)
    /\ Enqueue({Note(t, NewEvent(t), "REQUESTER_STATUS_UPDATE", "public"),
                Note(t, NewEvent(t), "INTERNAL_NOTE", "operators")}, "channel")
    /\ UNCHANGED <<assignee, approvals, pending, memory, checked>>

-----------------------------------------------------------------------------
(* Approvals                                                                 *)

\* _request_approval: the approval, its pending action and the request to the
\* approver, in one transaction; the ticket is not touched.
RequestApproval(a, t, action, via) ==
    /\ status[t] # "NONE"
    /\ approvals[a].status = "NONE"
    /\ approvals' = [approvals EXCEPT ![a] = [status |-> "PENDING", ticket |-> t, action |-> action]]
    /\ pending' = [pending EXCEPT ![a] = "PENDING"]
    /\ Enqueue({Note(t, Requested(a), "APPROVAL_REQUEST", "approver"),
                Note(t, Requested(a), "OPERATOR_ACTION_RECEIPT", "origin")}, via)
    /\ UNCHANGED <<status, assignee, events, memory>>

\* escalate() asks nothing of the ticket's status: a CLOSED one may be escalated.
Escalate(a, t, via) ==
    /\ RequestApproval(a, t, "ESCALATE", via)
    /\ UNCHANGED checked

\* By channel the status check shares the ingress transaction.
ForceClose(a, t) ==
    /\ "channel" \in Routes
    /\ ForceCloseAllowed(t)
    /\ RequestApproval(a, t, "FORCE_CLOSE", "channel")
    /\ UNCHANGED checked

\* By REST the check comes first, on its own ...
CheckForceClose(r, t) ==
    /\ "rest" \in Routes
    /\ checked[r] = NoTicket
    /\ ForceCloseAllowed(t)
    /\ checked' = [checked EXCEPT ![r] = t]
    /\ UNCHANGED <<status, assignee, events, approvals, pending, memory, outbox>>

\* ... and the transaction that asks for the approval does not repeat it.
RequestForceClose(r, a) ==
    /\ checked[r] # NoTicket
    /\ RequestApproval(a, checked[r], "FORCE_CLOSE", "rest")
    /\ checked' = [checked EXCEPT ![r] = NoTicket]

\* PolicyValidator.validate_proposal: validate_decision has tied the proposal to
\* the ticket of the message, whose current row decides.
ProposalAllowed(t, action) ==
    /\ status[t] # "CLOSED"
    /\ action = "FORCE_CLOSE" => ForceCloseAllowed(t)

\* _proposal_step: what the agent proposed becomes a request of SYSTEM_ACTOR
\* with no origin; force_close() checks the status again, in the same
\* transaction.
Propose(a, t, action) ==
    /\ ProposalAllowed(t, action)
    /\ RequestApproval(a, t, action, "agent")
    /\ UNCHANGED checked

\* Mutant: neither CAS looks at what was decided before.
DecideAgain(a, decision, execution) ==
    /\ approvals[a].status # "NONE"
    /\ approvals' = [approvals EXCEPT ![a].status = decision]
    /\ pending' = [pending EXCEPT ![a] = execution]
    /\ UNCHANGED <<assignee, checked>>

\* Mutant: the pending action is executed, the approval is not decided.
DecideSilently(a, decision, execution) ==
    /\ pending[a] = "PENDING"
    /\ pending' = [pending EXCEPT ![a] = execution]
    /\ UNCHANGED <<approvals, assignee, checked>>

\* Mutant: the decision is written to both tables.
DecideAlike(a, decision, execution) ==
    /\ approvals[a].status = "PENDING"
    /\ approvals' = [approvals EXCEPT ![a].status = decision]
    /\ pending' = [pending EXCEPT ![a] = decision]
    /\ UNCHANGED <<assignee, checked>>

\* approve(): the CAS on approvals.status, then the CAS on execution_status.
Decide(a, decision, execution) ==
    /\ approvals[a].status = "PENDING"
    /\ pending[a] = "PENDING"
    /\ approvals' = [approvals EXCEPT ![a].status = decision]
    /\ pending' = [pending EXCEPT ![a] = execution]
    /\ UNCHANGED <<assignee, checked>>

ApproveEscalate(a, via) ==
    LET t == approvals[a].ticket IN
    /\ approvals[a].action = "ESCALATE"
    /\ Decide(a, "APPROVED", "EXECUTED")
    /\ Record(t, "escalated", a)
    /\ Enqueue({Note(t, Decided(a), "APPROVAL_RESULT", "operators"),
                Note(t, Decided(a), "OPERATOR_ACTION_RECEIPT", "origin")}, via)
    /\ UNCHANGED <<status, memory>>

ApproveForceClose(a, via) ==
    LET t == approvals[a].ticket IN
    /\ approvals[a].action = "FORCE_CLOSE"
    /\ Decide(a, "APPROVED", "EXECUTED")
    /\ Transition(t, "CLOSED", a)
    /\ Remember(t, "force_closed")
    /\ Enqueue({Note(t, Decided(a), "INTERNAL_NOTE", "operators"),
                Note(t, Decided(a), "REQUESTER_STATUS_UPDATE", "public")}, via)

\* The transition refuses a ticket closed in the meantime.  By REST the whole
\* transaction rolls back and the approval stays PENDING: no step.  By channel
\* _prepare_approval catches InvalidStateTransition inside the ingress
\* transaction, which commits both CAS updates and nothing else.
ApproveInVain(a) ==
    LET t == approvals[a].ticket IN
    /\ "channel" \in Routes
    /\ approvals[a].action = "FORCE_CLOSE"
    /\ Decide(a, "APPROVED", "EXECUTED")
    /\ "CLOSED" \notin AllowedTransitions[status[t]]
    /\ UNCHANGED <<status, events, memory, outbox>>

Reject(a, via) ==
    /\ Decide(a, "REJECTED", "SKIPPED")
    /\ Enqueue({Note(approvals[a].ticket, Decided(a), "APPROVAL_RESULT", "origin")}, via)
    /\ UNCHANGED <<status, events, memory>>

-----------------------------------------------------------------------------
OperatorStep ==
    \E t \in Tickets, o \in Operators, via \in Routes : Claim(t, o, via) \/ Resolve(t, o, via)

RequesterStep ==
    \E t \in Tickets : CreateTicket(t) \/ RequesterConfirm(t) \/ RejectResolution(t)

RequestStep ==
    \E a \in Approvals :
        \/ \E t \in Tickets, via \in Routes : Escalate(a, t, via)
        \/ \E t \in Tickets : ForceClose(a, t)
        \/ \E t \in Tickets, action \in ApprovableAction : Propose(a, t, action)
        \/ \E r \in RestCalls : RequestForceClose(r, a)

ApproverStep ==
    \E a \in Approvals :
        \/ \E via \in Routes : ApproveEscalate(a, via) \/ ApproveForceClose(a, via) \/ Reject(a, via)
        \/ ApproveInVain(a)

Next ==
    \/ OperatorStep
    \/ RequesterStep
    \/ RequestStep
    \/ ApproverStep
    \/ \E r \in RestCalls, t \in Tickets : CheckForceClose(r, t)

Spec == Init /\ [][Next]_vars

-----------------------------------------------------------------------------
(* Properties                                                                *)

Actors    == Operators \cup Approvals \cup {Requester, NoOne}
Audiences == {"origin", "public", "private", "operators", "approver"}

\* Every variable has the shape of the table it stands for.
TypeOK ==
    /\ status    \in [Tickets -> TicketStatus \cup {"NONE"}]
    /\ assignee  \in [Tickets -> Operators \cup {NoOne}]
    /\ events    \in [Tickets -> Seq([type : TicketEventType, by : Actors])]
    /\ approvals \in [Approvals -> [status : {"NONE", "PENDING", "APPROVED", "REJECTED"},
                                    ticket : Tickets \cup {NoTicket},
                                    action : ApprovableAction \cup {"NONE"}]]
    /\ pending   \in [Approvals -> {"NONE", "PENDING", "EXECUTED", "SKIPPED"}]
    /\ memory    \in [Tickets -> {"none", "confirmed_closure", "force_closed"}]
    /\ \A n \in outbox : n.ticket \in Tickets /\ n.to \in Audiences
    /\ checked   \in [RestCalls -> Tickets \cup {NoTicket}]

StatusAfter(type) ==
    CASE type = "created"                               -> "OPEN"
      [] type \in {"claimed", "resolution_rejected"}    -> "IN_PROGRESS"
      [] type = "resolved"                              -> "RESOLVED"
      [] type \in {"closed", "force_closed"}            -> "CLOSED"
      [] OTHER                                          -> "NONE"

\* The events from i+1 to j-1 left the status alone.
QuietBetween(log, i, j) == \A k \in DOMAIN log : (i < k /\ k < j) => log[k].type = "escalated"

\* "Ticket current state and TicketEvent are committed transactionally": the
\* log of a ticket starts with its creation, each status it records is allowed
\* to follow the one before, and the last one recorded is the ticket's status.
LogExplainsStatus ==
    \A t \in Tickets :
        LET log == events[t] IN
        /\ (status[t] = "NONE") <=> (log = << >>)
        /\ log # << >> => log[1].type = "created"
        /\ \A i \in DOMAIN log :
              log[i].type # "escalated" =>
                 /\ QuietBetween(log, i, Len(log) + 1) => status[t] = StatusAfter(log[i].type)
                 /\ \A j \in DOMAIN log :
                       (i < j /\ log[j].type # "escalated" /\ QuietBetween(log, i, j))
                          => StatusAfter(log[j].type) \in AllowedTransitions[StatusAfter(log[i].type)]

ForceCloseOf(a, t) == approvals[a].ticket = t /\ approvals[a].action = "FORCE_CLOSE"

Closing(e) == e.type \in {"closed", "force_closed"}

\* A ticket is closed by its requester, who was asked after a resolution, or
\* by an approver who approved a forced close of that very ticket; no agent
\* proposal, operator or escalation closes one, and none is closed twice.
ClosureHasMandate ==
    \A t \in Tickets :
        /\ status[t] = "CLOSED" => \E i \in DOMAIN events[t] : Closing(events[t][i])
        /\ \A i \in DOMAIN events[t] :
              Closing(events[t][i]) =>
                 \/ events[t][i].by = Requester /\ events[t][i].type = "closed"
                 \/ \E a \in Approvals : /\ events[t][i].by = a
                                         /\ ForceCloseOf(a, t)
                                         /\ approvals[a].status = "APPROVED"
        /\ \A i, j \in DOMAIN events[t] :
              Closing(events[t][i]) /\ Closing(events[t][j]) => i = j

\* An approval and its pending action are decided together, so neither early
\* return of approve() is ever taken, and no approval acts before it is
\* approved, on another ticket than its own, or twice.
ApprovalsActOnce ==
    \A a \in Approvals :
        /\ pending[a] = CASE approvals[a].status = "APPROVED" -> "EXECUTED"
                          [] approvals[a].status = "REJECTED" -> "SKIPPED"
                          [] OTHER                            -> approvals[a].status
        /\ \A t \in Tickets : \A i \in DOMAIN events[t] :
              events[t][i].by = a =>
                 /\ approvals[a].ticket = t
                 /\ approvals[a].status = "APPROVED"
                 /\ \A j \in DOMAIN events[t] : events[t][j].by = a => i = j

\* However many operators claim a ticket, its log names one of them, the
\* ticket is assigned to that one for good, and nobody works on a ticket that
\* was not claimed.
OneClaim ==
    \A t \in Tickets :
        LET claims == {i \in DOMAIN events[t] : events[t][i].type = "claimed"} IN
        /\ status[t] \in {"NONE", "OPEN"} => claims = {} /\ assignee[t] = NoOne
        /\ status[t] \notin {"NONE", "OPEN"} =>
              \E i \in claims : claims = {i} /\ assignee[t] = events[t][i].by

\* Once the approval of a forced close counts as executed its ticket is closed,
\* whoever closed it: the status a REST call read before it asked may be stale,
\* yet never so stale that the ticket was still OPEN.
ExecutedForceCloseMeansClosed ==
    \A a \in Approvals :
        pending[a] = "EXECUTED" /\ approvals[a].action = "FORCE_CLOSE"
            => status[approvals[a].ticket] = "CLOSED"

\* The provenance of long-term memory (which recall ranks by) is that of the
\* closure: memory exists exactly for closed tickets, "confirmed_closure" when
\* the requester closed it, "force_closed" when an approver did.
MemoryProvenance ==
    \A t \in Tickets :
        memory[t] =
            IF status[t] # "CLOSED" THEN "none"
            ELSE IF \E i \in DOMAIN events[t] : Closing(events[t][i]) /\ events[t][i].by = Requester
                 THEN "confirmed_closure" ELSE "force_closed"

\* A ticket that waits for its requester waits on a question about its latest
\* resolution, not about one the requester already rejected.
ConfirmationAsked ==
    \A t \in Tickets :
        status[t] = "RESOLVED" /\ "public" \in Reachable =>
            \E i \in DOMAIN events[t] :
                /\ QuietBetween(events[t], i, Len(events[t]) + 1)
                /\ Note(t, <<t, i>>, "REQUESTER_CONFIRMATION_REQUEST", "public") \in outbox

\* No notification announces what was rolled back or never happened: each one
\* about a log entry finds that entry, with its status, in the log of its
\* ticket, and a decision is announced only for an approval decided that way.
NotesTellTheTruth ==
    \A n \in outbox :
        LET subject == n.cause[1]  k == n.cause[2]  t == n.ticket IN
        IF subject \in Approvals
        THEN /\ approvals[subject].ticket = t
             /\ k = 0 => approvals[subject].status # "NONE"
             /\ k = 1 => approvals[subject].status \in {"APPROVED", "REJECTED"}
             /\ n.type = "REQUESTER_STATUS_UPDATE" =>
                   \E i \in DOMAIN events[t] : Closing(events[t][i]) /\ events[t][i].by = subject
        ELSE /\ subject = t
             /\ k \in DOMAIN events[t]
             /\ n.type = "REQUESTER_CONFIRMATION_REQUEST" => events[t][k].type = "resolved"
             /\ n.type = "OPERATOR_WORK_ITEM" => events[t][k].type = "created"

CloseIsDecided ==
    \A t \in Tickets :
        status[t] # "CLOSED" /\ status'[t] = "CLOSED" =>
            \/ status[t] = "RESOLVED" /\ approvals' = approvals
            \/ \E a \in Approvals : /\ ForceCloseOf(a, t)
                                    /\ approvals[a].status = "PENDING"
                                    /\ approvals'[a].status = "APPROVED"

\* RESOLVE never closes (AC-17), and a pending approval never changes a status
\* (AC-08): a step that closes a ticket is the requester's answer to a
\* resolution or the very step that approves a forced close.
ClosesOnlyByDecision == [][CloseIsDecided]_vars

\* "execution_status guards exactly-once execution": an action that counts as
\* executed has left its event in the log of its ticket.
ExecutedActionHasEffect ==
    \A a \in Approvals :
        pending[a] = "EXECUTED" =>
            \E i \in DOMAIN events[approvals[a].ticket] : events[approvals[a].ticket][i].by = a

-----------------------------------------------------------------------------
(* What the detail is for                                                    *)

\* A request as Casework sees it.
CaseRequest(a) ==
    IF approvals[a].status = "NONE" THEN [state |-> "none"]
    ELSE [state  |-> CASE approvals[a].status = "PENDING"  -> "open"
                       [] approvals[a].status = "APPROVED" -> "done"
                       [] OTHER                            -> "declined",
          ticket |-> approvals[a].ticket,
          action |-> approvals[a].action]

EventsBy(t, types) ==
    {events[t][i].by : i \in {j \in DOMAIN events[t] : events[t][j].type \in types}}

Holder       == [t \in Tickets |-> {assignee[t]} \ {NoOne}]
CaseRequests == [a \in Approvals |-> CaseRequest(a)]
ClosedBy     == [t \in Tickets |-> EventsBy(t, {"closed", "force_closed"})]
EscalatedBy  == [t \in Tickets |-> EventsBy(t, {"escalated"})]

Case == INSTANCE Casework WITH
    assignee    <- Holder,
    requests    <- CaseRequests,
    closedBy    <- ClosedBy,
    escalatedBy <- EscalatedBy

\* "Every action is a unit of work": as long as no decision arrives by channel,
\* every handler, with all it writes, is one step of Casework or none.
ImplementsCasework == Case!Spec
=============================================================================
