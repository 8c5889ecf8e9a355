------------------------------- MODULE Workflow -------------------------------
(***************************************************************************)
(* SupportWorkflow (app/application/workflow.py) with TicketResolver and   *)
(* TicketService (app/application/ticket_service.py): what becomes of a    *)
(* message, and which ticket it is about.                                  *)
(*                                                                         *)
(* prepare() runs in the first transaction of the ingress: it takes every  *)
(* deterministic effect and either replies or leaves the message to the    *)
(* agent.  The agent runs with no transaction; apply() takes its decision  *)
(* in a second one.  In between other messages are handled, tickets move,  *)
(* and the process may stop, after which resume() rebuilds the agent phase *)
(* from the row phase A left.  Tickets are numbered as they are created.   *)
(***************************************************************************)
EXTENDS Routing

CONSTANTS
    MaxMessages,    \* bound on the messages, numbered as they arrive
    WithoutId,      \* those the channel gave no message_id
    Users,          \* canonical users
    Operators,      \* users with the OPERATOR role
    Approvers,      \* users with the APPROVER role
    Places,         \* conversations
    Sessions,       \* who speaks where
    Purpose,        \* [Places -> purpose of the conversation]
    Disabled,       \* conversations that were registered with enabled = FALSE
    HasLLM,         \* whether a model may be configured (it is read at start-up)
    MaxTickets      \* bound on the tickets created

ASSUME WorkflowAssumption ==
    /\ MaxMessages \in Nat /\ WithoutId \subseteq 1..MaxMessages
    /\ Sessions \subseteq Users \X Places
    /\ Operators \subseteq Users /\ Approvers \subseteq Users
    /\ Purpose \in [Places -> {"REQUESTER", "OPERATOR", "APPROVAL"}] /\ Disabled \subseteq Places
    /\ HasLLM \in BOOLEAN /\ MaxTickets \in Nat

VARIABLES
    cases,          \* tickets, in the order of their ids
    bound,          \* session_ticket_contexts: [Sessions -> ticket or 0]
    work,           \* where each message is
    replies         \* rows of the outbox that answer a message

workflowVars == <<cases, bound, work, replies>>

Messages == 1..MaxMessages

\* What a requester's text comes to: whether it confirms or rejects a resolution,
\* the ticket it names and where its intent leads.  A progress question that
\* only the embeddings recognised is a "follow_up", an unclassifiable text with a
\* word of SUPPORT_GUARD_TERMS is "guarded".
Content(words, ticket, social, guard, hits, s) ==
    LET routed == Route(ticket, social, hits, s)
    IN  [answer |-> ParseAnswer(words),
         names  |-> ticket,
         says   |-> CASE routed.intent = "progress_query" /\ routed.reason = "anchor-match" -> "follow_up"
                      [] routed.intent = "other" /\ guard                                  -> "guarded"
                      [] OTHER -> routed.intent]
Contents ==
    {Content(words, ticket, social, guard, hits, s) :
        words \in SUBSET AnswerWords, ticket \in 0..MaxTickets, social \in SocialSigns, guard \in BOOLEAN,
        hits \in Keywords, s \in Semantics({"none", "anchors", "setfit"}, {30, 57, 65, 80})}

\* A message: its session and ticket, and what phase A left in inbound_processing
\* for the agent phase.
NewMessage == [stage |-> "new", session |-> <<>>, kind |-> "", intent |-> "", ticket |-> 0,
               created |-> FALSE]

WorkflowInit ==
    /\ cases = <<>>
    /\ bound = [s \in Sessions |-> 0]
    /\ work = [m \in Messages |-> NewMessage]
    /\ replies = {}

-----------------------------------------------------------------------------
(* TicketService and TicketResolver                                          *)

Own(u)    == {t \in DOMAIN cases : cases[t].user = u}
Exists(t) == t \in DOMAIN cases

\* active_tickets: a RESOLVED ticket is not one of them.
ActiveTickets(u) == {t \in Own(u) : cases[t].status \in {"OPEN", "IN_PROGRESS"}}

\* recent: the last of the user's tickets, whatever its status.
RecentTicket(u) == IF Own(u) = {} THEN 0 ELSE CHOOSE t \in Own(u) : \A o \in Own(u) : o <= t

\* Mutant: any ticket may be named.
FindAny(names, u) == IF Exists(names) THEN names ELSE 0

\* _find_explicit: only the user's own ticket can be named.
FindExplicit(names, u) == IF names \in Own(u) THEN names ELSE 0

\* Mutant: a session continues its ticket whatever became of it.
SessionContinues(s) == IF bound[s] \in Own(s[1]) THEN bound[s] ELSE 0

\* The session's ticket, unless it is CLOSED.
SessionTicket(s) ==
    IF bound[s] \in Own(s[1]) /\ cases[bound[s]].status # "CLOSED" THEN bound[s] ELSE 0

\* TicketResolver.resolve: the ticket named, the session's, the only active one.
Resolution(names, s) ==
    LET explicit == FindExplicit(names, s[1])
        active   == ActiveTickets(s[1])
    IN  IF explicit # 0 THEN [kind |-> "EXPLICIT", ticket |-> explicit]
        ELSE IF SessionTicket(s) # 0 THEN [kind |-> "SESSION", ticket |-> SessionTicket(s)]
        ELSE IF active = {} THEN [kind |-> "CREATE_NEW", ticket |-> 0]
        ELSE IF Cardinality(active) = 1 THEN [kind |-> "ONLY_ACTIVE", ticket |-> CHOOSE t \in active : TRUE]
        ELSE [kind |-> "CLARIFY", ticket |-> 0]

\* _resolution_candidate: the ticket a confirmation is taken to be about.
ResolutionCandidate(names, s) ==
    IF names \in Own(s[1]) THEN names
    ELSE IF bound[s] \in Own(s[1]) THEN bound[s]
    ELSE RecentTicket(s[1])

-----------------------------------------------------------------------------
(* Steps the handlers share                                                  *)

\* TicketActionService.create_ticket: an OPEN ticket of the user, with the
\* conversation it came from and its work item for the operators.
CreateCase(m, s) ==
    /\ Len(cases) < MaxTickets
    /\ cases' = Append(cases, [user |-> s[1], status |-> "OPEN", cause |-> m, source |-> s[2]])

\* _bind_session_ticket.
Bind(s, t) == bound' = [bound EXCEPT ![s] = t]

\* The row phase A leaves for the agent phase.
Prepare(m, s, kind, intent, t, created) ==
    /\ work' = [work EXCEPT ![m] = [stage |-> "prepared", session |-> s, kind |-> kind,
                                    intent |-> intent, ticket |-> t, created |-> created]]
    /\ UNCHANGED replies

\* by_conversation: where a message came from, unless that is disabled.
ConversationTarget(p) == {p} \ Disabled

\* requester_public: a requester conversation of the queue or the channel if
\* there is one, which is Targets', else the conversation the ticket came from.
FromDisabled == {t \in DOMAIN cases : cases[t].source \in Disabled}
RequesterTargets(t) == {{"requester_public"}} \cup IF t \in FromDisabled THEN {{}} ELSE {}

\* NotificationService.enqueue of a REACTIVE_REPLY: nothing is kept without a
\* target, and UNIQUE on the event and the target drops a second one.
Answer(m, event, target) ==
    replies' = replies \cup {[event |-> event, to |-> to, of |-> m] :
                   to \in {x \in target : ~\E r \in replies : r.event = event /\ r.to = x}}

\* The event of a deterministic reply: messages without an id share one.
DeterministicEvent(m) == <<"deterministic", IF m \in WithoutId THEN 0 ELSE m>>

\* A run has an id of its own, and only one run of a message is applied.
RunEvent(m) == <<"run", m>>

\* _deterministic: the message is answered where it was sent, and done.
Finished(s, t) == [NewMessage EXCEPT !.stage = "done", !.session = s, !.ticket = t]

Deterministic(m, s, t) ==
    /\ Answer(m, DeterministicEvent(m), ConversationTarget(s[2]))
    /\ work' = [work EXCEPT ![m] = Finished(s, t)]

\* A ticket moves; who may do so, and what else it does, is TicketLifecycle's.
AllowedTransitions == {<<"OPEN", "IN_PROGRESS">>, <<"IN_PROGRESS", "RESOLVED">>,
                       <<"IN_PROGRESS", "CLOSED">>, <<"RESOLVED", "CLOSED">>,
                       <<"RESOLVED", "IN_PROGRESS">>}
Move(t, to) ==
    /\ <<cases[t].status, to>> \in AllowedTransitions
    /\ cases' = [cases EXCEPT ![t].status = to]

-----------------------------------------------------------------------------
(* prepare(): the requester flow                                             *)

IsAnswer(s, c) ==
    LET t == ResolutionCandidate(c.names, s)
    IN  c.answer # "no" /\ t # 0 /\ cases[t].status = "RESOLVED"

\* _handle_confirmation: the resolution is confirmed or rejected.
HandleConfirmation(m, s, c) ==
    LET t == ResolutionCandidate(c.names, s) IN
    /\ IsAnswer(s, c)
    /\ Move(t, IF c.answer = "confirm" THEN "CLOSED" ELSE "IN_PROGRESS")
    /\ Deterministic(m, s, t)
    /\ UNCHANGED bound

\* With exactly one active ticket an unclear message continues it.
OneActive(s) == Cardinality(ActiveTickets(s[1])) = 1

GoesToSupport(s, c) ==
    c.says \in {"support", "guarded"} \/ (c.says \in {"follow_up", "other"} /\ OneActive(s))
GoesToProgress(s, c) == c.says = "progress_query" \/ (c.says = "follow_up" /\ ~OneActive(s))

\* _prepare_faq: without a grounded answer the question becomes a ticket, which
\* the session is not bound to.
PrepareFaq(m, s, grounded) ==
    /\ IF grounded
       THEN Prepare(m, s, "faq_answer", "faq", 0, FALSE) /\ UNCHANGED cases
       ELSE CreateCase(m, s) /\ Prepare(m, s, "no_answer", "no_answer", Len(cases'), FALSE)
    /\ UNCHANGED bound

Clarify(m, s, c) ==
    /\ Resolution(c.names, s).kind = "CLARIFY"
    /\ Deterministic(m, s, 0)
    /\ UNCHANGED <<cases, bound>>

\* _prepare_support.
OpenCase(m, s, c) ==
    /\ Resolution(c.names, s).kind = "CREATE_NEW"
    /\ CreateCase(m, s)
    /\ Bind(s, Len(cases'))
    /\ Prepare(m, s, "ticket", "support", Len(cases'), TRUE)

ContinueCase(m, s, c) ==
    LET t == Resolution(c.names, s).ticket IN
    /\ t # 0
    /\ Bind(s, t)
    /\ Prepare(m, s, "ticket", "support", t, FALSE)
    /\ UNCHANGED cases

PrepareSupport(m, s, c) == Clarify(m, s, c) \/ OpenCase(m, s, c) \/ ContinueCase(m, s, c)

\* _prepare_progress: with nothing resolved the last ticket is told of, and the
\* session bound to it whatever its status.
TellProgress(m, s, c) ==
    LET found == Resolution(c.names, s)
        t     == IF found.kind = "CREATE_NEW" THEN RecentTicket(s[1]) ELSE found.ticket
    IN  /\ found.kind # "CLARIFY"
        /\ IF t = 0 THEN UNCHANGED bound ELSE Bind(s, t)
        /\ Deterministic(m, s, t)
        /\ UNCHANGED cases

\* _prepare_chitchat: no ticket, whichever way the message came here.
PrepareChitchat(m, s, kind) ==
    Prepare(m, s, kind, "chitchat", 0, FALSE) /\ UNCHANGED <<cases, bound>>

\* _prepare_other: a model may converse; without one the user is asked to be clearer.
PrepareOther(m, s, llm) ==
    IF llm THEN PrepareChitchat(m, s, "other")
    ELSE Deterministic(m, s, 0) /\ UNCHANGED <<cases, bound>>

PrepareRequester(m, s, c) ==
    \/ HandleConfirmation(m, s, c)
    \/ /\ ~IsAnswer(s, c)
       /\ \/ c.says = "faq" /\ \E grounded \in BOOLEAN : PrepareFaq(m, s, grounded)
          \/ c.says = "chitchat" /\ PrepareChitchat(m, s, "chitchat")
          \/ GoesToSupport(s, c) /\ PrepareSupport(m, s, c)
          \/ GoesToProgress(s, c) /\ (Clarify(m, s, c) \/ TellProgress(m, s, c))
          \/ /\ c.says = "other" /\ ~OneActive(s)
             /\ \E llm \in BOOLEAN : (llm => HasLLM) /\ PrepareOther(m, s, llm)

-----------------------------------------------------------------------------
(* prepare(): operators and approvers                                        *)

\* _prepare_operator and _prepare_approval: whatever comes of a command, it is
\* answered; it takes the role, and the ticket moves if it may.
Command(m, s, role, t, moves) ==
    /\ Deterministic(m, s, 0)
    /\ UNCHANGED bound
    /\ IF s[1] \in role /\ Exists(t)
       THEN cases' = [cases EXCEPT ![t].status = IF \E v \in moves : v[1] = @
                                                THEN (CHOOSE v \in moves : v[1] = @)[2] ELSE @]
       ELSE UNCHANGED cases

\* The moves a command makes: escalate and force_close only ask for an approval.
Moves(order) ==
    CASE order = "claim"   -> {<<"OPEN", "IN_PROGRESS">>}
      [] order = "resolve" -> {<<"IN_PROGRESS", "RESOLVED">>}
      [] OTHER             -> {}

OperatorCommands == {[order |-> ParseOperator(words, t), ticket |-> t] :
                        words \in SUBSET OperatorWords, t \in 0..MaxTickets}
ApproverCommands == {ParseApprover(words, names) : words \in SUBSET ApproverWords, names \in BOOLEAN}

\* prepare(): the purpose of the conversation decides.  In an operator
\* conversation a message that is no command is a requester's.
ReceiveInRequesterFlow(m, s, c) ==
    /\ Purpose[s[2]] \in {"REQUESTER", "OPERATOR"}
    /\ PrepareRequester(m, s, c)

ReceiveFromOperator(m, s, c) ==
    /\ Purpose[s[2]] = "OPERATOR" /\ c.order # None
    /\ Command(m, s, Operators, c.ticket, Moves(c.order))

\* An approval is known by its id; what it decides and of which ticket, and
\* whether it is still open, is TicketLifecycle's.
ReceiveFromApprover(m, s, order, t, closes) ==
    /\ Purpose[s[2]] = "APPROVAL"
    /\ Command(m, s, Approvers, t, IF order = "approve" /\ closes
                                   THEN {<<"IN_PROGRESS", "CLOSED">>, <<"RESOLVED", "CLOSED">>} ELSE {})

NextIn(m) == work[m].stage = "new" /\ \A n \in 1..m - 1 : work[n].stage # "new"

\* Tickets also move by REST, and other users' messages move them.
TicketMoves(t, to) ==
    /\ Exists(t)
    /\ Move(t, to)
    /\ UNCHANGED <<bound, work, replies>>

-----------------------------------------------------------------------------
(* resume() and apply()                                                      *)

\* Mutant: phase A is run again.
ResumeAfresh(m) ==
    /\ work[m].stage = "prepared"
    /\ work[m].intent = "support"
    /\ CreateCase(m, work[m].session)
    /\ work' = [work EXCEPT ![m].ticket = Len(cases')]
    /\ UNCHANGED <<bound, replies>>

\* resume(): after a crash the message is prepared from its row, and no longer
\* counts as the one that created the ticket.
Resume(m) ==
    /\ work[m].stage = "prepared"
    /\ work' = [work EXCEPT ![m].created = FALSE]
    /\ UNCHANGED <<cases, bound, replies>>

\* What a run may come back with, as far as this module goes.
Runs == [fallback : BOOLEAN, needsHuman : BOOLEAN]

Finish(m, t) == work' = [work EXCEPT ![m] = Finished(work[m].session, t)]

\* _apply_chitchat: a model that asks for a human over an unclear message opens
\* a ticket; nothing else does.
ApplyChitchat(m, run) ==
    LET s == work[m].session IN
    /\ work[m].intent = "chitchat"
    /\ IF work[m].kind = "other" /\ ~run.fallback /\ run.needsHuman
       THEN CreateCase(m, s) /\ Bind(s, Len(cases')) /\ Finish(m, Len(cases'))
       ELSE UNCHANGED <<cases, bound>> /\ Finish(m, 0)
    /\ Answer(m, RunEvent(m), ConversationTarget(s[2]))

ApplyFaq(m) ==
    /\ work[m].intent = "faq"
    /\ Answer(m, RunEvent(m), ConversationTarget(work[m].session[2]))
    /\ Finish(m, 0)
    /\ UNCHANGED <<cases, bound>>

\* _apply_support and _apply_no_answer: the requester is answered where the
\* ticket's notices go.  The summary, category, priority and queue written to
\* the ticket are not kept here, the approval the agent may propose is Propose
\* of TicketLifecycle.
ApplyCase(m) ==
    /\ work[m].intent \in {"support", "no_answer"}
    /\ \E target \in RequesterTargets(work[m].ticket) : Answer(m, RunEvent(m), target)
    /\ Finish(m, work[m].ticket)
    /\ UNCHANGED <<cases, bound>>

Apply(m) ==
    /\ work[m].stage = "prepared"
    /\ (\E run \in Runs : ApplyChitchat(m, run)) \/ ApplyFaq(m) \/ ApplyCase(m)

WorkflowNext ==
    \/ \E m \in Messages, s \in Sessions :
        /\ NextIn(m)
        /\ \/ \E c \in Contents : ReceiveInRequesterFlow(m, s, c)
           \/ \E c \in OperatorCommands : ReceiveFromOperator(m, s, c)
           \/ \E order \in ApproverCommands, t \in 1..MaxTickets, closes \in BOOLEAN :
                ReceiveFromApprover(m, s, order, t, closes)
    \/ \E m \in Messages : Apply(m) \/ Resume(m)
    \/ \E t \in 1..MaxTickets, to \in {"IN_PROGRESS", "RESOLVED", "CLOSED"} : TicketMoves(t, to)

WorkflowSpec == WorkflowInit /\ [][WorkflowNext]_workflowVars

-----------------------------------------------------------------------------
WorkflowTypeOK ==
    /\ \A t \in DOMAIN cases :
        cases[t] \in [user : Users, status : {"OPEN", "IN_PROGRESS", "RESOLVED", "CLOSED"},
                      cause : Messages, source : Places]
    /\ bound \in [Sessions -> 0..Len(cases)]
    /\ \A m \in Messages :
        /\ work[m].stage \in {"new", "prepared", "done"}
        /\ work[m].ticket \in 0..Len(cases)
    /\ \A r \in replies : r.of \in Messages

\* A message is only ever about its sender's tickets: the ticket it was taken to
\* be about and the one its session is bound to belong to the canonical user
\* who wrote it, whatever ids a text names.
OwnCaseOnly ==
    /\ \A s \in Sessions : bound[s] # 0 => bound[s] \in Own(s[1])
    /\ \A m \in Messages : work[m].ticket # 0 => work[m].ticket \in Own(work[m].session[1])

\* "Never re-runs deterministic business effects": however often the agent phase
\* is rebuilt, a message opens at most one ticket.
OneCasePerMessage ==
    \A t, o \in DOMAIN cases : cases[t].cause = cases[o].cause => t = o

\* It came from a conversation that is disabled, or is about a ticket that did.
Unheard(row) == row.session[2] \in Disabled \/ row.ticket \in FromDisabled

\* A message that is done has been answered once, and no message before: the
\* answer is not lost to the UNIQUE constraint of the outbox, nor for want of a
\* target but in a conversation that is disabled.
AnsweredOnce ==
    \A m \in Messages \ WithoutId :
        LET n == Cardinality({r \in replies : r.of = m}) IN
        \/ n = IF work[m].stage = "done" THEN 1 ELSE 0
        \/ n = 0 /\ Unheard(work[m])

\* "Otherwise a new report gets recorded onto a finished ticket": when a report
\* is taken to be about an existing ticket, that ticket is not CLOSED.
ReportNotOnClosed ==
    [][\A m \in Messages :
        /\ work[m].stage = "new" /\ work'[m].intent = "support"
        /\ work'[m].ticket \in DOMAIN cases
        => cases[work'[m].ticket].status # "CLOSED"]_workflowVars

-----------------------------------------------------------------------------
(* Refinement                                                                *)

Author      == [m \in Messages |-> IF work[m].stage = "new" THEN {} ELSE {work[m].session}]
Opened      == [m \in Messages |-> {<<t, <<cases[t].user, cases[t].source>>>> :
                                       t \in {o \in DOMAIN cases : cases[o].cause = m}}]
About       == [m \in Messages |-> {work[m].ticket} \ {0}]
Done        == {m \in Messages : work[m].stage = "done"}
AnswerCount == [m \in Messages |-> Cardinality({r \in replies : r.of = m})]

Promise == INSTANCE Intake WITH
    Authors  <- Sessions,
    Cases    <- 1..MaxTickets,
    Nameless <- WithoutId,
    Silent   <- Disabled,
    author   <- Author,
    opened   <- Opened,
    about    <- About,
    done     <- Done,
    answers  <- AnswerCount

\* Whatever a text names, whatever a run comes back with and however often it is
\* resumed, a message is taken once, opens one case at most, of its author, is
\* about a case of its author's, and is answered once, when it is done.
ImplementsIntake == Promise!Spec
=============================================================================
