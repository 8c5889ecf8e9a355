------------------------------- MODULE Targets -------------------------------
(***************************************************************************)
(* Where a notice goes: TargetResolver (app/application/target_resolver.py)*)
(* over the tables of Accounts, with the notices TicketActionService and   *)
(* SupportWorkflow enqueue and the visibility each one carries.  Which     *)
(* notice belongs to which move of a ticket is TicketLifecycle; here only  *)
(* its ticket, its visibility and its address count.                       *)
(***************************************************************************)
EXTENDS Accounts, FiniteSets

CONSTANTS
    Spoken,         \* who may speak where: [by : identity, id : conversation, hint : its type]
    Staff,          \* the roles the scripts may give: <<user, role>>
    Bindable,       \* the identities they may bind: <<identity, user>>
    Registered,     \* rows POST /conversations/register may name
    MaxReports      \* bound on the tickets

ASSUME TargetsAssumption ==
    /\ MaxReports \in Nat /\ Registered \subseteq Row
    /\ Spoken \subseteq [by : Identities, id : Conversations, hint : {"DM", "GROUP"}]
    /\ Staff \subseteq AllUsers \X {"OPERATOR", "APPROVER"} /\ Bindable \subseteq Identities \X AllUsers

VARIABLES
    reports,        \* tickets: their user, source conversation and queue
    notices         \* rows the last step added to the outbox: visibility, address, whose ticket

targetVars == <<accountVars, reports, notices>>

NoTarget        == [kind |-> "none"]
ToConversation(k) == [kind |-> "conversation", channel |-> conversations[k].channel,
                      id |-> conversations[k].id]
ToUser(channel, id) == [kind |-> "user", channel |-> channel, id |-> id]

-----------------------------------------------------------------------------
\* requester_public: a requester conversation for the queue and the channel,
\* else the conversation the ticket came from, looked up by its id alone.
RequesterPublic(t, channel) ==
    LET preferred == FindRequesterConversation(t.queue, channel)
        source    == FindById(t.source)
    IN  IF preferred # 0 THEN ToConversation(preferred)
        ELSE IF source # 0 THEN ToConversation(source)
        ELSE NoTarget

\* Mutant: whoever has an identity on the channel.
ChannelUserIdOfAny(channel, u) == {i[2] : i \in {j \in Identities : j[1] = channel /\ identities[j] # NoUser}}

\* _channel_user_id: the ids the user may be reached by.
ChannelUserId(channel, u) == {i[2] : i \in IdentitiesOn(channel, u)}

\* requester_private: the user's identity on the channel.  A DM session on it
\* makes no difference to the address, except where there is no identity: then
\* the id of the conversation is taken for the user's.
RequesterPrivate(t, u, channel) ==
    LET source == FindById(t.source)
        on     == IF channel # "" THEN channel
                  ELSE IF source # 0 THEN conversations[source].channel ELSE "wecom"
        dms    == {s \in SessionsOf(u) :
                      /\ s.channel = on
                      /\ Find(on, s.id) # 0 /\ conversations[Find(on, s.id)].type = "DM"}
    IN  IF ChannelUserId(on, u) # {} THEN ToUser(on, CHOOSE id \in ChannelUserId(on, u) : TRUE)
        ELSE IF dms # {} THEN ToUser(on, (CHOOSE s \in dms : TRUE).id)
        ELSE NoTarget

\* operator_queue, approver, action_origin and by_conversation.
OperatorQueue(queue, channel) ==
    LET k == FindOperatorConversation(queue, channel) IN IF k = 0 THEN NoTarget ELSE ToConversation(k)
Approver ==
    LET k == FindApprovalConversation IN IF k = 0 THEN NoTarget ELSE ToConversation(k)
ActionOrigin(channel, id) == [kind |-> "conversation", channel |-> channel, id |-> id]
ByConversation(channel, id) ==
    LET k == Find(channel, id)
    IN  IF k # 0 /\ ~conversations[k].enabled THEN NoTarget ELSE ActionOrigin(channel, id)

\* NotificationService.enqueue: nothing is kept for a target that is not found.
Enqueue(t, addressed) ==
    notices' = {[visibility |-> a[1], to |-> a[2], user |-> t.user] :
                   a \in {b \in addressed : b[2] # NoTarget}}

TargetsInit == AccountsInit /\ reports = <<>> /\ notices = {}

-----------------------------------------------------------------------------
\* A message that opens no ticket is answered where it was sent
\* (TicketActionService.conversation_reply).
Talk(m) ==
    /\ Contact(m.by, m.id, m.hint)
    /\ LET k == Find(m.by[1], m.id)
       IN  Enqueue([user |-> identities'[m.by]],
                   {<<"PUBLIC", IF k = 0 THEN ActionOrigin(m.by[1], m.id)
                                ELSE ByConversation(m.by[1], m.id)>>})
    /\ UNCHANGED reports

\* create_ticket: the ticket has the queue of its conversation, and the
\* operators of the queue are told.
Report(m) ==
    LET k == Find(m.by[1], m.id)
        t == [user |-> identities'[m.by], source |-> m.id,
              queue |-> IF k = 0 THEN "" ELSE conversations[k].queue]
    IN  /\ Len(reports) < MaxReports
        /\ Contact(m.by, m.id, m.hint)
        /\ reports' = Append(reports, t)
        /\ Enqueue(t, {<<"INTERNAL", OperatorQueue(t.queue, m.by[1])>>})

\* requester_acknowledgement and operator_update_note, in phase B of a message
\* of session s, with the ticket as it was before its queue became that of the
\* session's conversation, "general" if it has none.
Acknowledge(r, s) ==
    LET t == reports[r]
        k == Find(s.channel, s.id)
    IN  /\ s.user = t.user
        /\ reports' = [reports EXCEPT ![r].queue = IF conversations[k].queue = "" THEN "general"
                                                   ELSE conversations[k].queue]
        /\ Enqueue(t, {<<"PUBLIC", RequesterPublic(t, s.channel)>>,
                       <<"PRIVATE", RequesterPrivate(t, t.user, s.channel)>>,
                       <<"INTERNAL", OperatorQueue(t.queue, s.channel)>>})
        /\ UNCHANGED accountVars

\* claim and resolve by a command in an operator conversation: the receipt goes
\* back there, the requester is looked for on the operator's channel.
OperatorActs(r, m) ==
    LET t == reports[r]
        k == Find(m.by[1], m.id)
    IN  /\ Actor(m.by, "OPERATOR")
        /\ k # 0 /\ conversations[k].purpose = "OPERATOR"
        /\ Enqueue(t, {<<"INTERNAL", ActionOrigin(m.by[1], m.id)>>,
                       <<"PUBLIC", RequesterPublic(t, m.by[1])>>,
                       <<"PRIVATE", RequesterPrivate(t, t.user, m.by[1])>>})
        /\ UNCHANGED <<accountVars, reports>>

\* The same by REST: no place to send a receipt to, and the channel is "wecom".
OperatorCalls(r, i) ==
    LET t == reports[r] IN
    /\ Actor(i, "OPERATOR")
    /\ Enqueue(t, {<<"PUBLIC", RequesterPublic(t, "wecom")>>,
                   <<"PRIVATE", RequesterPrivate(t, t.user, "wecom")>>})
    /\ UNCHANGED <<accountVars, reports>>

\* requester_confirm, and reject_resolution, which names no channel for the
\* requester's notice and sends no private one.
RequesterAnswers(r, s, confirmed) ==
    LET t == reports[r] IN
    /\ s.user = t.user
    /\ Enqueue(t, {<<"PUBLIC", RequesterPublic(t, IF confirmed THEN s.channel ELSE "")>>,
                   <<"PRIVATE", IF confirmed THEN RequesterPrivate(t, t.user, s.channel) ELSE NoTarget>>,
                   <<"INTERNAL", OperatorQueue(t.queue, s.channel)>>})
    /\ UNCHANGED <<accountVars, reports>>

\* _request_approval by an operator, and _execute by an approver: the request
\* to the approvers, the result to the operators, the receipt to whoever acted
\* and, of a forced closure, word to the requester, of no channel either.
ApprovalStep(r, m, closes) ==
    LET t == reports[r]
        k == Find(m.by[1], m.id)
        role == IF conversations[k].purpose = "APPROVAL" THEN "APPROVER" ELSE "OPERATOR"
    IN  /\ k # 0 /\ conversations[k].purpose # "REQUESTER"
        /\ Actor(m.by, role)
        /\ Enqueue(t, {<<"INTERNAL", ActionOrigin(m.by[1], m.id)>>} \cup
                      IF role = "OPERATOR" THEN {<<"INTERNAL", Approver>>}
                      ELSE {<<"INTERNAL", OperatorQueue(t.queue, IF closes THEN m.by[1] ELSE "")>>,
                            <<"PUBLIC", IF closes THEN RequesterPublic(t, "") ELSE NoTarget>>})
        /\ UNCHANGED <<accountVars, reports>>

TargetsNext ==
    \/ \E m \in Spoken : Talk(m) \/ Report(m)
    \/ \E r \in DOMAIN reports :
        \/ \E s \in sessionRows :
            \/ Acknowledge(r, s)
            \/ \E confirmed \in BOOLEAN : RequesterAnswers(r, s, confirmed)
        \/ \E m \in Spoken : \/ OperatorActs(r, m)
                             \/ OperatorCalls(r, m.by)
                             \/ \E closes \in BOOLEAN : ApprovalStep(r, m, closes)
    \/ /\ \/ LoadSeed
          \/ \E b \in Bindable : BindIdentity(b[1], b[2])
          \/ \E g \in Staff : EnsureRole(g[1], g[2])
          \/ \E row \in Registered : RegisterConversation(row)
       /\ notices' = {}
       /\ UNCHANGED reports

TargetsSpec == TargetsInit /\ [][TargetsNext]_targetVars

-----------------------------------------------------------------------------
RowOf(to) == conversations[Find(to.channel, to.id)]

TargetsTypeOK ==
    /\ identities \in [Identities -> AllUsers \cup {NoUser}]
    /\ \A k \in DOMAIN conversations : conversations[k] \in Row
    /\ \A k \in DOMAIN reports : reports[k].user \in AllUsers
    /\ \A n \in notices : n.visibility \in {"PUBLIC", "PRIVATE", "INTERNAL"} /\ n.user \in AllUsers

\* "PRIVATE: requester DM only": a private notice is addressed to an identity
\* of the ticket's own user, whichever channel it goes out on.
PrivateToOwner ==
    \A n \in notices : n.visibility = "PRIVATE" =>
        n.to.kind = "user" /\ identities[<<n.to.channel, n.to.id>>] = n.user

\* Whatever fallback found the address, a public notice goes to a conversation
\* that is enabled and is the requesters', or is known by an id under which its
\* own user has written: never to operators or approvers who have nothing to do
\* with the user.
PublicToRequesters ==
    \A n \in notices : n.visibility = "PUBLIC" =>
        /\ n.to.kind = "conversation"
        /\ RowOf(n.to).enabled
        /\ \/ RowOf(n.to).purpose = "REQUESTER"
           \/ \E s \in SessionsOf(n.user) : s.id = n.to.id

\* The README has public replies go to the users' group and word of a ticket to
\* its reporter: a public notice goes to a group or to a conversation its own
\* user has a session in, never to another requester's chat of two.
PublicToGroupOrOwn ==
    \A n \in notices : n.visibility = "PUBLIC" =>
        \/ RowOf(n.to).type = "GROUP"
        \/ [user |-> n.user, channel |-> n.to.channel, id |-> n.to.id] \in sessionRows

\* "INTERNAL: operator / approver only": no internal notice goes to a
\* requester's conversation or to a user.
InternalToStaff ==
    \A n \in notices : n.visibility = "INTERNAL" =>
        n.to.kind = "conversation" /\ RowOf(n.to).purpose \in {"OPERATOR", "APPROVAL"}
=============================================================================
