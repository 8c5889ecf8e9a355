------------------------------- MODULE Accounts -------------------------------
(***************************************************************************)
(* Who writes and where: canonical users and their channel identities      *)
(* (app/application/identity_service.py), roles (role_service.py), sessions*)
(* (session_service.py) and conversations (conversation_service.py), over  *)
(* their tables in app/infrastructure/repositories.py.                     *)
(*                                                                         *)
(* A canonical user is named by the channel identity it was made for.  The *)
(* tables keep their rows in the order of created_at, which is what        *)
(* ORDER BY created_at LIMIT 1 goes by.                                    *)
(***************************************************************************)
EXTENDS Integers, Sequences, SequencesExt

CONSTANTS
    Channels,           \* "wecom", "feishu", "api"
    ChannelUsers,       \* user ids of the channels
    Conversations,      \* conversation ids of the channels
    Seed                \* seed/conversations.json: rows in their order

VARIABLES
    identities,         \* channel_identities: [identity -> user, or NoUser]
    roles,              \* user_roles: a set of <<user, role>>
    sessionRows,        \* sessions, a set of rows
    conversations       \* conversations

accountVars == <<identities, roles, sessionRows, conversations>>

Identities == Channels \X ChannelUsers
AllUsers   == Identities
NoUser     == <<>>

Row == [channel : Channels, id : Conversations, type : {"DM", "GROUP"},
        purpose : {"REQUESTER", "OPERATOR", "APPROVAL"}, queue : {"", "facility"}, enabled : BOOLEAN]

ASSUME SeedAssumption ==
    /\ Seed \in Seq(Row)
    /\ \A i, j \in DOMAIN Seed : Seed[i].channel = Seed[j].channel /\ Seed[i].id = Seed[j].id => i = j

-----------------------------------------------------------------------------
(* Repositories                                                              *)

\* ORDER BY created_at LIMIT 1: the first row that passes, or none.
FirstRow(Test(_)) == SelectInSeq(conversations, Test)

\* ConversationRepository.find.
Find(channel, id) == FirstRow(LAMBDA c : c.channel = channel /\ c.id = id)

\* find_by_channel_conversation_id: enabled, and whatever the channel.
FindById(id) == FirstRow(LAMBDA c : c.id = id /\ c.enabled)

\* Mutant: any conversation of the queue will do.
FindQueueConversation(queue, channel) == FirstRow(LAMBDA c : c.queue = queue /\ c.enabled)

\* find_operator_conversation: queue and channel, queue, channel, any.
FindOperatorConversation(queue, channel) ==
    LET found(q, ch) == FirstRow(LAMBDA c : /\ c.purpose = "OPERATOR" /\ c.enabled
                                            /\ q => c.queue = queue
                                            /\ ch => c.channel = channel)
    IN  IF queue # "" /\ channel # "" /\ found(TRUE, TRUE) # 0 THEN found(TRUE, TRUE)
        ELSE IF queue # "" /\ found(TRUE, FALSE) # 0           THEN found(TRUE, FALSE)
        ELSE IF channel # "" /\ found(FALSE, TRUE) # 0         THEN found(FALSE, TRUE)
        ELSE found(FALSE, FALSE)

\* find_requester_conversation: queue and channel, queue, channel, none.
FindRequesterConversation(queue, channel) ==
    LET found(q, ch) == FirstRow(LAMBDA c : /\ c.purpose = "REQUESTER" /\ c.enabled
                                            /\ q => c.queue = queue
                                            /\ ch => c.channel = channel)
    IN  IF queue # "" /\ channel # "" /\ found(TRUE, TRUE) # 0 THEN found(TRUE, TRUE)
        ELSE IF queue # "" /\ found(TRUE, FALSE) # 0           THEN found(TRUE, FALSE)
        ELSE IF channel # "" /\ found(FALSE, TRUE) # 0         THEN found(FALSE, TRUE)
        ELSE 0

\* find_approval_conversation.
FindApprovalConversation == FirstRow(LAMBDA c : c.purpose = "APPROVAL" /\ c.enabled)

\* SessionRepository.list_by_user.
SessionsOf(u) == {s \in sessionRows : s.user = u}

\* ChannelIdentityRepository.find_by_user_on_channel: any of them.
IdentitiesOn(channel, u) == {i \in Identities : i[1] = channel /\ identities[i] = u}

\* RoleRepository.has_role.
HasRole(u, role) == <<u, role>> \in roles

-----------------------------------------------------------------------------
(* Services                                                                  *)

\* ConversationService._load_seed, one row: the seed is authoritative over a
\* row that exists, and adds one that does not.
LoadRow(table, raw) ==
    LET i == SelectInSeq(table, LAMBDA c : c.channel = raw.channel /\ c.id = raw.id)
    IN  IF i # 0 THEN [table EXCEPT ![i] = raw] ELSE Append(table, raw)

\* _load_seed: one row after the other.
Loaded(table) ==
    LET loaded[k \in 0..Len(Seed)] == IF k = 0 THEN table ELSE LoadRow(loaded[k - 1], Seed[k])
    IN  loaded[Len(Seed)]

AccountsInit ==
    /\ identities = [i \in Identities |-> NoUser]
    /\ roles = {}
    /\ sessionRows = {}
    /\ conversations = Loaded(<<>>)

\* A restart loads the seed again.
LoadSeed ==
    /\ conversations' = Loaded(conversations)
    /\ UNCHANGED <<identities, roles, sessionRows>>

\* IdentityResolver.find: the user of an identity that is bound.
ActorOf(i) == identities[i]

\* _actor: a caller of the REST API is a user that exists and has the role.
Actor(i, role) == ActorOf(i) # NoUser /\ HasRole(ActorOf(i), role)

\* IdentityResolver.resolve: an unknown identity becomes a user.
ResolveIdentity(i) ==
    identities' = IF identities[i] = NoUser THEN [identities EXCEPT ![i] = i] ELSE identities

\* SessionService.find_or_create: one session for a user in a conversation.
FindOrCreateSession(u, channel, id) ==
    sessionRows' = sessionRows \cup {[user |-> u, channel |-> channel, id |-> id]}

\* ConversationService.register and resolve: a row that exists is returned as
\* it is, whatever was asked for.
Register(row) ==
    conversations' = IF Find(row.channel, row.id) # 0 THEN conversations ELSE Append(conversations, row)

\* The first steps of a message (IngressService): identity, session and
\* conversation; an unknown conversation is a requester's, of the type the
\* channel's metadata hint at, a DM without a hint.
Contact(i, id, hint) ==
    /\ ResolveIdentity(i)
    /\ FindOrCreateSession(identities'[i], i[1], id)
    /\ Register([channel |-> i[1], id |-> id, type |-> hint, purpose |-> "REQUESTER",
                 queue |-> "", enabled |-> TRUE])
    /\ UNCHANGED roles

\* IdentityResolver.bind, by the operator's scripts: another identity for a
\* user; one that is bound is never moved.
BindIdentity(i, u) ==
    /\ identities[i] = NoUser
    /\ identities[u] = u
    /\ identities' = [identities EXCEPT ![i] = u]
    /\ UNCHANGED <<roles, sessionRows, conversations>>

\* RoleService.ensure_role, by the same scripts.
EnsureRole(u, role) ==
    /\ identities[u] = u
    /\ roles' = roles \cup {<<u, role>>}
    /\ UNCHANGED <<identities, sessionRows, conversations>>

\* POST /conversations/register.
RegisterConversation(row) ==
    /\ Register(row)
    /\ UNCHANGED <<identities, roles, sessionRows>>
=============================================================================
