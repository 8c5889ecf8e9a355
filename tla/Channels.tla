------------------------------- MODULE Channels -------------------------------
(***************************************************************************)
(* The channel adapters (app/adapters/wecom.py, feishu.py, api_adapter.py):*)
(* which key a payload is known by when it comes again, and who it is from *)
(* and where.  The envelope of HTTP, its signature and encryption are      *)
(* Gateway's.                                                              *)
(*                                                                         *)
(* A payload is told by the fields the adapters look at, "" or 0 where it  *)
(* has none: a message id, the id of the event that brought it, the second *)
(* it was written, the user, the chat or conversation and whether it is a  *)
(* chat of two.                                                            *)
(***************************************************************************)
EXTENDS Integers, Sequences, FiniteSets

Payloads ==
    [channel : {"wecom", "feishu", "api"}, id : Nat, event : Nat, time : Nat,
     user : STRING, chat : STRING, p2p : BOOLEAN]

NoKey == <<>>

\* Mutant: the event is looked at before the message.
FeishuEventFirst(p) ==
    IF p.event # 0 THEN <<"feishu", p.event>> ELSE IF p.id # 0 THEN <<"feishu", p.id>> ELSE NoKey

\* FeishuAdapter.idempotency_key: "message_id first, never event_id first".
FeishuKey(p) ==
    IF p.id # 0 THEN <<"feishu", p.id>> ELSE IF p.event # 0 THEN <<"feishu", p.event>> ELSE NoKey

\* WeComAdapter.idempotency_key: without an id, the user and the second.
WeComKey(p) ==
    IF p.id # 0 THEN <<"wecom", p.id>>
    ELSE IF p.user # "" /\ p.time # 0 THEN <<"wecom", p.user, p.time>> ELSE NoKey

\* ApiChannelAdapter.idempotency_key: a call without an id is never a repetition.
ApiKey(p, fresh) == IF p.id # 0 THEN <<"api", p.id>> ELSE <<"api", "auto", fresh>>

IdempotencyKey(p, fresh) ==
    CASE p.channel = "feishu" -> FeishuKey(p)
      [] p.channel = "wecom"  -> WeComKey(p)
      [] OTHER                -> ApiKey(p, fresh)

-----------------------------------------------------------------------------
\* FeishuAdapter.build_inbound: the chat, or the user if there is none.
FeishuConversation(p) == IF p.chat # "" THEN p.chat ELSE p.user

\* WeComAdapter.build_inbound: an official callback names no chat.
WeComConversation(p) == IF p.chat # "" THEN p.chat ELSE p.user

\* ApiChannelAdapter.build_inbound: what the client calls it, or one of the user's own.
ApiConversation(p) == IF p.chat # "" THEN p.chat ELSE "api-" \o p.user

\* _resolve_conversation: only Feishu says what kind of chat it is, and a chat of
\* Feishu's is a group unless it is known to be one of two.
HintType(p) == IF p.channel = "feishu" /\ ~p.p2p /\ p.chat # "" THEN "GROUP" ELSE "DM"

Inbound(p) ==
    [by   |-> <<p.channel, p.user>>,
     id   |-> CASE p.channel = "feishu" -> FeishuConversation(p)
                [] p.channel = "wecom"  -> WeComConversation(p)
                [] OTHER                -> ApiConversation(p),
     hint |-> HintType(p)]
=============================================================================
