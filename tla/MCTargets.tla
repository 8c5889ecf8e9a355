------------------------------- MODULE MCTargets -------------------------------
(* Targets with the repository's seed and a few who write on each channel.   *)
EXTENDS Targets, Channels, TLC

\* seed/conversations.json, in its order: there is no group of the API's.
Group(channel, id, purpose, q) ==
    [channel |-> channel, id |-> id, type |-> "GROUP", purpose |-> purpose, queue |-> q, enabled |-> TRUE]
DeskSeed ==
    <<Group("wecom", "repair", "REQUESTER", "facility"), Group("wecom", "op", "OPERATOR", "facility"),
      Group("wecom", "approval", "APPROVAL", ""), Group("feishu", "oc_op", "OPERATOR", "facility"),
      Group("feishu", "oc_req", "REQUESTER", "facility")>>

Payload(channel, id, time, user, chat) ==
    [channel |-> channel, id |-> id, event |-> 0, time |-> time, user |-> user, chat |-> chat, p2p |-> chat = ""]

\* A requester who writes on Feishu and has an identity on WeCom too, an operator
\* who approves as well, and a client of the API that calls its conversation by a
\* name another channel has.
DeskSpoken ==
    {Inbound(p) : p \in {Payload("feishu", 1, 1, "ou_zhang", ""), Payload("wecom", 2, 2, "li", "op"),
                         Payload("wecom", 3, 3, "li", "approval"), Payload("api", 1, 1, "wang", "op")}}
DeskStaff      == {<<<<"wecom", "li">>, "OPERATOR">>, <<<<"wecom", "li">>, "APPROVER">>}
DeskBindable   == {<<<<"wecom", "zhang">>, <<"feishu", "ou_zhang">>>>}
DeskRegistered == {[Group("feishu", "ou_zhang", "OPERATOR", "facility") EXCEPT !.type = "DM", !.enabled = FALSE]}

\* Two clients of the API that name no conversation.
ApiClients == {Inbound(Payload("api", 1, 1, "wang", "")), Inbound(Payload("api", 2, 1, "zhao", ""))}
=============================================================================
