-------------------------------- MODULE MCDesk --------------------------------
(***************************************************************************)
(* The parts of the desk around the ticket lifecycle, the ingress and the  *)
(* outbox, on small instances.  They share no variable: each has a run of  *)
(* its own here, which `part` chooses in the first state, and DeskSpec is  *)
(* their union.                                                            *)
(***************************************************************************)
EXTENDS SessionCompaction, Workflow, MCTargets, AgentLoop, Database, Gateway,
        LegacyIngress, Transport

CONSTANTS u1, u2, p1, p2, p3, t1, t2, k1, k2, k3, s1, s2

VARIABLE part

-----------------------------------------------------------------------------
(* Instances                                                                 *)

\* Workflow: u1 asks, u2 is an operator whose conversation is disabled, u1 approves as well.
DeskPurpose  == p1 :> "REQUESTER" @@ p2 :> "OPERATOR" @@ p3 :> "APPROVAL"
DeskSessions == {<<u1, p1>>, <<u2, p2>>, <<u1, p3>>}

\* AgentLoop: LLM_FALLBACKS names the provider of LLM_PROVIDER again.
DeskProviders == <<"openrouter", "openrouter">>

\* Gateway.
DeskKinds == k1 :> "stream" @@ k2 :> "webhook" @@ k3 :> "rest"

\* LegacyIngress: a Feishu message brought by two events, one without a message
\* id, two of WeCom without an id and a second apart, and an API call without.
DeskPosts ==
    {Payload("feishu", 1, 0, "zhang", ""), Payload("feishu", 0, 0, "zhang", ""),
     Payload("wecom", 0, 1, "zhang", ""), Payload("wecom", 0, 2, "zhang", ""), Payload("api", 0, 0, "li", "")}
DeskEvents ==
    [p \in DeskPosts |-> IF p.channel = "feishu" THEN IF p.id = 0 THEN {3} ELSE {1, 2} ELSE {0}]

-----------------------------------------------------------------------------
DeskInit ==
    /\ part \in {"sessions", "workflow", "targets", "agent", "database", "gateway", "legacy", "transport"}
    /\ CompactionInit /\ WorkflowInit /\ TargetsInit /\ AgentInit /\ DatabaseInit
    /\ GatewayInit /\ LegacyInit /\ TransportInit

Storage  == <<compactionVars, databaseVars>>
Handling == <<workflowVars, targetVars, agentVars>>
Edges    == <<gatewayVars, legacyVars, transportVars>>

DeskNext ==
    \/ /\ part = "sessions" /\ CompactionNext
       /\ UNCHANGED <<part, databaseVars, Handling, Edges>>
    \/ /\ part = "database" /\ DatabaseNext
       /\ UNCHANGED <<part, compactionVars, Handling, Edges>>
    \/ /\ part = "workflow" /\ WorkflowNext
       /\ UNCHANGED <<part, targetVars, agentVars, Storage, Edges>>
    \/ /\ part = "targets" /\ TargetsNext
       /\ UNCHANGED <<part, workflowVars, agentVars, Storage, Edges>>
    \/ /\ part = "agent" /\ AgentNext
       /\ UNCHANGED <<part, workflowVars, targetVars, Storage, Edges>>
    \/ /\ part = "gateway" /\ GatewayNext
       /\ UNCHANGED <<part, legacyVars, transportVars, Storage, Handling>>
    \/ /\ part = "legacy" /\ LegacyNext
       /\ UNCHANGED <<part, gatewayVars, transportVars, Storage, Handling>>
    \/ /\ part = "transport" /\ TransportNext
       /\ UNCHANGED <<part, gatewayVars, legacyVars, Storage, Handling>>

deskVars == <<part, Storage, Handling, Edges>>

\* GatewayFairness, of a run of the gateway: elsewhere no call makes a step.
DeskFairness == \A c \in Calls : WF_gatewayVars(part = "gateway" /\ CallStep(c))

DeskSpec == DeskInit /\ [][DeskNext]_deskVars /\ DeskFairness

\* The types of the part that runs; the others are as they began.
DeskTypeOK ==
    CASE part = "sessions"  -> CompactionTypeOK
      [] part = "workflow"  -> WorkflowTypeOK
      [] part = "targets"   -> TargetsTypeOK
      [] part = "agent"     -> AgentTypeOK
      [] part = "database"  -> DatabaseTypeOK
      [] part = "gateway"   -> GatewayTypeOK
      [] part = "legacy"    -> LegacyTypeOK
      [] part = "transport" -> TransportTypeOK
=============================================================================
