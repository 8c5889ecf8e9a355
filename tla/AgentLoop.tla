------------------------------ MODULE AgentLoop ------------------------------
(***************************************************************************)
(* One run of SupportAgent (app/application/support_agent.py) with the     *)
(* decision contract (agent_decision.py), its read-only tools              *)
(* (agent_tools.py) and the whitelist SupportWorkflow.run_agent gives it.  *)
(*                                                                         *)
(* A round asks the model for a decision, which may come with a request    *)
(* for a tool; the observation goes into the next round.  Texts are left   *)
(* out: an answer of the model is told by what its validation looks at.    *)
(***************************************************************************)
EXTENDS Integers, Sequences, FiniteSets, SequencesExt

CONSTANTS
    MaxAgentSteps,      \* MAX_AGENT_STEPS (3)
    MaxToolCalls,       \* MAX_TOOL_CALLS (2)
    ProviderNames,      \* LLM_PROVIDER and LLM_FALLBACKS, in their order
    MaxRetries          \* max_retries of a provider's client (1)

ASSUME AgentAssumption ==
    /\ MaxAgentSteps \in Nat \ {0} /\ MaxToolCalls \in Nat
    /\ MaxRetries \in Nat /\ ProviderNames \in Seq(STRING)

VARIABLES
    request,            \* intent, whether the text has a precise entity, clients of the model
    at,                 \* "idle", "asking", "tool", "returned" or "raised"
    steps,              \* rounds so far
    tries,              \* requests of this round that failed
    httpCalls,          \* requests to the providers so far
    asked,              \* the tool the last answer asks for
    toolCalls,          \* tool calls, denied and rejected ones too
    decision,           \* the decision so far
    fallback            \* fallback_reason

agentVars == <<request, at, steps, tries, httpCalls, asked, toolCalls, decision, fallback>>
askVars   == <<tries, httpCalls>>

Intents == {"support", "no_answer", "faq_answer", "chitchat"}

\* ALLOWED_TOOLS.
AllowedTools ==
    {"get_ticket_history", "search_knowledge", "recall_memory", "get_allowed_actions",
     "contact_lookup", "asset_lookup", "ticket_stats", "ask_stats", "similar_tickets", "case_timeline"}

EntityTools == {"contact_lookup", "asset_lookup"}

\* Mutant: the intent decides before the text is looked at.
WhitelistOfIntent(intent, guarded) ==
    CASE intent = "faq_answer" -> {"search_knowledge", "recall_memory"}
      [] intent = "support"    -> AllowedTools \ {"ticket_stats", "case_timeline"}
      [] OTHER                 -> {}

\* _tool_whitelist: a text with a phone number, an id card, an employee or an
\* asset id leaves only the entity lookups; else the intent decides.
ToolWhitelist(intent, guarded) ==
    IF guarded THEN EntityTools
    ELSE CASE intent = "faq_answer" -> {"search_knowledge", "recall_memory"}
           [] intent = "support"    -> AllowedTools \ {"ticket_stats", "case_timeline"}
           [] OTHER                 -> {}

\* ACTIONS, those the categories lead to as one.
Actions == {"triage", "assign_operator", "ask_clarification", "faq_answer"}

\* INTENT_ACTIONS: what may be recommended for an intent.
IntentActions(intent) ==
    CASE intent = "support"   -> Actions \ {"faq_answer"}
      [] intent = "no_answer" -> {"assign_operator"}
      [] OTHER                -> {"faq_answer"}

\* What the model answers: whether the core fields pass, the action, the ids it
\* cites, the proposal and the tool request.  "elsewhere" is an id that is not
\* in the context.
NoProposal == [action |-> "none", ticket |-> "none", reason |-> FALSE]
Proposals  == [action : {"ESCALATE", "FORCE_CLOSE", "DELETE"}, ticket : {"none", "context", "elsewhere"},
               reason : BOOLEAN] \cup {NoProposal}
NoTool     == [tool |-> "none", wellFormed |-> TRUE]
Requests   == {NoTool} \cup [tool : {"search_knowledge", "contact_lookup", "close_ticket"}, wellFormed : BOOLEAN]

\* validate_decision: whether a decision comes of it.
Acceptable(intent, complete, action) == complete /\ action \in IntentActions(intent)

\* validate_decision: a proposal that is not whitelisted, has no reason to force
\* a closure or names another ticket is dropped, the others are for the ticket
\* of the context.
SanitizedProposal(p) ==
    IF \/ p.action \notin {"ESCALATE", "FORCE_CLOSE"}
       \/ p.action = "FORCE_CLOSE" /\ ~p.reason
       \/ p.ticket = "elsewhere"
    THEN NoProposal
    ELSE [p EXCEPT !.ticket = "context"]

Decision(action, refs, p) == [action |-> action, refs |-> refs, proposal |-> p]
Undecided == Decision("none", {}, NoProposal)

\* validate_decision: what comes of an answer, ids outside the context dropped.
Validated(intent, complete, action, refs, p) ==
    IF Acceptable(intent, complete, action) THEN Decision(action, refs \ {"elsewhere"}, SanitizedProposal(p))
    ELSE Undecided

Answers(intent) ==
    {Validated(intent, complete, action, refs, p) :
        complete \in BOOLEAN, action \in Actions, refs \in {{}, {"context", "elsewhere"}}, p \in Proposals}

AgentInit ==
    /\ request = [intent |-> "none", guarded |-> FALSE, clients |-> {}]
    /\ at = "idle"
    /\ steps = 0
    /\ tries = 0 /\ httpCalls = 0
    /\ asked = NoTool
    /\ toolCalls = <<>>
    /\ decision = Undecided
    /\ fallback = ""

-----------------------------------------------------------------------------
\* llm_client_from_env: a client for each provider that has a key, at the first
\* place of its name.
Clients(configured) ==
    {k \in DOMAIN ProviderNames :
        ProviderNames[k] \in configured /\ \A j \in 1..k-1 : ProviderNames[j] # ProviderNames[k]}

StartRun(intent, guarded, configured) ==
    /\ at = "idle"
    /\ request' = [intent |-> intent, guarded |-> guarded, clients |-> Clients(configured)]
    /\ at' = "asking"
    /\ steps' = 1
    /\ UNCHANGED <<askVars, asked, toolCalls, decision, fallback>>

\* _fallback_decision: the rules decide, and the run says so.
FallBack(reason) ==
    /\ \E action \in {"triage", "assign_operator"} :
        decision' = Decision(CASE request.intent = "no_answer"  -> "assign_operator"
                               [] request.intent = "faq_answer" -> "faq_answer"
                               [] OTHER                         -> action, {"context"}, NoProposal)
    /\ fallback' = reason
    /\ at' = "returned"
    /\ UNCHANGED <<request, steps, asked, toolCalls>>

Asking == at = "asking" /\ tries = 0

NoModel ==
    /\ Asking /\ request.clients = {}
    /\ FallBack("no_llm")
    /\ UNCHANGED askVars

\* _render: a template or a skill that cannot be read or filled in.
PromptFails ==
    /\ Asking /\ request.clients # {}
    /\ FallBack("prompt_error")
    /\ UNCHANGED askVars

\* A client is asked once and MaxRetries times again (OpenAICompatibleClient.
\* complete), and then the next one is (FallbackLLMClient.complete).
TriesOfRound == Cardinality(request.clients) * (MaxRetries + 1)

\* One request that times out, is refused or limited, or comes back without a
\* message.
ModelFails ==
    /\ at = "asking" /\ tries < TriesOfRound
    /\ tries' = tries + 1
    /\ httpCalls' = httpCalls + 1
    /\ UNCHANGED <<request, at, steps, asked, toolCalls, decision, fallback>>

AllClientsFailed ==
    /\ at = "asking" /\ request.clients # {} /\ tries = TriesOfRound
    /\ FallBack("llm_error")
    /\ UNCHANGED askVars

Answered ==
    /\ at = "asking" /\ tries < TriesOfRound
    /\ httpCalls' = httpCalls + 1
    /\ tries' = 0

\* extract_json: an answer without an object in it is not asked for again.
NoJson == Answered /\ FallBack("llm_error")

\* A round with an answer.  The tool it asks for is called only while there are
\* calls left, and the decision stands if none is.
Round(d, asks) ==
    /\ Answered
    /\ IF d = Undecided THEN FallBack("invalid_decision")
       ELSE /\ decision' = d
            /\ at' = IF asks # NoTool /\ Len(toolCalls) < MaxToolCalls THEN "tool" ELSE "returned"
            /\ asked' = IF at' = "tool" THEN asks ELSE NoTool
            /\ UNCHANGED <<request, steps, toolCalls, fallback>>

\* The whitelist, by the loop and again by the port.
Whitelisted(tool) == tool \in AllowedTools \cap ToolWhitelist(request.intent, request.guarded)

\* The tool request of an answer: denied, rejected by its schema, or carried out
\* and observed.  Only the last leads to another round; what the tool itself
\* raises is not caught and ends the run.
CallTool(raises) ==
    /\ at = "tool"
    /\ LET ok == Whitelisted(asked.tool) /\ asked.wellFormed
       IN  /\ raises => ok
           /\ toolCalls' = Append(toolCalls, [tool |-> asked.tool, ok |-> ok])
           /\ at' = IF raises THEN "raised" ELSE IF ok /\ steps < MaxAgentSteps THEN "asking" ELSE "returned"
           /\ steps' = IF at' = "asking" THEN steps + 1 ELSE steps
    /\ UNCHANGED <<request, askVars, asked, decision, fallback>>

AgentNext ==
    \/ \E intent \in Intents, guarded \in BOOLEAN, configured \in SUBSET Range(ProviderNames) :
        StartRun(intent, guarded, configured)
    \/ NoModel \/ PromptFails \/ ModelFails \/ AllClientsFailed \/ NoJson
    \/ at = "asking" /\ \E d \in Answers(request.intent), asks \in Requests : Round(d, asks)
    \/ \E raises \in BOOLEAN : CallTool(raises)

AgentSpec == AgentInit /\ [][AgentNext]_agentVars

-----------------------------------------------------------------------------
AgentTypeOK ==
    /\ at \in {"idle", "asking", "tool", "returned", "raised"}
    /\ steps \in 0..MaxAgentSteps
    /\ tries \in 0..TriesOfRound
    /\ asked \in Requests
    /\ decision.action \in Actions \cup {"none"}

\* "Precise identifiers must never flow into semantic retrieval": over all its
\* rounds a run reads only what the intent allows, and of a message with a
\* precise entity only the lookups.
ReadsWithinBounds ==
    /\ Len(toolCalls) <= MaxToolCalls
    /\ \A k \in DOMAIN toolCalls : toolCalls[k].ok =>
        toolCalls[k].tool \in IF request.guarded THEN EntityTools
                              ELSE ToolWhitelist(request.intent, FALSE)

\* A run ends: its rounds, the providers it asks in each and the attempts with
\* each are bounded, so that the message waiting for it waits for a bounded time
\* however the providers fail.
AsksWithinBounds ==
    httpCalls <= MaxAgentSteps * TriesOfRound

\* "The pipeline can never act on a dangerous or undefined value": whatever the
\* model said in whichever round, what a run returns either is the rules' and
\* marked so, or fits the intent; it cites only what the context holds and
\* proposes, if anything, an approvable action for the context's ticket; and a
\* run whose model never answered is marked.
AdviceFits ==
    at = "returned" =>
        /\ decision # Undecided
        /\ fallback = "" => decision.action \in IntentActions(request.intent) /\ httpCalls > 0
        /\ decision.refs \subseteq {"context"}
        /\ decision.proposal # NoProposal =>
            /\ decision.proposal.ticket = "context"
            /\ decision.proposal.action \in {"ESCALATE", "FORCE_CLOSE"}

\* What a run does and returns stays within its bounds.
RunStaysInBounds == ReadsWithinBounds /\ AsksWithinBounds /\ AdviceFits
=============================================================================
