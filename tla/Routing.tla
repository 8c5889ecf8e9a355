------------------------------- MODULE Routing -------------------------------
(***************************************************************************)
(* What a text is taken for: the commands of operators and approvers and   *)
(* the answers of requesters (app/application/command_parser.py), and the  *)
(* intent of everything else (intent_router.py, semantic_intent_router.py  *)
(* and setfit_intent.py behind CascadeIntentRouter).                       *)
(*                                                                         *)
(* A text is told by what these look for in it: the keywords it holds, the *)
(* ids it names, how many keywords of an intent it has and what the        *)
(* embeddings say of it.  Scores are in hundredths.                        *)
(***************************************************************************)
EXTENDS Integers, Sequences, FiniteSets, SequencesExt

None == "none"

-----------------------------------------------------------------------------
(* CommandParser                                                             *)

\* Keywords and slash commands, a slash command counting as its keyword.
OperatorWords == {"claim", "resolve", "force_close", "escalate"}
ApproverWords == {"approve", "reject"}
AnswerWords   == {"confirm", "unresolved"}

\* The order in which the keywords are looked for: a text may hold several.
FirstOf(order, words) ==
    LET k == SelectInSeq(order, LAMBDA w : w \in words) IN IF k = 0 THEN None ELSE order[k]

\* parse_operator: the first keyword found decides, and without a ticket id the
\* text is no command at all, even if it holds other keywords.
ParseOperator(words, ticket) ==
    IF ticket = 0 THEN None ELSE FirstOf(<<"claim", "resolve", "force_close", "escalate">>, words)

\* parse_approver: nothing without the id of an approval.
ParseApprover(words, namesApproval) ==
    IF namesApproval THEN FirstOf(<<"approve", "reject">>, words) ELSE None

\* parse_requester_confirmation: a text that holds both confirms.
ParseAnswer(words) ==
    LET found == FirstOf(<<"confirm", "unresolved">>, words)
    IN  CASE found = "confirm"    -> "confirm"
          [] found = "unresolved" -> "reject"
          [] OTHER                -> "no"

-----------------------------------------------------------------------------
(* IntentRouter: rules                                                       *)

\* The intents that have keywords, the heavier first: equal scores go by weight.
Weighted == <<"progress_query", "support", "faq">>

\* What the routers look for: keywords found for each intent (at most two count
\* as different signals here), whether it is or holds a social phrase, the layer of
\* embeddings in use, its best intent and how sure it is, a text too short for it.
Semantics(layers, scores) ==
    [layer : layers, best : {"support", "faq", "progress_query", "chitchat", "other"}, score : scores,
     short : BOOLEAN]
SocialSigns == {"none", "phrase", "exact"}
Keywords == [{"support", "faq", "progress_query"} -> 0..2]

Routed(intent, confidence, low, reason) ==
    [intent |-> intent, confidence |-> confidence, low |-> low, reason |-> reason]

\* _score: the second signal adds less than the first.
Score(n) == IF n = 0 THEN 0 ELSE IF 65 + 20 * (n - 1) > 100 THEN 100 ELSE 65 + 20 * (n - 1)

RuleThreshold == 58

\* _has_business_signal.
HasBusinessSignal(hits) == \E i \in DOMAIN hits : hits[i] > 0

\* A text that is a phrase of its own ("help") is small talk whatever keywords it
\* holds, a short text with such a phrase in it only without any.
IsSocial(social, hits) == social = "exact" \/ (social = "phrase" /\ ~HasBusinessSignal(hits))

\* IntentRouter.route: a ticket id first, small talk next, then the best score.
RouteByRules(ticket, social, hits) ==
    LET better(a, b) == Score(hits[Weighted[a]]) >= Score(hits[Weighted[b]])
        best == CHOOSE a \in 1..3 : \A b \in 1..3 : better(a, b) /\ (better(b, a) => a <= b)
        confidence == Score(hits[Weighted[best]])
    IN  IF ticket # 0 THEN Routed("progress_query", 90, FALSE, "ticket-id-reference")
        ELSE IF IsSocial(social, hits) THEN Routed("chitchat", 100, FALSE, "chitchat-match")
        ELSE IF confidence < RuleThreshold THEN Routed("other", confidence, TRUE, "below-threshold")
        ELSE Routed(Weighted[best], confidence, FALSE, "keyword-match")

-----------------------------------------------------------------------------
(* CascadeIntentRouter: rules, then embeddings                               *)

\* The threshold of the layer itself: anchors behind an API, or a local model.
LayerThreshold(layer) == IF layer = "anchors" THEN 62 ELSE 35

\* _intent_thresholds: rather a ticket too many than one too few.
IntentThreshold(intent) ==
    CASE intent = "support"        -> 55
      [] intent = "progress_query" -> 58
      [] intent = "faq"            -> 60
      [] intent = "chitchat"       -> 68
      [] OTHER                     -> 62

\* SemanticIntentRouter.route and SetFitIntentRouter.route: never forced.
RouteBySemantics(s) ==
    IF s.short THEN Routed("other", 0, TRUE, "too-short")
    ELSE IF s.score < LayerThreshold(s.layer) THEN Routed("other", s.score, TRUE, "below-threshold")
    ELSE Routed(s.best, s.score, FALSE, "anchor-match")

\* CascadeIntentRouter.route: a signal of the rules is never overridden, and
\* without a layer of embeddings the rules are all there is.
Route(ticket, social, hits, s) ==
    LET rule     == RouteByRules(ticket, social, hits)
        semantic == RouteBySemantics(s)
    IN  IF rule.intent # "other" /\ ~rule.low
        THEN [rule EXCEPT !.low = rule.confidence < 70,
                          !.reason = IF rule.confidence < 70 THEN "rule-low-confidence" ELSE "rule-fastpath"]
        ELSE IF s.layer = "none" THEN rule
        ELSE IF semantic.confidence >= IntentThreshold(semantic.intent) THEN semantic
        ELSE Routed("other", semantic.confidence, TRUE, "semantic-fallback")
=============================================================================
