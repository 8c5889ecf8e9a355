------------------------------- MODULE Gateway -------------------------------
(***************************************************************************)
(* The process (app/main.py): how the services are built, what becomes of  *)
(* a request on its way to them and back, and on which thread.             *)
(*                                                                         *)
(* A webhook is handled on the event loop, and blocks it for as long as    *)
(* the message is processed; REST calls and the worker of a chat stream    *)
(* run on threads of their own.  The services are built by the startup     *)
(* event or, if that failed, by whichever request finds none.              *)
(***************************************************************************)
EXTENDS Integers, Sequences, FiniteSets, SequencesExt

CONSTANTS
    Calls,              \* requests
    KindOf,             \* [Calls -> "webhook", "rest" or "stream"]
    WarmUpMayFail       \* whether the startup event may fail to build the services

ASSUME GatewayAssumption ==
    /\ KindOf \in [Calls -> {"webhook", "rest", "stream"}]
    /\ WarmUpMayFail \in BOOLEAN

VARIABLES
    started,            \* whether the startup event is over and the port open
    opened,             \* connections opened so far
    ingress, ops,       \* app.state: the connection each was built on, 0 for None
    loop,               \* the call the event loop is busy with, or NoCall
    calls,              \* [Calls -> where the request is]
    queue,              \* [Calls -> events of the stream on their way to the loop]
    emitted,            \* [Calls -> what the pipeline reported to the stream]
    sent                \* [Calls -> events the client was sent]

gatewayVars == <<started, opened, ingress, ops, loop, calls, queue, emitted, sent>>

NoCall  == "none"
NewCall == [stage |-> "new", conn |-> 0, path |-> <<>>, result |-> "", chore |-> FALSE]

Sentinel == "end"

GatewayInit ==
    /\ started = FALSE
    /\ opened = 0 /\ ingress = 0 /\ ops = 0
    /\ loop = NoCall
    /\ calls = [c \in Calls |-> NewCall]
    /\ queue = [c \in Calls |-> <<>>]
    /\ emitted = [c \in Calls |-> <<>>]
    /\ sent = [c \in Calls |-> <<>>]

Streams   == <<queue, emitted, sent>>
State     == <<started, opened, ingress, ops>>
Goes(c, stage) == calls' = [calls EXCEPT ![c].stage = stage]

\* The loop runs one thing at a time; other threads do not need it.
OnLoop(c) == loop = NoCall \/ KindOf[c] # "webhook"
\* Mutant: whatever is being handled keeps the loop.
HoldsAlways(c) == loop' = c

Holds(c)  == loop' = IF KindOf[c] = "webhook" THEN c ELSE loop
Frees(c)  == loop' = IF loop = c THEN NoCall ELSE loop

-----------------------------------------------------------------------------
(* Building                                                                  *)

\* _warm_up: build_ingress and build_ops on one connection.  A failure of
\* either is printed, and the port opens all the same.
WarmUp(built) ==
    /\ ~started
    /\ started' = TRUE
    /\ opened' = opened + 1
    /\ ingress' = IF built # "nothing" THEN opened' ELSE 0
    /\ ops' = IF built = "everything" THEN opened' ELSE 0
    /\ UNCHANGED <<loop, calls, Streams>>

\* _services, the check: without an ingress the caller builds one.
Services(c) ==
    /\ calls[c].stage = "services" /\ OnLoop(c)
    /\ Holds(c)
    /\ Goes(c, IF ingress = 0 THEN "building" ELSE "served")
    /\ UNCHANGED <<State, Streams>>

\* Mutant: no word to the loop when the worker raises.
TellLoopUnlessRaised(c, result) ==
    queue' = IF KindOf[c] = "stream" /\ result = "returned" THEN [queue EXCEPT ![c] = Append(@, Sentinel)] ELSE queue

\* run(), its finally: the loop is told that the worker is over, either way.
TellLoop(c, result) ==
    queue' = IF KindOf[c] = "stream" THEN [queue EXCEPT ![c] = Append(@, Sentinel)] ELSE queue

\* The end of a call: its response or, of a stream, the end of its worker.  A
\* message processed and an operation done leave the deliveries to a background
\* task; a stream has them made by the worker of the outbox.
Ends(c, result, chore) ==
    /\ calls' = [calls EXCEPT ![c] = [NewCall EXCEPT
                    !.stage = "over", !.result = IF KindOf[c] = "stream" THEN result ELSE "", !.chore = chore]]
    /\ Frees(c)
    /\ TellLoop(c, result)
    /\ UNCHANGED <<emitted, sent>>

\* build_ingress: a connection, its migrations and every service on it; what
\* fails here is a failed request.
Build(c, ok) ==
    /\ calls[c].stage = "building"
    /\ opened' = opened + 1
    /\ IF ok THEN /\ calls' = [calls EXCEPT ![c].stage = "built", ![c].conn = opened']
                  /\ UNCHANGED <<loop, Streams>>
       ELSE Ends(c, "raised", FALSE)
    /\ UNCHANGED <<started, ingress, ops>>

\* _services: app.state.ingress is set before build_ops has begun.
SetIngress(c) ==
    /\ calls[c].stage = "built"
    /\ ingress' = calls[c].conn
    /\ Goes(c, "half")
    /\ UNCHANGED <<started, opened, ops, loop, Streams>>

\* If build_ops fails there is an ingress, and nobody builds again.
SetOps(c, ok) ==
    /\ calls[c].stage = "half"
    /\ IF ok THEN /\ ops' = calls[c].conn
                  /\ calls' = [calls EXCEPT ![c].stage = "served", ![c].conn = 0]
                  /\ UNCHANGED <<loop, Streams>>
       ELSE UNCHANGED ops /\ Ends(c, "raised", FALSE)
    /\ UNCHANGED <<started, opened, ingress>>

-----------------------------------------------------------------------------
(* Webhooks and REST                                                         *)

Arrive(c) ==
    /\ started /\ calls[c].stage = "new"
    /\ KindOf[c] \in {"webhook", "stream"} => loop = NoCall
    /\ Goes(c, "services")
    /\ UNCHANGED <<State, loop, Streams>>

\* A callback: what its body is, whether the secret the adapter has fits it, and
\* what its key makes of a cipher.
Callbacks == [form : {"challenge", "plain", "encrypted", "broken"}, method : {"GET", "POST"},
              secret : {"unset", "right", "wrong"}, cipher : {"no key", "readable", "garbled"},
              complete : BOOLEAN]

\* WeComAdapter.handle_http: a JSON body is not verified at all; of an XML one,
\* and of a challenge, the signature is, before it is decrypted.
HandleWeCom(b) ==
    IF b.method = "GET" /\ b.form # "challenge" THEN "refused"
    ELSE IF b.method = "POST" /\ b.form \in {"plain", "challenge"} THEN "payload"
    ELSE IF b.form = "broken" \/ b.secret = "wrong" \/ b.cipher = "no key" THEN "refused"
    ELSE IF b.cipher = "garbled" THEN "raised"
    ELSE IF b.method = "GET" THEN "challenge"
    ELSE "payload"

\* FeishuAdapter.handle_http: every GET is a challenge; a POST is decrypted
\* first, and its token compared after.
HandleFeishu(b) ==
    IF b.method = "GET" THEN "challenge"
    ELSE IF b.form = "broken" THEN "refused"
    ELSE IF b.form = "challenge" THEN IF b.secret = "wrong" THEN "refused" ELSE "challenge"
    ELSE IF b.form = "encrypted" /\ b.cipher = "no key" THEN "refused"
    ELSE IF b.form = "encrypted" /\ b.cipher = "garbled" THEN "raised"
    ELSE IF b.secret = "wrong" THEN "refused"
    ELSE "payload"

HandleHttp(channel, b) ==
    CASE channel = "wecom"  -> HandleWeCom(b)
      [] channel = "feishu" -> HandleFeishu(b)
      [] OTHER              -> "refused"

\* What a webhook answers: its status, and whether deliveries follow.
Reply(status, dispatches) == [status |-> status, dispatches |-> dispatches]

\* build_inbound: a payload without a user or a text is refused.
\* IngressService.process: Ingress; a KeyError from anywhere in it is answered
\* as an unknown channel.
WebhookReply(channel, b, outcome) ==
    IF channel = "unknown" THEN Reply(404, FALSE)
    ELSE IF HandleHttp(channel, b) = "refused" THEN Reply(400, FALSE)
    ELSE IF HandleHttp(channel, b) = "raised" THEN Reply(500, FALSE)
    ELSE IF HandleHttp(channel, b) = "challenge" THEN Reply(200, FALSE)
    ELSE IF ~b.complete THEN Reply(400, FALSE)
    ELSE IF outcome = "done" THEN Reply(200, TRUE)
    ELSE IF outcome = "duplicate" THEN Reply(202, FALSE)
    ELSE IF outcome = "KeyError" THEN Reply(404, FALSE)
    ELSE Reply(500, FALSE)

WebhookReplies ==
    {WebhookReply(channel, b, outcome) : channel \in {"wecom", "feishu", "api", "unknown"}, b \in Callbacks,
        outcome \in {"done", "duplicate", "KeyError", "Exception"}}

Result(status) == IF status < 300 THEN "returned" ELSE "raised"

\* webhook: the body is read with the loop free, the rest is done on it, and
\* outbound delivery is left to a background task.
ReadBody(c) ==
    /\ KindOf[c] = "webhook" /\ calls[c].stage = "served"
    /\ Goes(c, "reading")
    /\ Frees(c)
    /\ UNCHANGED <<State, Streams>>

Process(c) ==
    /\ calls[c].stage = "reading" /\ OnLoop(c)
    /\ Goes(c, "processing")
    /\ Holds(c)
    /\ UNCHANGED <<State, Streams>>

Webhook(c, reply) ==
    /\ calls[c].stage = "processing"
    /\ Ends(c, Result(reply.status), reply.dispatches)
    /\ UNCHANGED State

\* What the call of an endpoint may come to.
Endpoints == {"claim", "resolve", "close", "escalate", "approve", "reject"}
Outcomes  == {"ok", "malformed actor", "unknown actor", "no role", "bad body",
              "KeyError", "AlreadyClaimed", "InvalidStateTransition", "InvalidApprovalDecision"}

\* _actor and the except clauses of the endpoints: approve does not expect
\* the transition of its ticket to be refused.
RestStatus(endpoint, outcome) ==
    CASE outcome = "ok"                                        -> 200
      [] outcome = "malformed actor"                           -> 400
      [] outcome = "unknown actor"                             -> 401
      [] outcome = "no role"                                   -> 403
      [] outcome = "bad body" /\ endpoint \in {"close", "escalate"} -> 400
      [] outcome = "KeyError"                                  -> 404
      [] outcome = "AlreadyClaimed" /\ endpoint = "claim"      -> 409
      [] outcome = "InvalidStateTransition" /\ endpoint \in {"claim", "resolve", "close"} -> 409
      [] outcome = "InvalidApprovalDecision" /\ endpoint \in {"approve", "reject"}        -> 409
      [] OTHER                                                 -> 500

RestStatuses == {RestStatus(e, o) : e \in Endpoints, o \in Outcomes}

\* _ops: 503 while another thread has built the ingress and not yet the rest.
Rest(c, status) ==
    /\ KindOf[c] = "rest" /\ calls[c].stage = "served"
    /\ LET answer == IF ops = 0 THEN 503 ELSE status
       IN  Ends(c, Result(answer), Result(answer) = "returned")
    /\ UNCHANGED State

\* _dispatch, after the response: whatever it raises is dropped.
Dispatch(c) ==
    /\ calls[c].chore
    /\ calls' = [calls EXCEPT ![c].chore = FALSE]
    /\ UNCHANGED <<State, loop, Streams>>

-----------------------------------------------------------------------------
(* The chat stream                                                           *)

\* What process() reports, by what becomes of the message: answered at once,
\* by the agent, taken up again after a crash, known already.
Paths == {<<"received", "prepared", "completed">>,
          <<"received", "prepared", "agent_started", "agent_completed", "completed">>,
          <<"agent_started", "agent_completed", "completed">>,
          <<>>}

\* run(): the worker's pipeline begins.
BeginRun(c, path) ==
    /\ KindOf[c] = "stream" /\ calls[c].stage = "served"
    /\ calls' = [calls EXCEPT ![c].stage = "running", ![c].path = path]
    /\ UNCHANGED <<State, loop, Streams>>

\* on_stage: the event is handed to the loop's thread, behind those before it.
OnStage(c) ==
    /\ calls[c].stage = "running" /\ calls[c].path # <<>>
    /\ calls' = [calls EXCEPT ![c].path = Tail(@)]
    /\ emitted' = [emitted EXCEPT ![c] = Append(@, Head(calls[c].path))]
    /\ queue' = [queue EXCEPT ![c] = Append(@, Head(calls[c].path))]
    /\ UNCHANGED <<State, loop, sent>>

\* The worker returns at the end of its path, and before it when phase B finds
\* that another thread was first; it may raise at any point.
RunReturns(c) ==
    /\ calls[c].stage = "running" /\ calls[c].path \in {<<>>, <<"completed">>}
    /\ Ends(c, "returned", FALSE)
    /\ UNCHANGED State

RunRaises(c) ==
    /\ calls[c].stage = "running"
    /\ Ends(c, "raised", FALSE)
    /\ UNCHANGED State

\* generate(): on the loop, one event after the other; the last says how the
\* worker ended.
Generate(c) ==
    /\ loop = NoCall /\ queue[c] # <<>>
    /\ queue' = [queue EXCEPT ![c] = Tail(@)]
    /\ sent' = [sent EXCEPT ![c] =
                  Append(@, IF Head(queue[c]) # Sentinel THEN Head(queue[c])
                            ELSE IF calls[c].result = "returned" THEN "done" ELSE "error")]
    /\ UNCHANGED <<State, loop, calls, emitted>>

BuildStep(c)   == Services(c) \/ SetIngress(c) \/ \E ok \in BOOLEAN : Build(c, ok) \/ SetOps(c, ok)
WebhookStep(c) == ReadBody(c) \/ Process(c) \/ \E reply \in WebhookReplies : Webhook(c, reply)
RestStep(c)    == (\E status \in RestStatuses : Rest(c, status)) \/ Dispatch(c)
WorkerStep(c)  == (\E path \in Paths : BeginRun(c, path)) \/ OnStage(c) \/ RunReturns(c) \/ RunRaises(c)

CallStep(c)    == BuildStep(c) \/ WebhookStep(c) \/ RestStep(c) \/ WorkerStep(c) \/ Generate(c)

GatewayNext ==
    \/ \E built \in IF WarmUpMayFail THEN {"nothing", "ingress", "everything"} ELSE {"everything"} : WarmUp(built)
    \/ \E c \in Calls : Arrive(c) \/ CallStep(c)

\* Threads and the loop go on, and nothing is processed for ever: model, HTTP and
\* lock calls have timeouts.  A webhook takes the loop twice, so that it is free
\* in the end.
GatewayFairness == \A c \in Calls : WF_gatewayVars(CallStep(c))

GatewaySpec == GatewayInit /\ [][GatewayNext]_gatewayVars /\ GatewayFairness

-----------------------------------------------------------------------------
GatewayTypeOK ==
    /\ opened \in 0..Cardinality(Calls) + 1 /\ ingress \in 0..opened /\ ops \in 0..opened
    /\ loop \in Calls \cup {NoCall}
    /\ loop # NoCall => KindOf[loop] = "webhook"

\* "Errors, too, are delivered as SSE events": a stream that began is sent all
\* its pipeline reported, in that order, and then how it ended, although the
\* worker may raise anywhere and webhooks keep the loop to themselves.
Complete(c) ==
    /\ calls[c].result # ""
    /\ sent[c] = Append(emitted[c], IF calls[c].result = "returned" THEN "done" ELSE "error")
StreamEnds ==
    \A c \in {k \in Calls : KindOf[k] = "stream"} : calls[c].stage # "new" ~> Complete(c)
=============================================================================
