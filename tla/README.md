# Support-Agent-Lite in TLA+

This directory models the core of Support-Agent-Lite, an IT-support service
desk that takes messages from chat channels (Feishu, WeCom, an API and its
streaming variant), lets an LLM agent draft answers and propose actions, and
keeps the business state - tickets, approvals, notifications, memories - in one
SQLite database that only deterministic code writes. The modules are translated
from the Python source under `app/`; TLC checks them on small instances, and
TLAPS proves the safety properties for every value of the constants.

Paths below are relative to the root of the repository.

## 1. The system

### Components, their state and their operations

| Component | State | Operations | Modelled in |
|---|---|---|---|
| Ticket lifecycle: `app/domain/ticket.py`, `TicketStore` in `app/infrastructure/repositories.py`, `app/application/ticket_action_service.py` | `tickets`, `ticket_events` | create, claim, resolve, confirm, reject | `TicketLifecycle`, `Casework` |
| HITL approvals: `app/domain/approval.py`, `pending_action.py`, `approval_service.py` | `approvals`, `pending_actions` | escalate, force_close, approve, reject, execute | `TicketLifecycle`, `Casework` |
| Two-phase ingress: `app/application/ingress_service.py`, `app/infrastructure/processing.py`, `idempotency.py` | `processed_messages`, `inbound_processing` | phase A, agent run, phase B, duplicates, resumption, marking failures; the legacy path | `Ingress`, `Delivery`, `LegacyIngress` |
| Notification outbox: `app/application/notification_service.py` | `notification_outbox`, `delivery_attempts` | enqueue, dispatch, DispatchWorker | `Outbox`; enqueue in `TicketLifecycle` and `Targets` |
| Memory: `app/application/memory_service.py` | `memories` | remember, recall | `remember` in `TicketLifecycle` |
| Workflow: `app/application/workflow.py`, `ticket_service.py` | `session_ticket_contexts` | prepare, run_agent, apply, resume | `Workflow`, `Intake`; commands, confirmations and proposals with their effects in `TicketLifecycle` |
| Command parser, intent routers, entity guard: `command_parser.py`, `intent_router.py`, `semantic_intent_router.py`, `setfit_intent.py` | none | classify a text | `Routing` |
| Policy gate: `app/application/policy.py` | none | validate a proposal | `ProposalAllowed` in `TicketLifecycle` |
| Support agent, tools, LLM clients: `support_agent.py`, `agent_tools.py`, `agent_decision.py`, `app/infrastructure/llm.py` | none that persists | one bounded loop of LLM calls | `AgentLoop` |
| Session compaction and context: `session_compactor.py`, `context_builder.py` | `messages`, `session_compactions` | record a message, maybe_compact, build | `SessionCompaction` |
| Identity, sessions, conversations, roles: the services of these names | their tables | find-or-create, bind, register, seed | `Accounts` |
| Target resolver: `app/application/target_resolver.py` | reads the tables of `Accounts` | resolve an audience | `Targets` |
| REST API and wiring: `app/main.py` | `app.state`, event loop, worker threads | start-up, webhooks, operations, chat stream | `Gateway`; routes in `TicketLifecycle`, threads in `Ingress` and `Outbox` |
| Channel adapters: `app/adapters/wecom.py`, `feishu.py`, `api_adapter.py` | none | verify, parse, key of a payload | `Channels`, `Gateway` |
| Outbound clients: `app/adapters/outbound.py`, `transports.py` | the WeCom token | deliver | `Transport` |
| SQLite access: `app/infrastructure/db.py`, `txn` | one connection, its lock, nesting depth, `schema_migrations` | transactions, statements, cursors, migrations | `Database`, `UnitsOfWork`; decides the atomicity of every other action |
| A2A, MCP, statistics, retrieval, graph pipeline, evaluations, trace | none, or read only | - | not modelled: shells, pure reads, numerical ranking, offline tools |

### How they interact

A channel calls `IngressService.process`. Phase A is one transaction: it claims
the message's idempotency key, resolves user, session and conversation, and lets
`SupportWorkflow.prepare` handle everything that needs no agent - commands of
operators and approvers, confirmations, progress questions - through
`TicketActionService`. When an agent is needed, the record of the message is
left at AGENT_PENDING, the agent runs without any lock, and phase B, a second
transaction guarded by a compare-and-set on that record, applies what it
decided. Handlers write tickets, events, approvals, memories and outbox rows in
the same transaction. After the commit, background tasks and the worker thread
take outbox rows to the channels. Operators and approvers may also use REST
endpoints, which call `TicketActionService` directly, on threads of their own.

`repositories.txn` acquires the connection's lock and only its outermost use
commits or rolls back. Two facts follow that the models rest on. A handler whose
reads and writes all lie inside `txn` is atomic with respect to every other
thread. And an exception that is caught *inside* an outer transaction rolls
nothing back: the same handler called by REST (its own transaction is
outermost) and by channel (nested in the ingress transaction) leaves different
things behind when it fails.

### What is hard

- the second transaction that marks a failed phase B, after the lock was free;
- redelivery while the first delivery is with the agent, restarts there, and
  every way in which one of the steps may fail alone;
- approvals that wait while the requester, other approvals and stale REST calls
  move the ticket on;
- exceptions caught inside an outer transaction;
- dispatchers that work from snapshots, with no row claimed, and a window of
  rows that is filtered only after it was read;
- which of a user's tickets a message is about, when sessions, other channels and
  operators have moved them on since;
- chains of fallbacks that look for an audience in rows any user may create;
- one SQLite transaction per connection while there are many threads;
- an event loop that webhooks block and chat streams depend on;
- summaries of summaries.

`PROJECT.json` lists every such hazard at its line, with the properties that
watch it or the reason why none does.

## 2. Modules

### TicketLifecycle, and what it promises: Casework

`status`, `assignee` and `events` are the ticket and its log, `approvals` and
`pending` the two approval tables, `memory` the provenance of what was
remembered, `outbox` the set of enqueued notifications (a set because of
`UNIQUE(source_event_id, notification_type, target_key)`), and `checked` the
status check a REST close has made and not used yet. Ids are model values.

| Action | Code |
|---|---|
| `CreateTicket`, `Claim`, `Resolve`, `RequesterConfirm`, `RejectResolution` | the methods of `TicketActionService` of that name, with store, memory and notifications |
| `Escalate`, `ForceClose` | the operator's commands by channel; `Escalate` also by REST |
| `CheckForceClose`, `RequestForceClose` | `POST /tickets/{id}/close`: `force_close` reads the status before its transaction |
| `Propose` | `SupportWorkflow._proposal_step` with the policy gate |
| `ApproveEscalate`, `ApproveForceClose`, `Reject` | `approve`, `reject` and `_execute` |
| `ApproveInVain` | an approval by channel whose transition is refused and whose exception `_prepare_approval` swallows |

A notification is the record `[ticket, cause, type, to]`. The code builds
`source_event_id` from the ticket, the kind of event and a trace id that is new
for each call; the model uses what that call logs, so `<<t, 3>>` stands for the
third log entry of `t`. `to` is an audience; the constant `Reachable` says for
which of them the resolver finds a target, and "origin" is reachable only for
calls by channel, since `_origin` needs a conversation. Visibility follows from
the audience. The guard of `Propose` is the policy gate: `validate_decision` has
already tied the proposal to the ticket of the message, and the gate reads the current row of
that ticket, in the same transaction in which the request is made.

`Casework` is the abstract specification: a case, its requests, and by whose word
it was closed or escalated, each handler a single complete step. It knows no
log, no outbox, no memory and no two-step calls. `TicketLifecycle` implements it
under the refinement mapping at the end of the module, as long as no decision
arrives by channel. With one, `ApproveInVain` marks a request as done that had
no effect, which `Casework` has no step for.

### Ingress, and what it promises: Delivery

A thread is "idle", with the "agent", "failing" (phase B rolled back, failure
not marked yet) or "answering" (committed, outbox not dispatched yet). `claimed`
and `record` are the two tables; `started`, `completed` and `acked` count what
happened to a message: phase A effects committed, COMPLETED committed, an answer
other than an error sent. RECEIVED and AGENT_COMPLETED never survive the
transaction that writes them, so no other thread sees them and the model has no
such states. `ProcessingState.FINAL` is declared inside a `str` enumeration,
which turns the set into a string and the test `in FINAL` into a substring test;
for the states of the table it gives the answer the set would give, which is
what `Done` says.

Faults are one constant set: prepare() fails and everything rolls back, the
agent raises (outside the `try`, the record is left alone), apply() raises
(rollback, then the marking transaction), that transaction fails, the dispatch
of the outbox raises (only with `auto_dispatch`, as direct callers have it), or
the process restarts. `Delivery` is what remains without threads and faults:
start once, complete once, acknowledge only what is complete.

Threads: the webhook handler is a coroutine that calls `process` without
awaiting, so webhook deliveries are handled one at a time; `GET /api/chat/stream`
runs `process` in the executor with a message id chosen by the client, so
several threads may hold one message.

### Outbox

One dispatcher is the worker (`Sweeper`), the others are background tasks. Each
goes through `ReadPending`, `ReadFailed` and then, for each snapshot in the order
the code takes them, `Send`, `LogAttempt`, `Mark`: five places where another
dispatcher may come in between. `Window` is one SELECT with its LIMIT, `Selected`
drops rows that used up their attempts afterwards. An outcome "timeout" is a
channel that took the message and reports an error. `history` counts rows of
`delivery_attempts`, `delivered` what the channel accepted. Two history variables, which no guard
reads, record what repetitions are due to: `contested` counts the snapshots of a row that were taken while
another one of it was held, `unconfirmed` the deliveries that were reported as errors.

### Workflow and Routing, and what they promise: Intake

`cases` are the tickets in the order of their ids, each with the message that
opened it, `bound` is `session_ticket_contexts`, `work` says of each message
whether it is new, prepared (phase A has left it for the agent) or done, and `replies` are the
outbox rows that answer one. The actions are the branches of `SupportWorkflow.prepare`
(`HandleConfirmation`, `PrepareFaq`, `PrepareSupport` with `Clarify`, `OpenCase` and
`ContinueCase`, `TellProgress`, `PrepareChitchat`, `PrepareOther`, and the commands of operators
and approvers), `Resume` after a crash, `Apply` with its branches, and `TicketMoves` for
what happens to tickets by REST. A ticket only has a status here; assignee, log and approvals are
`TicketLifecycle`'s.

`Routing` decides which branch a text takes: commands and confirmations in the order the parser
tries them, the rules with their scores in hundredths, the layer of embeddings with its
thresholds, and the cascade. A text is the keywords found in it, the ids it names and what the
embeddings say of it; all combinations are enumerated. So the property that a report is
never recorded onto a CLOSED ticket rests on the router: `TicketResolver` would accept a
CLOSED ticket that the text names, but a text that names one is a progress question.

`Intake` is what the sender of a message is promised: it is taken once (`Take`) and answered at
once or later (`Finish`), opens one case at most, concerns a case of its author's or none, and is
answered when and only when it is done with. It knows no session, router, agent, command or
restart. Under the refinement mapping at the end of `Workflow` (a message is done when its work
is, its answers are the outbox rows it caused), every branch of `prepare` is a `Take`, every
branch of `apply` a `Finish`, and `Resume` and `TicketMoves` change nothing. The answers to messages in
`WithoutId` share a key, so there `Intake` (`Nameless`) allows that one is not sent. Nor does
`TargetResolver` give a target in a conversation that is `Disabled`, so `enqueue` keeps no answer: `Intake`
(`Silent`) allows that for a message written there, and for one about a case that was opened there.

### Accounts and Targets

`Accounts` keeps identities, roles, sessions and conversations, with the repositories' lookups
as operators (`FirstRow` is `ORDER BY created_at LIMIT 1`) and the services' find-or-create as
actions. `Targets` adds tickets (user, source conversation, queue) and the notices the last
step has enqueued, each with its visibility and address, for every handler that enqueues one.

### AgentLoop

One run of `SupportAgent.run`: rounds, retries and clients within a round, the tool a
round asks for, and every way to a fallback. An answer of the model is reduced to what
`validate_decision` looks at.

### SessionCompaction

A message is its place in the session, a summary the set of user messages it
tells of. `RecordReply` adds a message and runs `MaybeCompact`, as `_record_reply` does.

### Database, and what it promises: UnitsOfWork

Every thread may enter and leave nested transactions, by return or by exception, execute single
statements and step through SELECTs; `told` are the rows whose writers went on as if they
were written. `RunScript`, `RecordScript` and `Serve` are the migrations at start-up,
`CrashDb` a restart.

`UnitsOfWork` is what a thread may rely on, without a connection, a lock or depths: units of work one at a
time, each with rows of its own that reach the file all at once or never, and nothing for a
reader to see but the file and what its own unit wrote. The thread whose depth is not 0 is the one
inside; `unit` is what it has written, `cursors[t].seen` what it has read.

### Gateway

The start-up event and lazy building of the services, one webhook, REST call or chat
stream per member of `Calls`, each by the place its handler is at. `loop` is the
call that keeps the event loop busy: `webhook` awaits the body and nothing else, so it gives the
loop back once. What an adapter makes of a callback depends on its signature, its secret and its cipher; a missing
key is a refusal (400), as a wrong secret is. Of a stream, `queue` holds the events handed over by the worker thread, `emitted` what
the pipeline reported and `sent` what the client got.

### Channels, LegacyIngress and Transport

`Channels` computes key, conversation and kind of chat of a payload; `LegacyIngress` uses
the keys, `Targets` the rest. `LegacyIngress` is `_process_legacy` with its second
transaction. `Transport` is `deliver` of the WeCom and Feishu clients with their tokens: WeCom's
client is shared by the dispatching threads and keeps token and lifetime in two
assignments. `results` pairs what the last `deliver` said with what became of the message: taken, refused with
a code, refused without one, or never sent.

### Modules for TLC

`MCTicketLifecycle` adds the symmetry sets for TLC. `MCIngress` runs `Ingress` in the two ways it is used,
with webhooks only and with chat streams as well; the first state chooses. `MCTargets` has the repository's seed
and a few who write on each channel. `MCDesk` puts the last eight components side by side: a variable
chooses one of them in the first state, and only that one moves.
Operators whose comment starts with "Mutant" are the broken variants with which
each property is shown to be able to fail; nothing else uses them.

## 3. Runs

| Run | Instance | Shows |
|---|---|---|
| `TicketLifecycle` | 1 ticket, 2 operators, 2 approvals, 1 REST close, both routes, 2 resolutions | 172365 states. `LogExplainsStatus`, `ClosureHasMandate`, `OneClaim`, `ExecutedForceCloseMeansClosed`, `MemoryProvenance`, `ConfirmationAsked`, `ClosesOnlyByDecision` hold |
| `TicketLifecycleRest` | 2 tickets, 1 operator, 2 approvals, 1 REST close, REST only | `ApprovalsActOnce`, `NotesTellTheTruth`, `ExecutedActionHasEffect` hold and `Casework` is implemented |
| `TicketLifecycleInVain` | 1 ticket, 1 approval, by channel | violates `ExecutedActionHasEffect` |
| `Ingress` | 2 messages; 1 thread and every fault, or 3 threads and every fault but a failing apply(); 3 faults, fairness | 2348 states. `CompletedOnce`, `AckMeansCompleted`, `PhaseAOnce`, `ClaimedIsCompleted` hold and `Delivery` is implemented |
| `IngressFailedApply` | 2 threads, 1 message, apply() fails once | violates `CompletedOnce` |
| `IngressLostAck` | the same | violates `AckMeansCompleted` |
| `Outbox` | the worker and a task, 1 row, 3 attempts, timeouts, 2 restarts, fairness of the worker | 1364678 states. `SentWasDelivered`, `HistoryCoversCount`, `AttemptsBounded`, `RepeatedForAReason`, `SentIsFinal`, `HealsByItself` hold |
| `OutboxTwice` | the worker and a task, 2 rows, 3 attempts | violates `NotRetriedInCall` |
| `OutboxStarved` | the worker, 2 rows, a window of 1 | violates `HealsByItself` |
| `Desk` | `MCDesk`, one instance of each component below, fairness | 251753 states. The 15 properties below hold |
| `Stranger` | `MCTargets`: 2 clients of the API, the repository's seed, 1 ticket | violates `PublicToGroupOrOwn` |
| `Compaction` | a session of 12 messages, deterministic summaries | violates `NothingForgotten` |

`Desk` asks, of each component:

| Component | Instance | Holds |
|---|---|---|
| `Workflow`, `Routing` | 2 users, 3 conversations, one of them disabled, 3 messages, two of them without an id, 2 tickets | `OwnCaseOnly`: a message and a session are only ever about a ticket of their user. `Intake` is implemented (`ImplementsIntake`), however often the agent phase is rebuilt. `ReportNotOnClosed`: no report continues a CLOSED ticket |
| `Accounts`, `Targets`, `Channels` | 3 channels, 5 seeded conversations, 4 payloads, among them a client of the API that calls its conversation by the name of the operators', 1 ticket | `PrivateToOwner`, `PublicToRequesters`, `InternalToStaff`: whom a notice of each visibility reaches |
| `AgentLoop` | 3 rounds, 2 tool calls, 1 retry, a provider named twice | `RunStaysInBounds`: requests and tools within bounds, and what a run returns fits its intent and context |
| `SessionCompaction` | threshold 4, 2 kept, window of 3, 12 messages | `ContextTellsHistory`: what was compacted stays in the summary and out of the window |
| `Database` | 2 threads, depth 2, 2 writes each, 2 migrations | `TableIsWhatWasTold`: committed is what callers were told, and no reader sees what is not. `UnitsOfWork` is implemented (`ImplementsUnits`). `MigrationsInOrder`: a migration is executed only when all before it are recorded |
| `Gateway` | a stream, a webhook, a REST call, a start-up that may fail | `StreamEnds`: a stream is sent every stage and then its end |
| `LegacyIngress`, `Channels` | 2 threads, 5 payloads, 4 callbacks | `EachMessageOnce`: processed once but for failures, and nothing taken for another message |
| `Transport` | 2 threads, 2 tokens, 2 messages each, on the network | `ResultTellsOutcome`: SENT is said only of what the platform took or refused without a code, and what it took is said to be SENT unless the answer was lost |

`DeskTypeOK` is the type invariant of the component that moves.

Three properties the modules state are in no run, because one that is there says as much:
`OneCasePerMessage` and `AnsweredOnce` are parts of `Intake`, and a message that left COMPLETED
(`CompletedIsFinal`) would be completed again by the next delivery, which `CompletedOnce` excludes. All
three are theorems (section 4).

`TypeOK` is checked in one run of each module. Deadlock is checked except for
the parts whose life ends: with every ticket closed and every approval decided
nothing is left to do, and in `Desk` and `Compaction` messages, requests and turns run out.

**Why the bounds are enough.** Tickets share nothing but the approvals that name
them, so one ticket shows every race for a ticket and two show that an approval
acts on its own only. Two approvals are what it takes for a decision to come too
late; two resolutions (`MaxResolutions`) for a rejected one to be mistaken for the
next; two operators for a contested claim. In `Ingress` messages are
independent of each other; a defect needs a thread that failed, one that
completed and one that comes later, and three threads and three faults
(`MaxFaults`) provide them, with two failures of one message and a crash. In `Outbox`
rows matter to each other only by filling the window and by their order in a batch. The properties of
the run `Outbox` speak of one row at a time, another row can only delay its turn, and a snapshot that
waits is what a slow dispatcher holds anyway: so one row, two dispatchers and three attempts give every
order of reads and write-backs. `OutboxTwice` and `OutboxStarved` have two rows, the latter with a window that
holds fewer rows than there are. `MaxRestarts` bounds the restarts. The code's own constants,
200 rows and 3 attempts, are `Limit` and `MaxAttempts`. The proofs of section 4 have no such bounds.

The components of `Desk` share no variable, so nothing is lost by running them apart. For
`Workflow` three messages are what it takes to open a ticket, change it and come back to
it, and two tickets to have more than one active. Twelve messages make three
compactions with a threshold of 4 (12 in the code, `KeepRecent` and `RecentLimit` 6). Two
threads suffice for `Database`: what a statement can meet is one transaction of
somebody else. `MaxDepth`, `MaxStatements`, `MaxTurns`, `MaxCallbacks`, `MaxPosts`,
`MaxTokens`, `MaxMessages`, `MaxTickets` and `MaxReports` are bounds of the model, the other numbers
are the code's.

**What `Desk` assumes.** COMMIT does not fail (`CommitMayFail`): if it does, `txn` leaves the
transaction open with the lock free, and both properties of `Database` fail. Summaries are the
deterministic ones (`Summarizers`): the LLM summarizer, which production wires, is given only what is newly
compacted, so with it the second summary forgets the first. WeCom payloads without an id are a second apart:
two within one second have the same key. The seed is the repository's, with groups of WeCom and Feishu and none of
the API's.

**Fairness.** `MCIngress!IngressFairness`: a thread inside `process` goes on (weak fairness
of `Finish`), and a message that was not answered is delivered again and again
(strong fairness of `Redeliver`, since threads may be busy whenever it comes):
Feishu and WeCom repeat a callback that fails. Nothing in the code picks up an
AGENT_PENDING message by itself, so without redelivery `ClaimedIsCompleted` would be
false. `Outbox!FairSpec`: the worker keeps going (weak fairness of its
`Dispatch`), as its loop does on a fixed cadence whatever a sweep meets.
`GatewayFairness`: every request goes on, on its thread or on the loop (weak fairness of its
`CallStep`), since model, HTTP and lock calls have timeouts and the loop is first come, first
served; the client of a stream is assumed to stay connected. `DeskFairness` is the same for the
runs of the gateway in `MCDesk`.
No fairness is assumed of background tasks, channels or users.

### Findings

- `IngressFailedApply`: `_process_two_phase` marks FAILED_RETRYABLE without looking
  at the state it overwrites (`ingress_service.py:223`). A message completed by
  another thread meanwhile is reopened and completed a second time, against
  "exactly-once phase B".
- `IngressLostAck`: a thread that loses the compare-and-set assumes that the decision was
  applied (`ingress_service.py:207`). It also loses when the other thread failed.
- `TicketLifecycleInVain`: `approve` by channel marks an action EXECUTED that had no
  effect (`workflow.py:694`), against "exactly once".
- `OutboxTwice`: "records that fail during THIS dispatch must not be retried within the same call"
  (`notification_service.py:96`). A background task reads a row as pending, the worker tries it and marks
  it failed, and the task's second SELECT returns it as failed: the task has it in both lists, and when the
  first delivery fails it makes the second in the same call. Every webhook and every REST call adds such a task
  (`main.py:602`, `main.py:724`).
- `Stranger`: the seed has no requester conversation of the API's, so `find_requester_conversation` ends at the
  oldest one of that channel (`repositories.py:900`), which is the conversation of whoever used the API first.
  `requester_public` prefers it to the one the ticket came from: public replies and status updates of any other
  API user are addressed to that user, against the README's audiences (`README.md:524`, `README.md:526`). There is
  no outbound client for the API, so the row ends FAILED; what is wrong is the address it keeps.
- `OutboxStarved`: rows that used up their attempts fill the window of failed rows
  (`notification_service.py:99`), against "heals by itself".
- `Compaction`: the message at which a compaction cuts is recorded as
  `first_kept_message_id`, and both the window and the next compaction begin after it
  (`session_compactor.py:79`). A request of the user is forgotten at every compaction.

Seen while modelling, without a run: once its WeCom token has expired the client never
fetches another (`outbound.py:165`); if `build_ops` fails, REST answers 503 until the next
restart (`main.py:452`); a migration that adds a column cannot be run again after a crash
before its record (`db.py:128`); a confirmation that names somebody else's ticket is taken to be
about the sender's own session's (`workflow.py:972`); a text that holds a word of both
confirms (`command_parser.py:97`); `approve` by REST answers 500 when the ticket refuses the
transition.

## 4. Proofs

Eight modules hold the theorems, the last of which puts four others together:

| Module | About | Theorems |
|---|---|---|
| `TicketLifecycleProofs` | `TicketLifecycle`, `Casework` | types, every safety invariant and the action property of its three runs, the refinement |
| `IngressProofs` | `Ingress`, `Delivery` | types, `PhaseAOnce`, `CompletedOnce`, `AckMeansCompleted`, `CompletedIsFinal`, the refinement |
| `OutboxProofs` | `Outbox` | types, `SentWasDelivered`, `HistoryCoversCount`, `AttemptsBounded`, `RepeatedForAReason`, `SentIsFinal` |
| `StorageProofs` | `Database`, `UnitsOfWork`, `SessionCompaction` | types of both, `TableIsWhatWasTold`, `MigrationsInOrder`, the refinement; `ContextTellsHistory`, `NothingTwice` |
| `WorkflowProofs` | `Workflow`, `Intake`, `AgentLoop` | types of both, `OwnCaseOnly`, `OneCasePerMessage`, `AnsweredOnce`, `ReportNotOnClosed`, the refinement; `RunStaysInBounds` |
| `TargetsProofs` | `Targets`, `Accounts` | types, `PrivateToOwner`, `InternalToStaff`, `PublicToRequesters` |
| `EdgeProofs` | `Gateway`, `LegacyIngress` with `Channels`, `Transport` | types of the three, `SentInOrder`, `EachMessageOnce`, `ResultTellsOutcome` |
| `DeskProofs` | `MCDesk` | each part of the union keeps to its specification; `DeskTypeOK` |

Every invariant, action property and refinement of a passing run is a theorem here, by name. The constants are
arbitrary, within the named assumptions of the modules - the kinds of ids are disjoint, bounds are
naturals, `Records` is finite - and the hypotheses listed below. Each proof has
the same shape: an inductive invariant, lemmas per group of actions saying
what they do, and a temporal step at the end.

| Hypothesis | Of | Why |
|---|---|---|
| `"channel" \notin Routes` | `RestRefinesCasework`, `RestActionsHaveEffect` | by channel the property is false (`TicketLifecycleInVain`) |
| `SerialOrSafe` | all of `Ingress` but `TypeCorrect`, `PhaseAOnceHolds` | without it they are false (`IngressFailedApply`, `IngressLostAck`) |
| `~CommitMayFail` | `TableIsWhatWasToldHolds`, `RefinesUnits` | `txn` frees the lock over an open transaction |
| `Summarizers` are deterministic | `ContextTellsHistoryHolds` | the LLM summarizer is not given the summary before |
| `OneEventWithoutId`, `KeysTellApart` | `EachMessageOnceHolds` | a payload without an id is known by its event or its second and text |
| `Calls` is finite | `GatewayTypeCorrect`, `DeskTypeCorrect` | it counts connections by requests |

**TicketLifecycle.** The ids of tickets and approvals have nothing in common
(`IdsAssumption`): the cause of a notification is one or the other. The invariant `IInv` is the conjunction of `RequestsInv`,
`OneClaim`, `ApprovalsActOnce`, `LogExplainsStatus` and `MandateInv`. `RequestsInv`
holds `TypeOK` and what relates requests to tickets: a REST check is only of a
ticket that left OPEN, and a FORCE_CLOSE request names such a ticket. `MandateInv`
strengthens `ClosureHasMandate` and `MemoryProvenance`. The later parts use
`RequestsInv`. It is also why the stale check is harmless: a ticket
never returns to OPEN, and from every later status a forced close either works
or finds the ticket closed, which gives `ExecutedForceCloseMeansClosed` by either
route. Every step is first classified as one of a few moves of one ticket, each
appending one log entry; the log properties are proved per move.
`NotesTellTheTruth` is strengthened to `Lasting`, one notification at a time: it stays
true because logs only grow, an approval that was asked for is not withdrawn, and a decided one stays
decided. `ConfirmationAsked` is inductive next to `RequestsInv`: the outbox only grows, and the one
move that leaves a ticket RESOLVED is an escalation, which does not count as an answer.

**Ingress.** `TypeCorrect` and `PhaseAOnceHolds` hold for any threads and any
faults. The others assume `SerialOrSafe`: apply() does not fail, or there is one
thread. The invariant says where a thread's message can be: claimed while a
thread has it, not COMPLETED while a thread is failing, COMPLETED while a thread
answers, and `completed` is 1 exactly for COMPLETED records. `RefinesDelivery`
then maps every step to one of `Delivery` or a stutter. The two violating runs show that the
assumption is necessary.

**Outbox.** Nothing is assumed of the number of dispatchers, of the channels or of restarts.
`SentWasDelivered` and `HistoryCoversCount` hold because what each dispatcher is going to write is already
covered by `delivered` and `history` when it writes. For the bounds every snapshot is a token, one for each list
(pending or failed) of each dispatcher: `Unlogged(r)` are the lists whose snapshot of `r` has not reached
`delivery_attempts` yet, `Undelivered(r)` those not reported as delivered. `AttemptsCounted` says that the attempts made
and those still to come exceed the count in the row, and in each snapshot, by one at most for each
restart and each contest. It survives the write-back of a stale count because every snapshot states the
bound for its own count; `DeliveriesCounted` says the like of deliveries, with `unconfirmed` ones. `AttemptsBounded`
and `RepeatedForAReason` follow. `Uncontested` says that a row none of whose snapshots was contested is as its
only snapshot says, which gives `SentIsFinal`.

**Database.** `TableIsWhatWasToldHolds` assumes that COMMIT does not fail. The invariant `DbInv`
adds to the property that SQLite is in a transaction exactly while a thread holds the
lock over one, that this is the thread whose depth is not 0, and that the open transaction consists
of what it wrote since its outermost `txn` began. So a thread that may execute a statement is
either in its own transaction or finds none open, for any number of threads, nesting and crashes.

`RefinesUnits` takes the same invariant and that rows are known ones (`RowsKnown`). A step of the connection is
then one of `UnitsOfWork`: the outermost `txn` begins a unit, nested ones are stutters, a statement is a
write of the thread's unit or, with none open, a unit by itself, the outermost end commits or rolls back
whole, a fetch reads the file and the thread's own rows because with the lock held there are no others, and a crash
leaves the file.

`DatabaseTypeCorrect` and `MigrationsInOrderHolds` need no such assumption. That only existing migrations are
executed, and in order, takes that among the unrecorded ones there is a first, with all before it recorded.

**Workflow.** `WInv` says besides the properties which messages may still open a ticket: those not
prepared yet, and small talk that the agent may turn into a report (`MayOpen`); no ticket has such a
cause. Answers are in the outbox for messages that are done only, under the event of the run or of the
deterministic path, and each path writes just one. `OwnCaseOnly` is inductive once the
lookups are known to find tickets of their user, which is a lemma for each of them.
`ReportNotOnClosed` rests on the router: a text that names a ticket is not a report, and no ticket found
without a name is CLOSED.

For `RefinesIntake` every branch is first brought to one form (`Handled`: one message gets its author, a case of the
author's or none, opens one ticket or none, and has its answer when it is done), which a lemma gives for each
of the code's branches and which is then a `Take` or a `Finish`. `CasesBounded` keeps the tickets within the
abstract set of cases; that a new ticket is a case nobody has is that tickets are numbered.

**Accounts and Targets.** `TargetsInv` follows addresses back to their origin: a session is of
somebody who wrote there under an identity of that channel (`SessionsHeld`), a ticket of somebody with
a session at its source (`ReportsHeld`), a conversation row of the seed, of a registration or of
a message, and then without a queue (`RowsHeld`). A notice is judged by what was true when
it was resolved (`NoticesHeld`); identities, sessions and rows only grow, so it stays true.
The seed is loaded row by row (`Loaded`), at first and at each restart. What that
gives is proved by induction: `LoadedFresh` that into an empty table it loads the seed as it is,
`LoadedAgain` that a restart changes nothing. All three properties hold for any seed, users and
registrations, ids that two channels share included. A public notice goes where one of two lookups found a row
(`RequestersPlace`): `find_requester_conversation` looks among enabled requester conversations only, and the other
one, of the ticket's source by its id alone, gives an id under which the ticket's user has written.

**AgentLoop and SessionCompaction.** `RequestsCounted` and `ToolsCounted` tie the requests
made so far to the round, the client and the retry the run is at: the bound is the product
of the three, and `Clients` counts a provider once however often it is named. `DecisionFits` says what may be
returned at each place of the loop. A compaction moves `firstKept` forward and summarizes what lies before
(`CompactionStep`), so the window begins behind all that was compacted whoever summarizes
(`NothingTwice`), and with deterministic summaries every request before it is in the summary.

**The edges.** `Transport`: a message is posted on the network only with a token that is not the
simulated one. With each post the platform's decision and the client's word are paired in one step, however old the
token is by then; no assumption is made of the body of a refusal. `LegacyIngress`: for each post
that can be known again the claim, the failures and the threads still about to clear the key add up
(`ClaimsAccounted`). `Gateway`: `Line` says of one stream that what was sent and what is queued
are, one behind the other, what was emitted and then the end marker, if the worker has ended; reporting, ending
and sending each keep it. `SentInOrder` follows, the safety half of `StreamEnds`. `ConnectionsCounted`
counts the requests that are past building.

**The union.** A step of `MCDesk` is a step of one part and leaves the others alone (`StepOfParts`), so each part
keeps to its own specification (`DeskRunsParts`): what is proved of a part holds of what the run checks.
Of the gateway this is said without its fairness, which is ENABLED's matter.

**What the proofs changed in the model.** TLA+ does not order the arms of a CASE, the code orders its
branches: where guards overlapped (`Channels`, the fallbacks of `Accounts`, the replies of `Gateway`) there
is an IF chain now, so that the definitions mean what TLC happened to evaluate. `Payloads` says
what a payload is, and `IdsAssumption` what was silently true of the instances.

**Model-checked only.** The liveness properties `ClaimedIsCompleted`, `HealsByItself` and `StreamEnds`:
proofs under fairness need ENABLED, which this prover does not handle. What a recursive definition
computes is proved once, for `Loaded`, a recursive function over an initial segment of the naturals: the
library's induction theorems take an operator, so `TargetsProofs` proves one for sets (`SegmentInduction`) from
the well-foundedness of finite subsets. The definition of `Routing` as a whole, texts against commands and
intents, is evaluated by TLC inside `Workflow`; the proofs use only which branches a text may take.

## 5. Not modelled, and the plan

Left out for good: finding keywords and ids in a text, wording, prompts and templates,
signatures and decryption, embeddings, the trained model and what an LLM answers, ranking and
statistics, read-only endpoints, the A2A and MCP shells, the graph pipeline (an alternative wiring
that production does not use), offline evaluation and data scripts, trace rows. They hold no
state that guards another step; where a step depends on their result, it is a choice.

The fields phase B writes to a ticket (summary, category, priority, queue) are left out of
`TicketLifecycle` and `Workflow`; the queue is in `Targets`, where it decides an address.

What could follow: those fields, with phase B's late write to a ticket that is closed by then
(`workflow.py:717`), once somebody says what it should do; and `Outbox` with rows that are claimed
before they are sent, for which `NotRetriedInCall` would hold, and `SentIsFinal` without its exception.
