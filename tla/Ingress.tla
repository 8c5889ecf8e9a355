------------------------------- MODULE Ingress -------------------------------
(***************************************************************************)
(* IngressService._process_two_phase (app/application/ingress_service.py)  *)
(* over IdempotencyStore and InboundProcessingStore: how one inbound       *)
(* message is taken through phase A, the agent and phase B, when it is     *)
(* delivered more than once, by several threads, with failures and         *)
(* restarts in between.                                                    *)
(*                                                                         *)
(* Phase A and phase B are transactions, one action each.  Between them    *)
(* the agent runs with no lock held.  When phase B fails its transaction   *)
(* rolls back, the lock is free, and a SECOND transaction then writes      *)
(* FAILED_RETRYABLE: two actions.  After the commit the outbox is          *)
(* dispatched and the sender answered, one more action.  A restart loses   *)
(* the threads and keeps what was committed.                               *)
(*                                                                         *)
(* GET /api/chat/stream runs process() on executor threads with a          *)
(* message_id chosen by the client; the webhook handler is a coroutine     *)
(* that calls process() without awaiting, so webhook deliveries are        *)
(* handled one at a time: |Workers| = 1.                                   *)
(*                                                                         *)
(* The business effects of the phases are counters here.  RECEIVED and     *)
(* AGENT_COMPLETED are written and overwritten inside one transaction, so  *)
(* no other thread sees them.                                              *)
(***************************************************************************)
EXTENDS Naturals

CONSTANTS
    Messages,     \* messages, each with its idempotency key
    Workers,      \* threads that may be inside process() at once
    FaultKinds,   \* faults that may happen, of AllFaultKinds
    MaxFaults     \* bound on how many of them do

NoMessage == "no message"

AllFaultKinds == {"prepare", "agent", "apply", "mark", "dispatch", "crash"}

ASSUME FaultsAssumption   == FaultKinds \subseteq AllFaultKinds
ASSUME MaxFaultsAssumption == MaxFaults \in Nat
ASSUME MessagesAssumption == NoMessage \notin Messages

VARIABLES
    claimed,     \* processed_messages
    record,      \* inbound_processing.state; "NONE" where there is no row
    stage,       \* where a thread is in process(), of Stages
    job,         \* the message a thread handles
    started,     \* how often phase A of a message committed its effects
    completed,   \* how often a message was committed as COMPLETED
    acked,       \* the sender got an answer other than an error
    faults       \* faults so far

vars == <<claimed, record, stage, job, started, completed, acked, faults>>

Stages == {"idle", "agent", "failing", "answering"}

ProcessingState == {"NONE", "AGENT_PENDING", "COMPLETED", "FAILED_RETRYABLE"}

Init ==
    /\ claimed   = {}
    /\ record    = [m \in Messages |-> "NONE"]
    /\ stage     = [w \in Workers |-> "idle"]
    /\ job       = [w \in Workers |-> NoMessage]
    /\ started   = [m \in Messages |-> 0]
    /\ completed = [m \in Messages |-> 0]
    /\ acked     = [m \in Messages |-> FALSE]
    /\ faults    = 0

Fault(kind) ==
    /\ kind \in FaultKinds
    /\ faults < MaxFaults
    /\ faults' = faults + 1

Begin(w, m, at) ==
    /\ stage' = [stage EXCEPT ![w] = at]
    /\ job' = [job EXCEPT ![w] = m]

\* Mutant: the thread keeps its message.
LeaveWithJob(w) == Begin(w, job[w], "idle")

Leave(w) == Begin(w, NoMessage, "idle")

Ack(m) == acked' = [acked EXCEPT ![m] = TRUE]

\* Mutant: only a failure is worth a retry.
DoneUnlessFailed(m) == record[m] # "FAILED_RETRYABLE"

\* The record of a claimed message says nothing is left to do.
Done(m) == record[m] \in {"NONE", "COMPLETED"}

-----------------------------------------------------------------------------
(* Phase A, one transaction                                                  *)

\* The key is new: claim, prepare() with its effects, and the state in which
\* the message is left, AGENT_PENDING when the agent is needed.
PhaseA(w, m) ==
    /\ stage[w] = "idle"
    /\ m \notin claimed
    /\ claimed' = claimed \cup {m}
    /\ started' = [started EXCEPT ![m] = @ + 1]
    /\ record' = [record EXCEPT ![m] = "AGENT_PENDING"]
    /\ Begin(w, m, "agent")
    /\ UNCHANGED <<completed, acked, faults>>

\* prepare() handled the message alone (a command, a confirmation, ...).
PhaseAOnly(w, m) ==
    /\ stage[w] = "idle"
    /\ m \notin claimed
    /\ claimed' = claimed \cup {m}
    /\ started' = [started EXCEPT ![m] = @ + 1]
    /\ record' = [record EXCEPT ![m] = "COMPLETED"]
    /\ completed' = [completed EXCEPT ![m] = @ + 1]
    /\ Begin(w, m, "answering")
    /\ UNCHANGED <<acked, faults>>

\* Mutant: the claim is committed on its own, before prepare().
PhaseAFailsClaimed(w, m) ==
    /\ stage[w] = "idle"
    /\ Fault("prepare")
    /\ claimed' = claimed \cup {m}
    /\ UNCHANGED <<record, stage, job, started, completed, acked>>

\* prepare() or resume() fails: the claim is rolled back with everything else.
PhaseAFails(w, m) ==
    /\ stage[w] = "idle"
    /\ Fault("prepare")
    /\ UNCHANGED <<claimed, record, stage, job, started, completed, acked>>

\* A delivery of a message that is done is answered with duplicate=True.
Duplicate(w, m) ==
    /\ stage[w] = "idle"
    /\ m \in claimed
    /\ Done(m)
    /\ Ack(m)
    /\ UNCHANGED <<claimed, record, stage, job, started, completed, faults>>

\* Mutant: FAILED_RETRYABLE is not taken back.
ResumeAsIs(w, m) ==
    /\ stage[w] = "idle"
    /\ m \in claimed
    /\ ~Done(m)
    /\ Begin(w, m, "agent")
    /\ UNCHANGED <<claimed, record, started, completed, acked, faults>>

\* A delivery of one that is not done takes up the agent phase again, even
\* when another thread is in it.
Resume(w, m) ==
    /\ stage[w] = "idle"
    /\ m \in claimed
    /\ ~Done(m)
    /\ record' = [record EXCEPT ![m] = "AGENT_PENDING"]
    /\ Begin(w, m, "agent")
    /\ UNCHANGED <<claimed, started, completed, acked, faults>>

-----------------------------------------------------------------------------
(* The agent, and phase B                                                    *)

\* run_agent() is outside the try: its exception leaves the record alone.
AgentFails(w) ==
    /\ stage[w] = "agent"
    /\ Fault("agent")
    /\ Leave(w)
    /\ UNCHANGED <<claimed, record, started, completed, acked>>

\* Mutant: no CAS.
PhaseBBlind(w) ==
    LET m == job[w] IN
    /\ stage[w] = "agent"
    /\ record' = [record EXCEPT ![m] = "COMPLETED"]
    /\ completed' = [completed EXCEPT ![m] = @ + 1]
    /\ Begin(w, m, "answering")
    /\ UNCHANGED <<claimed, started, acked, faults>>

\* advance() wins the CAS, apply() writes its effects, COMPLETED, commit.
PhaseB(w) ==
    LET m == job[w] IN
    /\ stage[w] = "agent"
    /\ record[m] = "AGENT_PENDING"
    /\ record' = [record EXCEPT ![m] = "COMPLETED"]
    /\ completed' = [completed EXCEPT ![m] = @ + 1]
    /\ Begin(w, m, "answering")
    /\ UNCHANGED <<claimed, started, acked, faults>>

\* advance() loses the CAS: answered with duplicate=True.
PhaseBLost(w) ==
    LET m == job[w] IN
    /\ stage[w] = "agent"
    /\ record[m] # "AGENT_PENDING"
    /\ Ack(m)
    /\ Leave(w)
    /\ UNCHANGED <<claimed, record, started, completed, faults>>

\* apply() raises: the transaction is rolled back ...
PhaseBFails(w) ==
    /\ stage[w] = "agent"
    /\ record[job[w]] = "AGENT_PENDING"
    /\ Fault("apply")
    /\ Begin(w, job[w], "failing")
    /\ UNCHANGED <<claimed, record, started, completed, acked>>

\* ... and a new one marks the message, whatever its state is by then.
MarkFailed(w) ==
    /\ stage[w] = "failing"
    /\ record' = [record EXCEPT ![job[w]] = "FAILED_RETRYABLE"]
    /\ Leave(w)
    /\ UNCHANGED <<claimed, started, completed, acked, faults>>

\* An exception of the marking transaction itself is swallowed.
MarkFails(w) ==
    /\ stage[w] = "failing"
    /\ Fault("mark")
    /\ Leave(w)
    /\ UNCHANGED <<claimed, record, started, completed, acked>>

\* Both paths end with the dispatch of the outbox and the answer, unless the
\* dispatch raises: then the sender sees an error of a message that is done.
Answer(w) ==
    /\ stage[w] = "answering"
    /\ Ack(job[w])
    /\ Leave(w)
    /\ UNCHANGED <<claimed, record, started, completed, faults>>

\* Mutant: the dispatch is inside the try.
DispatchFailsInside(w) ==
    /\ stage[w] = "answering"
    /\ Fault("dispatch")
    /\ record' = [record EXCEPT ![job[w]] = "FAILED_RETRYABLE"]
    /\ Leave(w)
    /\ UNCHANGED <<claimed, started, completed, acked>>

DispatchFails(w) ==
    /\ stage[w] = "answering"
    /\ Fault("dispatch")
    /\ Leave(w)
    /\ UNCHANGED <<claimed, record, started, completed, acked>>

Restart ==
    /\ Fault("crash")
    /\ \E w \in Workers : stage[w] # "idle"
    /\ stage' = [w \in Workers |-> "idle"]
    /\ job' = [w \in Workers |-> NoMessage]
    /\ UNCHANGED <<claimed, record, started, completed, acked>>

-----------------------------------------------------------------------------
Deliver(w, m) ==
    \/ PhaseA(w, m)
    \/ PhaseAOnly(w, m)
    \/ PhaseAFails(w, m)
    \/ Duplicate(w, m)
    \/ Resume(w, m)

Finish(w) ==
    \/ AgentFails(w)
    \/ PhaseB(w)
    \/ PhaseBLost(w)
    \/ PhaseBFails(w)
    \/ MarkFailed(w)
    \/ MarkFails(w)
    \/ Answer(w)
    \/ DispatchFails(w)

Next ==
    \/ \E w \in Workers, m \in Messages : Deliver(w, m)
    \/ \E w \in Workers : Finish(w)
    \/ Restart

Spec == Init /\ [][Next]_vars

\* A channel redelivers a message to whichever of the threads until it is
\* answered without an error (Feishu and WeCom repeat a callback that fails).
Redeliver(m, threads) == ~acked[m] /\ \E w \in threads : Deliver(w, m)

-----------------------------------------------------------------------------
(* Properties                                                                *)

TypeOK ==
    /\ claimed   \in SUBSET Messages
    /\ record    \in [Messages -> ProcessingState]
    /\ stage     \in [Workers -> Stages]
    /\ job       \in [Workers -> Messages \cup {NoMessage}]
    /\ \A w \in Workers : stage[w] = "idle" <=> job[w] = NoMessage
    /\ started   \in [Messages -> Nat]
    /\ completed \in [Messages -> Nat]
    /\ acked     \in [Messages -> BOOLEAN]
    /\ faults    \in 0 .. MaxFaults

\* The claim of a message commits with its deterministic effects or not at
\* all: redelivery, resumption and restart never repeat them (no second ticket
\* for one message), and a failed prepare() leaves the message retryable.
PhaseAOnce ==
    \A m \in Messages :
        /\ started[m] = IF m \in claimed THEN 1 ELSE 0
        /\ record[m] = "NONE" <=> m \notin claimed

\* "CAS-guarded updates, exactly-once phase B": no message is completed twice.
CompletedOnce == \A m \in Messages : completed[m] <= 1

\* A thread that loses the CAS answers that a concurrent duplicate already
\* applied the decision: whoever was told so can rely on it.
AckMeansCompleted == \A m \in Messages : acked[m] => completed[m] >= 1

\* "COMPLETED -> duplicate deliveries are no-ops": nothing reopens a message.
CompletedIsFinal ==
    [][\A m \in Messages : record[m] = "COMPLETED" => record'[m] = "COMPLETED"]_vars

\* A message whose phase A is committed gets through phase B in the end,
\* whatever failed or crashed meanwhile, as long as it is redelivered.
ClaimedIsCompleted ==
    \A m \in Messages : (m \in claimed) ~> (record[m] = "COMPLETED")

Once == INSTANCE Delivery

\* Threads, duplicates, agent failures and restarts are invisible in what
\* happens to a message as long as apply() does not fail.
ImplementsDelivery == Once!Spec
=============================================================================
