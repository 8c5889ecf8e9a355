-------------------------------- MODULE Outbox --------------------------------
(***************************************************************************)
(* NotificationService.dispatch (app/application/notification_service.py)  *)
(* over NotificationOutboxRepository: how committed notifications reach    *)
(* the channels.                                                           *)
(*                                                                         *)
(* dispatch() is run by the DispatchWorker every interval and by a         *)
(* background task after every webhook, each on its own thread.  It reads  *)
(* the pending rows, then the failed rows, and then takes every snapshot   *)
(* through the channel, delivery_attempts and the row itself.  No lock is  *)
(* held across these steps, nothing claims a row, and what is written back *)
(* is computed from the snapshot.                                          *)
(***************************************************************************)
EXTENDS Integers, FiniteSets

CONSTANTS
    Records,        \* notifications, one for each (event, type, target)
    Sweeper,        \* the DispatchWorker
    Tasks,          \* background tasks
    Limit,          \* rows one SELECT returns (200)
    MaxAttempts,    \* attempts before a row is left alone (3)
    Outcomes,       \* what a channel may do, of AllOutcomes
    MaxRestarts     \* bound on the restarts of the process

\* A channel that times out has accepted the message and reports an error.
AllOutcomes == {"ok", "error", "timeout"}

ASSUME LimitAssumption    == Limit \in Nat /\ MaxAttempts \in Nat /\ MaxRestarts \in Nat
ASSUME OutcomesAssumption == Outcomes \subseteq AllOutcomes
ASSUME RecordsAssumption  == IsFiniteSet(Records) /\ IsFiniteSet(Tasks)

Dispatchers == {Sweeper} \cup Tasks

VARIABLES
    status,         \* notification_outbox.status; "none" where there is no row
    created,        \* created_at, as a rank
    attemptCount,   \* notification_outbox.attempt_count
    history,        \* rows of delivery_attempts for a record
    delivered,      \* how often the channel accepted it
    stage,          \* where a dispatcher is in dispatch(), of Stages
    batch,          \* snapshots a dispatcher has not written back yet
    success,        \* what deliver() returned for the snapshot in work
    restarts,       \* restarts so far
    contested,      \* how often a snapshot of a row was taken while one was held
    unconfirmed     \* how often the channel took a message and reported an error

\* The last two only record what happened, so that a property can say what each
\* repetition is due to.  No guard reads them.
ghosts == <<contested, unconfirmed>>
rows == <<status, created, attemptCount>>
vars == <<rows, history, delivered, stage, batch, success, restarts, ghosts>>

OutboxStatus == {"none", "pending", "sent", "failed"}
Stages       == {"idle", "reading", "sending", "logging", "marking"}
Snapshot     == [id : Records, from : {"pending", "failed"}, attempt : Nat]

Init ==
    /\ status       = [r \in Records |-> "none"]
    /\ created      = [r \in Records |-> 0]
    /\ attemptCount = [r \in Records |-> 0]
    /\ history      = [r \in Records |-> 0]
    /\ delivered    = [r \in Records |-> 0]
    /\ stage        = [d \in Dispatchers |-> "idle"]
    /\ batch        = [d \in Dispatchers |-> {}]
    /\ success      = [d \in Dispatchers |-> FALSE]
    /\ restarts     = 0
    /\ contested    = [r \in Records |-> 0]
    /\ unconfirmed  = [r \in Records |-> 0]

-----------------------------------------------------------------------------
\* The business transaction that adds a record commits; UNIQUE keeps the event
\* from adding it again.
Enqueue(r) ==
    /\ status[r] = "none"
    /\ status' = [status EXCEPT ![r] = "pending"]
    /\ created' = [created EXCEPT ![r] = Cardinality({q \in Records : status[q] # "none"}) + 1]
    /\ UNCHANGED <<attemptCount, history, delivered, stage, batch, success, restarts, ghosts>>

\* Mutant: the second SELECT takes every row that is not pending.
WindowOfTheRest(from) ==
    {r \in Records :
        /\ status[r] \in IF from = "pending" THEN {"pending"} ELSE {"failed", "sent"}
        /\ Cardinality({q \in Records : status[q] = from /\ created[q] < created[r]}) < Limit}

\* The oldest Limit rows of a status; those that used up their attempts are
\* dropped only afterwards.
Window(from) ==
    {r \in Records :
        /\ status[r] = from
        /\ Cardinality({q \in Records : status[q] = from /\ created[q] < created[r]}) < Limit}

\* Mutant: used up rows are not dropped.
SelectedAll(from) ==
    {[id |-> r, from |-> from, attempt |-> attemptCount[r]] : r \in Window(from)}

\* Mutant: the last attempt is not made.
SelectedShort(from) ==
    {[id |-> r, from |-> from, attempt |-> attemptCount[r]] :
        r \in {q \in Window(from) : attemptCount[q] + 1 < MaxAttempts}}

Selected(from) ==
    {[id |-> r, from |-> from, attempt |-> attemptCount[r]] :
        r \in {q \in Window(from) : attemptCount[q] < MaxAttempts}}

\* Some dispatcher has a snapshot of the row that it has not written back yet.
Held(r) == \E d \in Dispatchers : \E s \in batch[d] : s.id = r

\* The rows of which a SELECT takes a snapshot although one is held.
Contests(from) == {r \in Records : Held(r) /\ \E s \in Selected(from) : s.id = r}

ReadPending(d) ==
    /\ stage[d] = "idle"
    /\ stage' = [stage EXCEPT ![d] = "reading"]
    /\ batch' = [batch EXCEPT ![d] = Selected("pending")]
    /\ contested' = [r \in Records |->
                        contested[r] + IF r \in Contests("pending") THEN 1 ELSE 0]
    /\ UNCHANGED <<rows, history, delivered, success, restarts, unconfirmed>>

\* Mutant: dispatch() goes on with nothing to send.
StageForAny(snapshots) == "sending"

StageFor(snapshots) == IF snapshots = {} THEN "idle" ELSE "sending"

ReadFailed(d) ==
    LET snapshots == batch[d] \cup Selected("failed") IN
    /\ stage[d] = "reading"
    /\ stage' = [stage EXCEPT ![d] = StageFor(snapshots)]
    /\ batch' = [batch EXCEPT ![d] = snapshots]
    /\ contested' = [r \in Records |->
                        contested[r] + IF r \in Contests("failed") THEN 1 ELSE 0]
    /\ UNCHANGED <<rows, history, delivered, success, restarts, unconfirmed>>

\* Pending rows first, each list in the order of created_at.
Precedes(s, t) ==
    \/ s.from = "pending" /\ t.from = "failed"
    \/ s.from = t.from /\ created[s.id] < created[t.id]

InWork(d, s) ==
    /\ s \in batch[d]
    /\ \A t \in batch[d] \ {s} : Precedes(s, t)

\* Mutant: only an exception counts as a failure.
ReportedUnlessTimeout(outcome) == outcome # "timeout"

Reported(outcome) == outcome = "ok"

\* client.deliver(), with no lock held.  A missing client counts as an error.
Send(d) ==
    \E s \in batch[d], outcome \in Outcomes :
        /\ stage[d] = "sending"
        /\ InWork(d, s)
        /\ delivered' = [delivered EXCEPT ![s.id] = IF outcome = "error" THEN @ ELSE @ + 1]
        /\ unconfirmed' = [unconfirmed EXCEPT ![s.id] = IF outcome = "timeout" THEN @ + 1 ELSE @]
        /\ success' = [success EXCEPT ![d] = Reported(outcome)]
        /\ stage' = [stage EXCEPT ![d] = "logging"]
        /\ UNCHANGED <<rows, history, batch, restarts, contested>>

\* Mutant: the history keeps failures only.
LogAttemptOfFailure(d) ==
    \E s \in batch[d] :
        /\ stage[d] = "logging"
        /\ InWork(d, s)
        /\ history' = [history EXCEPT ![s.id] = IF success[d] THEN @ ELSE @ + 1]
        /\ stage' = [stage EXCEPT ![d] = "marking"]
        /\ UNCHANGED <<rows, delivered, batch, success, restarts, ghosts>>

LogAttempt(d) ==
    \E s \in batch[d] :
        /\ stage[d] = "logging"
        /\ InWork(d, s)
        /\ history' = [history EXCEPT ![s.id] = @ + 1]
        /\ stage' = [stage EXCEPT ![d] = "marking"]
        /\ UNCHANGED <<rows, delivered, batch, success, restarts, ghosts>>

\* Status and attempt_count are overwritten, whatever the row holds by now.
Mark(d) ==
    \E s \in batch[d] :
        /\ stage[d] = "marking"
        /\ InWork(d, s)
        /\ status' = [status EXCEPT ![s.id] = IF success[d] THEN "sent" ELSE "failed"]
        /\ attemptCount' = [attemptCount EXCEPT ![s.id] = s.attempt + 1]
        /\ batch' = [batch EXCEPT ![d] = @ \ {s}]
        /\ stage' = [stage EXCEPT ![d] = StageFor(batch[d] \ {s})]
        /\ UNCHANGED <<created, history, delivered, success, restarts, ghosts>>

Restart ==
    /\ restarts < MaxRestarts
    /\ \E d \in Dispatchers : stage[d] # "idle"
    /\ stage' = [d \in Dispatchers |-> "idle"]
    /\ batch' = [d \in Dispatchers |-> {}]
    /\ restarts' = restarts + 1
    /\ UNCHANGED <<rows, history, delivered, success, ghosts>>

Dispatch(d) ==
    \/ ReadPending(d)
    \/ ReadFailed(d)
    \/ Send(d)
    \/ LogAttempt(d)
    \/ Mark(d)

Next ==
    \/ \E r \in Records : Enqueue(r)
    \/ \E d \in Dispatchers : Dispatch(d)
    \/ Restart

Spec == Init /\ [][Next]_vars

\* The worker sweeps on a fixed cadence, whatever a sweep meets.
FairSpec == Spec /\ WF_vars(Dispatch(Sweeper))

-----------------------------------------------------------------------------
(* Properties                                                                *)

TypeOK ==
    /\ status       \in [Records -> OutboxStatus]
    /\ created      \in [Records -> Nat]
    /\ attemptCount \in [Records -> Nat]
    /\ history      \in [Records -> Nat]
    /\ delivered    \in [Records -> Nat]
    /\ stage        \in [Dispatchers -> Stages]
    /\ batch        \in [Dispatchers -> SUBSET Snapshot]
    /\ \A d \in Dispatchers : /\ stage[d] = "idle" => batch[d] = {}
                              /\ stage[d] \notin {"idle", "reading"} => batch[d] # {}
    /\ success      \in [Dispatchers -> BOOLEAN]
    /\ restarts     \in 0 .. MaxRestarts
    /\ contested    \in [Records -> Nat]
    /\ unconfirmed  \in [Records -> Nat]

\* A row says SENT only if the channel accepted its message, however many
\* dispatchers wrote to it and in whatever order.
SentWasDelivered == \A r \in Records : status[r] = "sent" => delivered[r] >= 1

\* The attempts counted in the row are all in the immutable delivery_attempts
\* history, although the two are written apart and from stale snapshots.
HistoryCoversCount == \A r \in Records : attemptCount[r] <= history[r]

\* No row is tried more than max_attempts times, except that each restart may
\* hide one attempt, and that each snapshot taken while another one of the row
\* was held allows one more.
AttemptsBounded ==
    \A r \in Records : history[r] <= MaxAttempts + restarts + contested[r]

\* A message reaches its target again only after a restart lost the news that
\* it had been delivered, after the channel reported a delivery as an error, or
\* where two snapshots of its row were held at the same time.
RepeatedForAReason ==
    \A r \in Records : delivered[r] <= 1 + restarts + contested[r] + unconfirmed[r]

\* A delivered row is healed for good: it leaves SENT only where two snapshots
\* of it were held at the same time.
SentIsFinal ==
    [][\A r \in Records :
          status[r] = "sent" /\ contested[r] = 0 => status'[r] = "sent"]_vars

\* "Records that fail during THIS dispatch must not be retried within the same
\* call": a call that marks a row FAILED has no other snapshot of it left.  Two
\* overlapping calls break it: a row that fails in the one, between the two
\* SELECTs of the other, is in the pending and in the failed list of the other.
NotRetriedInCall ==
    [][\A d \in Dispatchers : \A s \in batch[d] \ batch'[d], t \in batch'[d] :
          stage[d] = "marking" /\ status'[s.id] = "failed" => t.id # s.id]_vars

\* "Retries pending/failed deliveries on a fixed cadence so a transient channel
\* failure heals by itself": every row gets all its attempts or is sent.
HealsByItself ==
    \A r \in Records :
        status[r] \in {"pending", "failed"} ~>
            (status[r] = "sent" \/ attemptCount[r] >= MaxAttempts)
=============================================================================
