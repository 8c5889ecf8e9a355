---------------------------- MODULE OutboxProofs ----------------------------
(***************************************************************************)
(* What holds of the outbox for any records, limits and attempts, whatever *)
(* dispatchers overlap, whatever the channels answer and however often the *)
(* process restarts.  The first part is about what is written back, the    *)
(* second one counts attempts and deliveries against what causes them.     *)
(***************************************************************************)
EXTENDS Outbox, FiniteSetTheorems, TLAPS

\* Snapshots are of rows, which never disappear.
SnapshotsOfRows ==
    \A d \in Dispatchers : \A s \in batch[d] : status[s.id] # "none"

\* What a dispatcher is about to write back is true of its snapshot in work.
Written(d, s) ==
    /\ s.attempt <= history[s.id]
    /\ InWork(d, s) =>
           /\ stage[d] \in {"logging", "marking"} /\ success[d] => delivered[s.id] >= 1
           /\ stage[d] = "marking" => s.attempt + 1 <= history[s.id]

WrittenIsTrue == \A d \in Dispatchers : \A s \in batch[d] : Written(d, s)

IInv ==
    /\ TypeOK
    /\ SnapshotsOfRows
    /\ WrittenIsTrue
    /\ SentWasDelivered
    /\ HistoryCoversCount

-----------------------------------------------------------------------------
(* Snapshots                                                                 *)

LEMMA SelectedType ==
    ASSUME TypeOK, NEW from \in {"pending", "failed"}
    PROVE  /\ Selected(from) \subseteq Snapshot
           /\ \A s \in Selected(from) :
                  /\ s.from = from /\ status[s.id] = from
                  /\ s.attempt = attemptCount[s.id] /\ s.attempt < MaxAttempts
  <1>1. ASSUME NEW s \in Selected(from)
        PROVE  /\ s \in Snapshot
               /\ s.from = from /\ status[s.id] = from
               /\ s.attempt = attemptCount[s.id] /\ s.attempt < MaxAttempts
    <2>1. PICK r \in Window(from) :
              /\ attemptCount[r] < MaxAttempts
              /\ s = [id |-> r, from |-> from, attempt |-> attemptCount[r]]
      BY <1>1 DEF Selected
    <2>2. r \in Records /\ status[r] = from
      BY <2>1 DEF Window
    <2> QED
      BY <2>1, <2>2 DEF TypeOK, Snapshot
  <1> QED
    BY <1>1

LEMMA SnapshotFields ==
    ASSUME TypeOK, NEW d \in Dispatchers, NEW s \in batch[d]
    PROVE  /\ s \in Snapshot /\ s.id \in Records /\ s.attempt \in Nat
           /\ s.from \in {"pending", "failed"}
  BY DEF TypeOK, Snapshot

\* One snapshot is in work at a time.
LEMMA InWorkUnique ==
    ASSUME TypeOK, NEW d \in Dispatchers, NEW s, NEW t, InWork(d, s), InWork(d, t)
    PROVE  s = t
  <1>1. SUFFICES ASSUME s # t PROVE FALSE
    OBVIOUS
  <1>2. s \in batch[d] /\ t \in batch[d]
    BY DEF InWork
  <1>3. Precedes(s, t) /\ Precedes(t, s)
    BY <1>1, <1>2 DEF InWork
  <1>4. created[s.id] \in Nat /\ created[t.id] \in Nat
    BY <1>2, SnapshotFields DEF TypeOK
  <1>5. s.from \in {"pending", "failed"} /\ t.from \in {"pending", "failed"}
    BY <1>2, SnapshotFields
  <1>6. created[s.id] < created[t.id] /\ created[t.id] < created[s.id]
    BY <1>3, <1>5 DEF Precedes
  <1> QED
    BY <1>4, <1>6

\* A new row changes the rank of nothing that is already in a batch.
LEMMA InWorkStable ==
    ASSUME TypeOK, SnapshotsOfRows,
           \A q \in Records : status[q] # "none" => created'[q] = created[q],
           NEW d \in Dispatchers, batch'[d] = batch[d], NEW s
    PROVE  InWork(d, s)' <=> InWork(d, s)
  <1>1. \A t \in batch[d] : created'[t.id] = created[t.id]
    BY SnapshotFields DEF SnapshotsOfRows
  <1> QED
    BY <1>1 DEF InWork, Precedes

-----------------------------------------------------------------------------
(* Type correctness                                                          *)

LEMMA InitType == Init => TypeOK
  BY LimitAssumption DEF Init, TypeOK, OutboxStatus, Stages

LEMMA RankType ==
    ASSUME NEW S \in SUBSET Records
    PROVE  Cardinality(S) \in Nat
  BY RecordsAssumption, FS_Subset, FS_CardinalityType

LEMMA NextType ==
    ASSUME TypeOK, [Next]_vars
    PROVE  TypeOK'
  <1> USE DEF OutboxStatus, Stages
  <1>1. ASSUME NEW r \in Records, Enqueue(r)
        PROVE  TypeOK'
    <2>1. Cardinality({q \in Records : status[q] # "none"}) + 1 \in Nat
      BY RankType
    <2>2. created' \in [Records -> Nat] /\ status' \in [Records -> OutboxStatus]
      BY <1>1, <2>1 DEF Enqueue, TypeOK
    <2> QED
      BY <1>1, <2>2 DEF Enqueue, TypeOK, ghosts
  <1>2. ASSUME NEW d \in Dispatchers, ReadPending(d)
        PROVE  TypeOK'
    <2>1. batch' \in [Dispatchers -> SUBSET Snapshot]
      BY <1>2, SelectedType DEF ReadPending, TypeOK
    <2>2. contested' \in [Records -> Nat]
      BY <1>2 DEF ReadPending, TypeOK
    <2> QED
      BY <1>2, <2>1, <2>2 DEF ReadPending, TypeOK, rows
  <1>3. ASSUME NEW d \in Dispatchers, ReadFailed(d)
        PROVE  TypeOK'
    <2>1. batch' \in [Dispatchers -> SUBSET Snapshot]
      BY <1>3, SelectedType DEF ReadFailed, TypeOK
    <2>2. contested' \in [Records -> Nat]
      BY <1>3 DEF ReadFailed, TypeOK
    <2> QED
      BY <1>3, <2>1, <2>2 DEF ReadFailed, StageFor, TypeOK, rows
  <1>4. ASSUME NEW d \in Dispatchers, Send(d)
        PROVE  TypeOK'
    BY <1>4, SnapshotFields DEF Send, Reported, TypeOK, rows
  <1>5. ASSUME NEW d \in Dispatchers, LogAttempt(d)
        PROVE  TypeOK'
    BY <1>5, SnapshotFields DEF LogAttempt, TypeOK, rows, ghosts
  <1>6. ASSUME NEW d \in Dispatchers, Mark(d)
        PROVE  TypeOK'
    <2>1. PICK s \in batch[d] :
              /\ status' = [status EXCEPT ![s.id] = IF success[d] THEN "sent" ELSE "failed"]
              /\ attemptCount' = [attemptCount EXCEPT ![s.id] = s.attempt + 1]
              /\ batch' = [batch EXCEPT ![d] = @ \ {s}]
              /\ stage' = [stage EXCEPT ![d] = StageFor(batch[d] \ {s})]
              /\ UNCHANGED <<created, history, delivered, success, restarts, ghosts>>
      BY <1>6 DEF Mark
    <2>2. s.id \in Records /\ s.attempt + 1 \in Nat
      BY SnapshotFields
    <2>3. batch' \in [Dispatchers -> SUBSET Snapshot]
      BY <2>1 DEF TypeOK
    <2> QED
      BY <2>1, <2>2, <2>3 DEF StageFor, TypeOK, ghosts
  <1>7. CASE Restart
    BY <1>7, LimitAssumption DEF Restart, TypeOK, rows, ghosts
  <1>8. CASE UNCHANGED vars
    BY <1>8 DEF vars, rows, ghosts, TypeOK
  <1> QED
    BY <1>1, <1>2, <1>3, <1>4, <1>5, <1>6, <1>7, <1>8 DEF Next, Dispatch

\* dispatch() keeps rows, snapshots and counters well-formed.
THEOREM TypeCorrect == Spec => []TypeOK
  BY InitType, NextType, PTL DEF Spec
-----------------------------------------------------------------------------
(* Any number of dispatchers                                                 *)

LEMMA InitIInv == Init => IInv
  <1> SUFFICES ASSUME Init PROVE IInv
    OBVIOUS
  <1>1. TypeOK
    BY InitType
  <1>2. \A d \in Dispatchers : batch[d] = {}
    BY DEF Init
  <1>3. SnapshotsOfRows /\ WrittenIsTrue
    BY <1>2 DEF SnapshotsOfRows, WrittenIsTrue, Written
  <1>4. SentWasDelivered /\ HistoryCoversCount
    BY DEF Init, SentWasDelivered, HistoryCoversCount
  <1> QED
    BY <1>1, <1>3, <1>4 DEF IInv

\* Counters that only grow keep every snapshot that is not touched true.
LEMMA WrittenStable ==
    ASSUME IInv, TypeOK',
           \A q \in Records : status[q] # "none" => created'[q] = created[q],
           \A q \in Records : history[q] <= history'[q] /\ delivered[q] <= delivered'[q],
           NEW d \in Dispatchers, NEW s \in batch[d],
           batch'[d] = batch[d], stage'[d] = stage[d], success'[d] = success[d]
    PROVE  Written(d, s)'
  <1>1. InWork(d, s)' <=> InWork(d, s)
    BY InWorkStable DEF IInv
  <1>2. s.id \in Records /\ s.attempt \in Nat
    BY SnapshotFields DEF IInv
  <1>3. /\ history[s.id] \in Nat /\ delivered[s.id] \in Nat
        /\ history'[s.id] \in Nat /\ delivered'[s.id] \in Nat
    BY <1>2 DEF IInv, TypeOK
  <1>4. Written(d, s)
    BY DEF IInv, WrittenIsTrue, Written
  <1> QED
    BY <1>1, <1>2, <1>3, <1>4 DEF Written

LEMMA NextRows ==
    ASSUME IInv, [Next]_vars
    PROVE  SnapshotsOfRows' /\ HistoryCoversCount' /\ SentWasDelivered'
  <1>0. TypeOK /\ SnapshotsOfRows /\ WrittenIsTrue /\ SentWasDelivered /\ HistoryCoversCount
    BY DEF IInv
  <1>1. ASSUME NEW r \in Records, Enqueue(r)
        PROVE  SnapshotsOfRows' /\ HistoryCoversCount' /\ SentWasDelivered'
    <2>1. SnapshotsOfRows'
      BY <1>0, <1>1, SnapshotFields DEF Enqueue, SnapshotsOfRows, TypeOK
    <2> QED
      BY <1>0, <1>1, <2>1 DEF Enqueue, HistoryCoversCount, SentWasDelivered, TypeOK
  <1>2. ASSUME NEW d \in Dispatchers, ReadPending(d) \/ ReadFailed(d)
        PROVE  SnapshotsOfRows' /\ HistoryCoversCount' /\ SentWasDelivered'
    <2>1. UNCHANGED <<rows, history, delivered>>
      BY <1>2 DEF ReadPending, ReadFailed
    <2>2. SnapshotsOfRows'
      <3> SUFFICES ASSUME NEW e \in Dispatchers, NEW s \in batch'[e]
                   PROVE  status[s.id] # "none"
        BY <2>1 DEF SnapshotsOfRows, rows
      <3>1. \/ s \in batch[e] \/ s \in Selected("pending") \/ s \in Selected("failed")
        BY <1>0, <1>2 DEF ReadPending, ReadFailed, TypeOK
      <3> QED
        BY <1>0, <3>1, SelectedType DEF SnapshotsOfRows
    <2> QED
      BY <1>0, <2>1, <2>2 DEF HistoryCoversCount, SentWasDelivered, rows
  <1>3. ASSUME NEW d \in Dispatchers, Send(d)
        PROVE  SnapshotsOfRows' /\ HistoryCoversCount' /\ SentWasDelivered'
    <2>1. UNCHANGED <<rows, history, batch>>
      BY <1>3 DEF Send
    <2>2. PICK s \in batch[d], outcome \in Outcomes :
              delivered' = [delivered EXCEPT ![s.id] = IF outcome = "error" THEN @ ELSE @ + 1]
      BY <1>3 DEF Send
    <2>3. \A q \in Records : delivered[q] >= 1 => delivered'[q] >= 1
      BY <1>0, <2>2 DEF TypeOK
    <2> QED
      BY <1>0, <2>1, <2>3 DEF SnapshotsOfRows, HistoryCoversCount, SentWasDelivered, rows
  <1>4. ASSUME NEW d \in Dispatchers, LogAttempt(d)
        PROVE  SnapshotsOfRows' /\ HistoryCoversCount' /\ SentWasDelivered'
    <2>1. UNCHANGED <<rows, delivered, batch>>
      BY <1>4 DEF LogAttempt
    <2>2. \A q \in Records : history'[q] = history[q] \/ history'[q] = history[q] + 1
      BY <1>0, <1>4 DEF LogAttempt, TypeOK
    <2>3. HistoryCoversCount'
      BY <1>0, <2>1, <2>2 DEF HistoryCoversCount, TypeOK, rows
    <2> QED
      BY <1>0, <2>1, <2>3 DEF SnapshotsOfRows, SentWasDelivered, rows
  <1>5. ASSUME NEW d \in Dispatchers, Mark(d)
        PROVE  SnapshotsOfRows' /\ HistoryCoversCount' /\ SentWasDelivered'
    <2>1. PICK s \in batch[d] :
              /\ stage[d] = "marking" /\ InWork(d, s)
              /\ status' = [status EXCEPT ![s.id] = IF success[d] THEN "sent" ELSE "failed"]
              /\ attemptCount' = [attemptCount EXCEPT ![s.id] = s.attempt + 1]
              /\ batch' = [batch EXCEPT ![d] = @ \ {s}]
              /\ UNCHANGED <<created, history, delivered, success, restarts>>
      BY <1>5 DEF Mark
    <2>2. s.id \in Records /\ s.attempt \in Nat
      BY <1>0, SnapshotFields
    <2>3. s.attempt + 1 <= history[s.id] /\ (success[d] => delivered[s.id] >= 1)
      BY <1>0, <2>1 DEF WrittenIsTrue, Written
    <2>4. SnapshotsOfRows'
      BY <1>0, <2>1, <2>2, SnapshotFields DEF SnapshotsOfRows, TypeOK
    <2>5. HistoryCoversCount'
      BY <1>0, <2>1, <2>2, <2>3 DEF HistoryCoversCount, TypeOK
    <2>6. SentWasDelivered'
      BY <1>0, <2>1, <2>2, <2>3 DEF SentWasDelivered, TypeOK
    <2> QED
      BY <2>4, <2>5, <2>6
  <1>6. CASE Restart
    BY <1>0, <1>6
    DEF Restart, SnapshotsOfRows, HistoryCoversCount, SentWasDelivered, rows
  <1>7. CASE UNCHANGED vars
    BY <1>0, <1>7
    DEF vars, rows, SnapshotsOfRows, HistoryCoversCount, SentWasDelivered
  <1> QED
    BY <1>1, <1>2, <1>3, <1>4, <1>5, <1>6, <1>7 DEF Next, Dispatch

LEMMA NextWritten ==
    ASSUME IInv, TypeOK', [Next]_vars
    PROVE  WrittenIsTrue'
  <1>0. TypeOK /\ SnapshotsOfRows /\ WrittenIsTrue /\ SentWasDelivered /\ HistoryCoversCount
    BY DEF IInv
  <1> SUFFICES ASSUME NEW e \in Dispatchers, NEW s \in batch'[e]
               PROVE  Written(e, s)'
    BY DEF WrittenIsTrue, Written
  <1>1. ASSUME NEW r \in Records, Enqueue(r)
        PROVE  Written(e, s)'
    <2>1. \A q \in Records : status[q] # "none" => created'[q] = created[q]
      BY <1>0, <1>1 DEF Enqueue, TypeOK
    <2>2. \A q \in Records : history[q] <= history'[q] /\ delivered[q] <= delivered'[q]
      BY <1>0, <1>1 DEF Enqueue, TypeOK
    <2>3. UNCHANGED <<batch, stage, success>>
      BY <1>1 DEF Enqueue
    <2> QED
      BY <2>1, <2>2, <2>3, WrittenStable
  <1>2. ASSUME NEW d \in Dispatchers, ReadPending(d) \/ ReadFailed(d)
        PROVE  Written(e, s)'
    <2>1. UNCHANGED <<rows, history, delivered, success>>
      BY <1>2 DEF ReadPending, ReadFailed
    <2>2. CASE e # d
      <3>1. batch'[e] = batch[e] /\ stage'[e] = stage[e] /\ success'[e] = success[e]
        BY <1>0, <1>2, <2>1, <2>2 DEF ReadPending, ReadFailed, TypeOK
      <3>2. \A q \in Records : history[q] <= history'[q] /\ delivered[q] <= delivered'[q]
        BY <1>0, <2>1 DEF TypeOK
      <3> QED
        BY <2>1, <3>1, <3>2, WrittenStable DEF rows
    <2>3. CASE e = d
      <3>1. stage'[e] \in {"reading", "idle", "sending"}
        BY <1>0, <1>2, <2>3 DEF ReadPending, ReadFailed, StageFor, TypeOK
      <3>2. \/ s \in batch[e] \/ s \in Selected("pending") \/ s \in Selected("failed")
        BY <1>0, <1>2 DEF ReadPending, ReadFailed, TypeOK
      <3>3. s.attempt <= history[s.id]
        <4>1. CASE s \in batch[e]
          BY <1>0, <4>1 DEF WrittenIsTrue, Written
        <4>2. ASSUME NEW from \in {"pending", "failed"}, s \in Selected(from)
              PROVE  s.attempt <= history[s.id]
          <5>1. s.id \in Records /\ s.attempt = attemptCount[s.id]
            BY <1>0, <4>2, SelectedType DEF Snapshot
          <5> QED
            BY <1>0, <5>1 DEF HistoryCoversCount
        <4> QED
          BY <3>2, <4>1, <4>2
      <3> QED
        BY <2>1, <3>1, <3>3 DEF Written
    <2> QED
      BY <2>2, <2>3
  <1>3. ASSUME NEW d \in Dispatchers, Send(d)
        PROVE  Written(e, s)'
    <2>1. PICK t \in batch[d], outcome \in Outcomes :
              /\ InWork(d, t)
              /\ delivered' = [delivered EXCEPT ![t.id] =
                                    IF outcome = "error" THEN @ ELSE @ + 1]
              /\ success' = [success EXCEPT ![d] = Reported(outcome)]
              /\ stage' = [stage EXCEPT ![d] = "logging"]
              /\ UNCHANGED <<rows, history, batch, restarts>>
      BY <1>3 DEF Send
    <2>2. t.id \in Records
      BY <1>0, SnapshotFields
    <2>3. \A q \in Records : history[q] <= history'[q] /\ delivered[q] <= delivered'[q]
      BY <1>0, <2>1, <2>2 DEF TypeOK
    <2>4. CASE e # d
      <3>1. batch'[e] = batch[e] /\ stage'[e] = stage[e] /\ success'[e] = success[e]
        BY <1>0, <2>1, <2>4 DEF TypeOK
      <3> QED
        BY <2>1, <2>3, <3>1, WrittenStable DEF rows
    <2>5. CASE e = d
      <3>1. stage'[e] = "logging" /\ success'[e] = (outcome = "ok") /\ s \in batch[d]
        BY <1>0, <2>1, <2>5 DEF TypeOK, Reported
      <3>2. s.attempt <= history'[s.id]
        BY <1>0, <2>1, <2>5, <3>1 DEF WrittenIsTrue, Written
      <3>3. InWork(e, s)' => s = t
        BY <1>0, <2>1, <2>5, InWorkUnique DEF InWork, Precedes, rows
      <3>4. outcome = "ok" => delivered'[t.id] >= 1
        BY <1>0, <2>1, <2>2 DEF TypeOK
      <3> QED
        BY <3>1, <3>2, <3>3, <3>4 DEF Written
    <2> QED
      BY <2>4, <2>5
  <1>4. ASSUME NEW d \in Dispatchers, LogAttempt(d)
        PROVE  Written(e, s)'
    <2>1. PICK t \in batch[d] :
              /\ stage[d] = "logging" /\ InWork(d, t)
              /\ history' = [history EXCEPT ![t.id] = @ + 1]
              /\ stage' = [stage EXCEPT ![d] = "marking"]
              /\ UNCHANGED <<rows, delivered, batch, success, restarts>>
      BY <1>4 DEF LogAttempt
    <2>2. t.id \in Records /\ t.attempt \in Nat
      BY <1>0, SnapshotFields
    <2>3. \A q \in Records : history[q] <= history'[q] /\ delivered[q] <= delivered'[q]
      BY <1>0, <2>1, <2>2 DEF TypeOK
    <2>4. CASE e # d
      <3>1. batch'[e] = batch[e] /\ stage'[e] = stage[e] /\ success'[e] = success[e]
        BY <1>0, <2>1, <2>4 DEF TypeOK
      <3> QED
        BY <2>1, <2>3, <3>1, WrittenStable DEF rows
    <2>5. CASE e = d
      <3>1. stage'[e] = "marking" /\ success'[e] = success[d] /\ s \in batch[d]
        BY <1>0, <2>1, <2>5 DEF TypeOK
      <3>2. s.id \in Records /\ s.attempt \in Nat /\ s.attempt <= history[s.id]
        BY <1>0, <2>5, <3>1, SnapshotFields DEF WrittenIsTrue, Written
      <3>3. s.attempt <= history'[s.id]
        BY <1>0, <2>1, <2>2, <3>2 DEF TypeOK
      <3>4. InWork(e, s)' => s = t
        BY <1>0, <2>1, <2>5, InWorkUnique DEF InWork, Precedes, rows
      <3>5. t.attempt + 1 <= history'[t.id]
        BY <1>0, <2>1, <2>2 DEF WrittenIsTrue, Written, TypeOK
      <3>6. success[d] => delivered'[t.id] >= 1
        BY <1>0, <2>1 DEF WrittenIsTrue, Written
      <3> QED
        BY <3>1, <3>3, <3>4, <3>5, <3>6 DEF Written
    <2> QED
      BY <2>4, <2>5
  <1>5. ASSUME NEW d \in Dispatchers, Mark(d)
        PROVE  Written(e, s)'
    <2>1. PICK t \in batch[d] :
              /\ batch' = [batch EXCEPT ![d] = @ \ {t}]
              /\ stage' = [stage EXCEPT ![d] = StageFor(batch[d] \ {t})]
              /\ UNCHANGED <<created, history, delivered, success, restarts>>
      BY <1>5 DEF Mark
    <2>2. CASE e # d
      <3>1. batch'[e] = batch[e] /\ stage'[e] = stage[e] /\ success'[e] = success[e]
        BY <1>0, <2>1, <2>2 DEF TypeOK
      <3>2. \A q \in Records : history[q] <= history'[q] /\ delivered[q] <= delivered'[q]
        BY <1>0, <2>1 DEF TypeOK
      <3> QED
        BY <2>1, <3>1, <3>2, WrittenStable
    <2>3. CASE e = d
      <3>1. stage'[e] \in {"idle", "sending"} /\ s \in batch[d]
        BY <1>0, <2>1, <2>3 DEF StageFor, TypeOK
      <3>2. s.attempt <= history'[s.id]
        BY <1>0, <2>1, <2>3, <3>1 DEF WrittenIsTrue, Written
      <3> QED
        BY <3>1, <3>2 DEF Written
    <2> QED
      BY <2>2, <2>3
  <1>6. CASE Restart
    BY <1>0, <1>6 DEF Restart
  <1>7. CASE UNCHANGED vars
    BY <1>0, <1>7 DEF vars, rows, WrittenIsTrue, Written, InWork, Precedes
  <1> QED
    BY <1>1, <1>2, <1>3, <1>4, <1>5, <1>6, <1>7 DEF Next, Dispatch

THEOREM Invariance == Spec => []IInv
  <1>1. IInv /\ [Next]_vars => IInv'
    BY NextType, NextRows, NextWritten DEF IInv
  <1> QED
    BY InitIInv, <1>1, PTL DEF Spec

\* A row says SENT only if its message was accepted, however dispatchers race.
THEOREM SentWasDeliveredHolds == Spec => []SentWasDelivered
  BY Invariance, PTL DEF IInv

\* The attempt history covers the attempts counted, however dispatchers race.
THEOREM HistoryCoversCountHolds == Spec => []HistoryCoversCount
  BY Invariance, PTL DEF IInv
-----------------------------------------------------------------------------
(* Counting attempts and deliveries                                          *)

\* A snapshot of r taken by one SELECT of d awaits its delivery_attempts row.
AwaitsLog(d, from, r) ==
    \E s \in batch[d] :
        /\ s.id = r /\ s.from = from
        /\ ~ (stage[d] = "marking" /\ InWork(d, s))

\* A snapshot of r taken by one SELECT of d has not been reported as delivered.
AwaitsDelivery(d, from, r) ==
    \E s \in batch[d] :
        /\ s.id = r /\ s.from = from
        /\ ~ (stage[d] \in {"logging", "marking"} /\ success[d] /\ InWork(d, s))

Lists == Dispatchers \X {"pending", "failed"}

Unlogged(r)    == {l \in Lists : AwaitsLog(l[1], l[2], r)}
Undelivered(r) == {l \in Lists : AwaitsDelivery(l[1], l[2], r)}

\* What repetitions of r are due to, but for unconfirmed deliveries.
Reasons(r) == restarts + contested[r]

\* A list has one snapshot of a row, and the failed rows are read last.
ListsAreApart ==
    \A d \in Dispatchers :
        /\ \A s, t \in batch[d] : s.id = t.id /\ s.from = t.from => s = t
        /\ stage[d] = "reading" => \A s \in batch[d] : s.from = "pending"

Capped ==
    /\ \A r \in Records : attemptCount[r] <= MaxAttempts
    /\ \A d \in Dispatchers : \A s \in batch[d] : s.attempt < MaxAttempts

\* Where nothing was contested there is one snapshot, and its row is as it was.
Alone(d, s) ==
    /\ status[s.id] = s.from
    /\ \A e \in Dispatchers : \A t \in batch[e] : t.id = s.id => e = d /\ t = s

Uncontested ==
    \A d \in Dispatchers : \A s \in batch[d] : contested[s.id] = 0 => Alone(d, s)

\* The attempts made and those still to come are counted in the row and in each
\* of its snapshots, but for one attempt of each restart and of each contest.
Tries(r) == history[r] + Cardinality(Unlogged(r))

AttemptsCounted ==
    /\ \A r \in Records :
           /\ Tries(r) <= attemptCount[r] + Reasons(r) + 1
           /\ ~ Held(r) => Tries(r) <= attemptCount[r] + Reasons(r)
    /\ \A d \in Dispatchers : \A s \in batch[d] :
           Tries(s.id) <= s.attempt + Reasons(s.id) + 1

\* The deliveries made and those still to come, likewise.
Due(r) == delivered[r] + Cardinality(Undelivered(r))

DeliveriesCounted ==
    \A r \in Records :
        /\ Due(r) <= unconfirmed[r] + Reasons(r) + 1
        /\ ~ Held(r) /\ status[r] # "sent" => Due(r) <= unconfirmed[r] + Reasons(r)

CountInv ==
    /\ IInv
    /\ ListsAreApart
    /\ Capped
    /\ Uncontested
    /\ AttemptsCounted
    /\ DeliveriesCounted

-----------------------------------------------------------------------------
(* Sets of lists                                                             *)

LEMMA CountType ==
    ASSUME NEW A \in SUBSET Lists
    PROVE  IsFiniteSet(A) /\ Cardinality(A) \in Nat
  <1>1. IsFiniteSet(Dispatchers)
    <2>1. IsFiniteSet({Sweeper})
      BY FS_Singleton
    <2> QED
      BY <2>1, RecordsAssumption, FS_Union DEF Dispatchers
  <1>2. IsFiniteSet({"pending", "failed"})
    <2>1. IsFiniteSet({"pending"}) /\ IsFiniteSet({"failed"})
      BY FS_Singleton
    <2>2. {"pending", "failed"} = {"pending"} \cup {"failed"}
      OBVIOUS
    <2> QED
      BY <2>1, <2>2, FS_Union
  <1>3. IsFiniteSet(Lists)
    BY <1>1, <1>2, FS_Product DEF Lists
  <1>4. IsFiniteSet(A)
    BY <1>3, FS_Subset
  <1> QED
    BY <1>4, FS_CardinalityType

LEMMA AwaitingTypes ==
    ASSUME NEW r
    PROVE  /\ Unlogged(r) \in SUBSET Lists /\ Cardinality(Unlogged(r)) \in Nat
           /\ Undelivered(r) \in SUBSET Lists /\ Cardinality(Undelivered(r)) \in Nat
           /\ Unlogged(r)' \in SUBSET Lists /\ Cardinality(Unlogged(r)') \in Nat
           /\ Undelivered(r)' \in SUBSET Lists /\ Cardinality(Undelivered(r)') \in Nat
  BY CountType DEF Unlogged, Undelivered

LEMMA InLists ==
    ASSUME NEW d \in Dispatchers, NEW from \in {"pending", "failed"}, NEW r
    PROVE  /\ <<d, from>> \in Lists
           /\ <<d, from>> \in Unlogged(r) <=> AwaitsLog(d, from, r)
           /\ <<d, from>> \in Undelivered(r) <=> AwaitsDelivery(d, from, r)
           /\ <<d, from>> \in Unlogged(r)' <=> AwaitsLog(d, from, r)'
           /\ <<d, from>> \in Undelivered(r)' <=> AwaitsDelivery(d, from, r)'
  BY DEF Lists, Unlogged, Undelivered

LEMMA SameLists ==
    ASSUME NEW A \in SUBSET Lists, NEW B \in SUBSET Lists,
           \A e \in Dispatchers, g \in {"pending", "failed"} :
               <<e, g>> \in A <=> <<e, g>> \in B
    PROVE  A = B
  <1>1. ASSUME NEW l \in Lists
        PROVE  l \in A <=> l \in B
    <2>1. PICK e \in Dispatchers, g \in {"pending", "failed"} : l = <<e, g>>
      BY DEF Lists
    <2> QED
      BY <2>1
  <1> QED
    BY <1>1

LEMMA OneMore ==
    ASSUME NEW A \in SUBSET Lists, NEW B \in SUBSET Lists,
           NEW d \in Dispatchers, NEW from \in {"pending", "failed"},
           <<d, from>> \notin A, <<d, from>> \in B,
           \A e \in Dispatchers, g \in {"pending", "failed"} :
               e # d \/ g # from => (<<e, g>> \in A <=> <<e, g>> \in B)
    PROVE  Cardinality(B) = Cardinality(A) + 1
  <1>0. A \cup {<<d, from>>} \in SUBSET Lists
    BY DEF Lists
  <1>1. B = A \cup {<<d, from>>}
    <2>1. ASSUME NEW e \in Dispatchers, NEW g \in {"pending", "failed"}
          PROVE  <<e, g>> \in B <=> <<e, g>> \in A \cup {<<d, from>>}
      <3>1. CASE e = d /\ g = from
        BY <3>1
      <3>2. CASE e # d \/ g # from
        BY <3>2
      <3> QED
        BY <3>1, <3>2
    <2> QED
      BY <1>0, <2>1, SameLists
  <1> QED
    BY <1>1, CountType, FS_AddElement
-----------------------------------------------------------------------------
(* The two SELECTs                                                           *)

\* A SELECT adds a list of its own to the batch of one dispatcher.
Reads(d, from) ==
    /\ stage[d] \in {"idle", "reading"} /\ stage'[d] \in {"idle", "reading", "sending"}
    /\ stage'[d] = "reading" => batch[d] = {} /\ from = "pending"
    /\ \A s \in batch[d] : s.from # from
    /\ batch'[d] = batch[d] \cup Selected(from)
    /\ \A e \in Dispatchers \ {d} : batch'[e] = batch[e] /\ stage'[e] = stage[e]
    /\ \A r \in Records :
           contested'[r] = contested[r] + IF r \in Contests(from) THEN 1 ELSE 0
    /\ UNCHANGED <<rows, history, delivered, success, restarts, unconfirmed>>

Taken(from, r) == \E s \in Selected(from) : s.id = r

LEMMA ReadingReads ==
    ASSUME TypeOK, ListsAreApart, NEW d \in Dispatchers
    PROVE  /\ ReadPending(d) => Reads(d, "pending")
           /\ ReadFailed(d) => Reads(d, "failed")
  <1>1. ASSUME ReadPending(d)
        PROVE  Reads(d, "pending")
    <2>1. batch[d] = {}
      BY <1>1 DEF ReadPending, TypeOK
    <2>2. /\ stage[d] = "idle" /\ stage'[d] = "reading"
          /\ batch'[d] = batch[d] \cup Selected("pending")
          /\ \A e \in Dispatchers \ {d} : batch'[e] = batch[e] /\ stage'[e] = stage[e]
      BY <1>1, <2>1 DEF ReadPending, TypeOK
    <2>3. /\ \A r \in Records :
               contested'[r] = contested[r] + IF r \in Contests("pending") THEN 1 ELSE 0
          /\ UNCHANGED <<rows, history, delivered, success, restarts, unconfirmed>>
      BY <1>1 DEF ReadPending
    <2> QED
      BY <2>1, <2>2, <2>3 DEF Reads
  <1>2. ASSUME ReadFailed(d)
        PROVE  Reads(d, "failed")
    <2>1. /\ stage[d] = "reading" /\ stage'[d] \in {"idle", "sending"}
          /\ batch'[d] = batch[d] \cup Selected("failed")
          /\ \A e \in Dispatchers \ {d} : batch'[e] = batch[e] /\ stage'[e] = stage[e]
      BY <1>2 DEF ReadFailed, StageFor, TypeOK
    <2>2. \A s \in batch[d] : s.from # "failed"
      BY <2>1 DEF ListsAreApart
    <2>3. /\ \A r \in Records :
               contested'[r] = contested[r] + IF r \in Contests("failed") THEN 1 ELSE 0
          /\ UNCHANGED <<rows, history, delivered, success, restarts, unconfirmed>>
      BY <1>2 DEF ReadFailed
    <2> QED
      BY <2>1, <2>2, <2>3 DEF Reads
  <1> QED
    BY <1>1, <1>2

\* A dispatcher that did nothing awaits what it awaited.
LEMMA OthersAwait ==
    ASSUME TypeOK, SnapshotsOfRows,
           \A q \in Records : status[q] # "none" => created'[q] = created[q],
           NEW e \in Dispatchers,
           batch'[e] = batch[e], stage'[e] = stage[e], success'[e] = success[e],
           NEW from, NEW r
    PROVE  /\ AwaitsLog(e, from, r)' <=> AwaitsLog(e, from, r)
           /\ AwaitsDelivery(e, from, r)' <=> AwaitsDelivery(e, from, r)
  <1>1. \A s \in batch[e] : InWork(e, s)' <=> InWork(e, s)
    BY InWorkStable
  <1>2. AwaitsLog(e, from, r)' <=> AwaitsLog(e, from, r)
    BY <1>1 DEF AwaitsLog
  <1>3. AwaitsDelivery(e, from, r)' <=> AwaitsDelivery(e, from, r)
    BY <1>1 DEF AwaitsDelivery
  <1> QED
    BY <1>2, <1>3

\* While a dispatcher reads, all of its snapshots await everything.
LEMMA ReaderAwaits ==
    ASSUME NEW d \in Dispatchers, NEW from, NEW r
    PROVE  /\ stage[d] \notin {"logging", "marking"} =>
                  /\ AwaitsLog(d, from, r) <=> \E s \in batch[d] : s.id = r /\ s.from = from
                  /\ AwaitsDelivery(d, from, r) <=> \E s \in batch[d] : s.id = r /\ s.from = from
           /\ stage'[d] \notin {"logging", "marking"} =>
                  /\ AwaitsLog(d, from, r)' <=> \E s \in batch'[d] : s.id = r /\ s.from = from
                  /\ AwaitsDelivery(d, from, r)' <=> \E s \in batch'[d] : s.id = r /\ s.from = from
  <1>1. ASSUME stage[d] \notin {"logging", "marking"}
        PROVE  /\ AwaitsLog(d, from, r) <=> \E s \in batch[d] : s.id = r /\ s.from = from
               /\ AwaitsDelivery(d, from, r) <=> \E s \in batch[d] : s.id = r /\ s.from = from
    BY <1>1 DEF AwaitsLog, AwaitsDelivery
  <1>2. ASSUME stage'[d] \notin {"logging", "marking"}
        PROVE  /\ AwaitsLog(d, from, r)' <=> \E s \in batch'[d] : s.id = r /\ s.from = from
               /\ AwaitsDelivery(d, from, r)' <=> \E s \in batch'[d] : s.id = r /\ s.from = from
    BY <1>2 DEF AwaitsLog, AwaitsDelivery
  <1> QED
    BY <1>1, <1>2

LEMMA ReadEffect ==
    ASSUME TypeOK, SnapshotsOfRows, NEW d \in Dispatchers,
           NEW from \in {"pending", "failed"}, Reads(d, from), NEW r \in Records
    PROVE  /\ Taken(from, r) =>
                  /\ Cardinality(Unlogged(r)') = Cardinality(Unlogged(r)) + 1
                  /\ Cardinality(Undelivered(r)') = Cardinality(Undelivered(r)) + 1
           /\ ~ Taken(from, r) =>
                  Unlogged(r)' = Unlogged(r) /\ Undelivered(r)' = Undelivered(r)
  <1>1. ASSUME NEW e \in Dispatchers, e # d, NEW g
        PROVE  /\ AwaitsLog(e, g, r)' <=> AwaitsLog(e, g, r)
               /\ AwaitsDelivery(e, g, r)' <=> AwaitsDelivery(e, g, r)
    <2>1. /\ batch'[e] = batch[e] /\ stage'[e] = stage[e] /\ success'[e] = success[e]
          /\ created' = created
      BY <1>1 DEF Reads, rows
    <2> QED
      BY <2>1, OthersAwait
  <1>2. ASSUME NEW g \in {"pending", "failed"}, g # from \/ ~ Taken(from, r)
        PROVE  /\ AwaitsLog(d, g, r)' <=> AwaitsLog(d, g, r)
               /\ AwaitsDelivery(d, g, r)' <=> AwaitsDelivery(d, g, r)
    <2>1. \A s : s \in batch'[d] <=> s \in batch[d] \/ s \in Selected(from)
      BY DEF Reads
    <2>2. \A s \in Selected(from) : ~ (s.id = r /\ s.from = g)
      BY <1>2, SelectedType DEF Taken
    <2>3. (\E s \in batch'[d] : s.id = r /\ s.from = g)
              <=> (\E s \in batch[d] : s.id = r /\ s.from = g)
      BY <2>1, <2>2
    <2>4. /\ stage[d] \notin {"logging", "marking"} /\ stage'[d] \notin {"logging", "marking"}
      BY DEF Reads
    <2> QED
      BY <2>3, <2>4, ReaderAwaits
  <1>3. ASSUME Taken(from, r)
        PROVE  /\ AwaitsLog(d, from, r)' /\ ~ AwaitsLog(d, from, r)
               /\ AwaitsDelivery(d, from, r)' /\ ~ AwaitsDelivery(d, from, r)
    <2>1. PICK s \in Selected(from) : s.id = r
      BY <1>3 DEF Taken
    <2>2. s.from = from /\ s \in batch'[d]
      BY <2>1, SelectedType DEF Reads
    <2>3. ~ \E t \in batch[d] : t.id = r /\ t.from = from
      BY DEF Reads
    <2>4. /\ stage[d] \notin {"logging", "marking"} /\ stage'[d] \notin {"logging", "marking"}
      BY DEF Reads
    <2> QED
      BY <2>1, <2>2, <2>3, <2>4, ReaderAwaits
  <1>4. CASE Taken(from, r)
    <2>1. /\ <<d, from>> \notin Unlogged(r) /\ <<d, from>> \in Unlogged(r)'
          /\ <<d, from>> \notin Undelivered(r) /\ <<d, from>> \in Undelivered(r)'
      BY <1>3, <1>4, InLists
    <2>2. ASSUME NEW e \in Dispatchers, NEW g \in {"pending", "failed"}, e # d \/ g # from
          PROVE  /\ <<e, g>> \in Unlogged(r) <=> <<e, g>> \in Unlogged(r)'
                 /\ <<e, g>> \in Undelivered(r) <=> <<e, g>> \in Undelivered(r)'
      BY <1>1, <1>2, <2>2, InLists
    <2>3. Cardinality(Unlogged(r)') = Cardinality(Unlogged(r)) + 1
      <3> DEFINE A == Unlogged(r)
                 B == Unlogged(r)'
      <3>1. A \in SUBSET Lists /\ B \in SUBSET Lists
        BY AwaitingTypes
      <3>2. /\ <<d, from>> \notin A /\ <<d, from>> \in B
            /\ \A e \in Dispatchers, g \in {"pending", "failed"} :
                   e # d \/ g # from => (<<e, g>> \in A <=> <<e, g>> \in B)
        BY <2>1, <2>2
      <3> HIDE DEF A, B
      <3>3. Cardinality(B) = Cardinality(A) + 1
        BY <3>1, <3>2, OneMore
      <3> QED
        BY <3>3 DEF A, B
    <2>4. Cardinality(Undelivered(r)') = Cardinality(Undelivered(r)) + 1
      <3> DEFINE A == Undelivered(r)
                 B == Undelivered(r)'
      <3>1. A \in SUBSET Lists /\ B \in SUBSET Lists
        BY AwaitingTypes
      <3>2. /\ <<d, from>> \notin A /\ <<d, from>> \in B
            /\ \A e \in Dispatchers, g \in {"pending", "failed"} :
                   e # d \/ g # from => (<<e, g>> \in A <=> <<e, g>> \in B)
        BY <2>1, <2>2
      <3> HIDE DEF A, B
      <3>3. Cardinality(B) = Cardinality(A) + 1
        BY <3>1, <3>2, OneMore
      <3> QED
        BY <3>3 DEF A, B
    <2> QED
      BY <1>4, <2>3, <2>4
  <1>5. CASE ~ Taken(from, r)
    <2>1. ASSUME NEW e \in Dispatchers, NEW g \in {"pending", "failed"}
          PROVE  /\ <<e, g>> \in Unlogged(r)' <=> <<e, g>> \in Unlogged(r)
                 /\ <<e, g>> \in Undelivered(r)' <=> <<e, g>> \in Undelivered(r)
      BY <1>1, <1>2, <1>5, InLists
    <2>2. Unlogged(r)' = Unlogged(r) /\ Undelivered(r)' = Undelivered(r)
      BY <2>1, AwaitingTypes, SameLists
    <2> QED
      BY <1>5, <2>2
  <1> QED
    BY <1>4, <1>5
-----------------------------------------------------------------------------
(* The snapshot in work                                                      *)

Has(d, from, r) == \E t \in batch[d] : t.id = r /\ t.from = from

\* What a dispatcher awaits while s is in work.
LEMMA TurnAwaits ==
    ASSUME TypeOK, ListsAreApart, NEW d \in Dispatchers, NEW s \in batch[d], InWork(d, s),
           NEW from, NEW r
    PROVE  /\ stage[d] = "marking" =>
                  (AwaitsLog(d, from, r) <=> Has(d, from, r) /\ ~ (from = s.from /\ r = s.id))
           /\ stage[d] \in {"logging", "marking"} /\ success[d] =>
                  (AwaitsDelivery(d, from, r)
                       <=> Has(d, from, r) /\ ~ (from = s.from /\ r = s.id))
           /\ ~ success[d] => (AwaitsDelivery(d, from, r) <=> Has(d, from, r))
  <1>1. \A t \in batch[d] : InWork(d, t) <=> t = s
    BY InWorkUnique
  <1>2. \A t \in batch[d] : t = s <=> t.id = s.id /\ t.from = s.from
    BY DEF ListsAreApart
  <1>3. (\E t \in batch[d] : t.id = r /\ t.from = from /\ ~ InWork(d, t))
            <=> Has(d, from, r) /\ ~ (from = s.from /\ r = s.id)
    BY <1>1, <1>2 DEF Has
  <1>4. ASSUME stage[d] = "marking"
        PROVE  AwaitsLog(d, from, r) <=> Has(d, from, r) /\ ~ (from = s.from /\ r = s.id)
    BY <1>3, <1>4 DEF AwaitsLog
  <1>5. ASSUME stage[d] \in {"logging", "marking"}, success[d]
        PROVE  AwaitsDelivery(d, from, r)
                   <=> Has(d, from, r) /\ ~ (from = s.from /\ r = s.id)
    BY <1>3, <1>5 DEF AwaitsDelivery
  <1>6. ASSUME ~ success[d]
        PROVE  AwaitsDelivery(d, from, r) <=> Has(d, from, r)
    BY <1>6 DEF AwaitsDelivery, Has
  <1> QED
    BY <1>4, <1>5, <1>6

\* The same after a step that leaves the batch alone.
LEMMA TurnAwaitsNext ==
    ASSUME TypeOK, ListsAreApart, NEW d \in Dispatchers, NEW s \in batch[d], InWork(d, s),
           batch' = batch, created' = created, NEW from, NEW r
    PROVE  /\ stage'[d] = "marking" =>
                  (AwaitsLog(d, from, r)' <=> Has(d, from, r) /\ ~ (from = s.from /\ r = s.id))
           /\ stage'[d] \in {"logging", "marking"} /\ success'[d] =>
                  (AwaitsDelivery(d, from, r)'
                       <=> Has(d, from, r) /\ ~ (from = s.from /\ r = s.id))
           /\ ~ success'[d] => (AwaitsDelivery(d, from, r)' <=> Has(d, from, r))
  <1>1. \A t \in batch[d] : InWork(d, t) <=> t = s
    BY InWorkUnique
  <1>2. \A t \in batch[d] : t = s <=> t.id = s.id /\ t.from = s.from
    BY DEF ListsAreApart
  <1>3. (\E t \in batch[d] : t.id = r /\ t.from = from /\ ~ InWork(d, t))
            <=> Has(d, from, r) /\ ~ (from = s.from /\ r = s.id)
    BY <1>1, <1>2 DEF Has
  <1>s. batch'[d] = batch[d] /\ \A t : InWork(d, t)' <=> InWork(d, t)
    BY DEF InWork, Precedes
  <1>4. ASSUME stage'[d] = "marking"
        PROVE  AwaitsLog(d, from, r)' <=> Has(d, from, r) /\ ~ (from = s.from /\ r = s.id)
    BY <1>3, <1>4, <1>s DEF AwaitsLog
  <1>5. ASSUME stage'[d] \in {"logging", "marking"}, success'[d]
        PROVE  AwaitsDelivery(d, from, r)'
                   <=> Has(d, from, r) /\ ~ (from = s.from /\ r = s.id)
    BY <1>3, <1>5, <1>s DEF AwaitsDelivery
  <1>6. ASSUME ~ success'[d]
        PROVE  AwaitsDelivery(d, from, r)' <=> Has(d, from, r)
    BY <1>6, <1>s DEF AwaitsDelivery, Has
  <1> QED
    BY <1>4, <1>5, <1>6

LEMMA SendEffect ==
    ASSUME TypeOK, SnapshotsOfRows, ListsAreApart, NEW d \in Dispatchers, NEW s \in batch[d],
           InWork(d, s), stage[d] = "sending", NEW accepted \in BOOLEAN,
           success' = [success EXCEPT ![d] = accepted],
           stage' = [stage EXCEPT ![d] = "logging"],
           batch' = batch, created' = created, NEW r \in Records
    PROVE  /\ Cardinality(Unlogged(r)') = Cardinality(Unlogged(r))
           /\ accepted /\ r = s.id =>
                  Cardinality(Undelivered(r)) = Cardinality(Undelivered(r)') + 1
           /\ ~ (accepted /\ r = s.id) =>
                  Cardinality(Undelivered(r)) = Cardinality(Undelivered(r)')
  <1>0. stage'[d] = "logging" /\ (success'[d] <=> accepted) /\ s.from \in {"pending", "failed"}
    BY SnapshotFields DEF TypeOK
  <1>1. ASSUME NEW e \in Dispatchers, e # d, NEW g
        PROVE  /\ AwaitsLog(e, g, r)' <=> AwaitsLog(e, g, r)
               /\ AwaitsDelivery(e, g, r)' <=> AwaitsDelivery(e, g, r)
    <2>1. batch'[e] = batch[e] /\ stage'[e] = stage[e] /\ success'[e] = success[e]
      BY <1>1 DEF TypeOK
    <2> QED
      BY <2>1, OthersAwait
  <1>2. ASSUME NEW g
        PROVE  /\ AwaitsLog(d, g, r)' <=> AwaitsLog(d, g, r)
               /\ AwaitsDelivery(d, g, r) <=> Has(d, g, r)
               /\ AwaitsDelivery(d, g, r)'
                      <=> Has(d, g, r) /\ ~ (accepted /\ g = s.from /\ r = s.id)
    <2>1. AwaitsLog(d, g, r)' <=> AwaitsLog(d, g, r)
      BY <1>0 DEF AwaitsLog
    <2>2. AwaitsDelivery(d, g, r) <=> Has(d, g, r)
      BY ReaderAwaits DEF Has
    <2>3. CASE accepted
      BY <1>0, <2>1, <2>2, <2>3, TurnAwaitsNext
    <2>4. CASE ~ accepted
      BY <1>0, <2>1, <2>2, <2>4, TurnAwaitsNext
    <2> QED
      BY <2>3, <2>4
  <1>3. Unlogged(r)' = Unlogged(r)
    <2>1. ASSUME NEW e \in Dispatchers, NEW g \in {"pending", "failed"}
          PROVE  <<e, g>> \in Unlogged(r)' <=> <<e, g>> \in Unlogged(r)
      BY <1>1, <1>2, InLists
    <2> QED
      BY <2>1, AwaitingTypes, SameLists
  <1>4. /\ accepted /\ r = s.id =>
               <<d, s.from>> \in Undelivered(r) /\ <<d, s.from>> \notin Undelivered(r)'
        /\ \A e \in Dispatchers, g \in {"pending", "failed"} :
               ~ (accepted /\ r = s.id) \/ e # d \/ g # s.from =>
                   (<<e, g>> \in Undelivered(r) <=> <<e, g>> \in Undelivered(r)')
    <2>1. accepted /\ r = s.id =>
              <<d, s.from>> \in Undelivered(r) /\ <<d, s.from>> \notin Undelivered(r)'
      BY <1>0, <1>2, InLists DEF Has
    <2>2. ASSUME NEW e \in Dispatchers, NEW g \in {"pending", "failed"},
                 ~ (accepted /\ r = s.id) \/ e # d \/ g # s.from
          PROVE  <<e, g>> \in Undelivered(r) <=> <<e, g>> \in Undelivered(r)'
      <3>1. CASE e # d
        BY <1>1, <3>1, InLists
      <3>2. CASE e = d
        BY <1>2, <2>2, <3>2, InLists
      <3> QED
        BY <3>1, <3>2
    <2> QED
      BY <2>1, <2>2
  <1>5. CASE accepted /\ r = s.id
    <2> DEFINE A == Undelivered(r)'
               B == Undelivered(r)
    <2>1. A \in SUBSET Lists /\ B \in SUBSET Lists
      BY AwaitingTypes
    <2>2. /\ <<d, s.from>> \notin A /\ <<d, s.from>> \in B
          /\ \A e \in Dispatchers, g \in {"pending", "failed"} :
                 e # d \/ g # s.from => (<<e, g>> \in A <=> <<e, g>> \in B)
      BY <1>4, <1>5
    <2> HIDE DEF A, B
    <2>3. Cardinality(B) = Cardinality(A) + 1
      BY <1>0, <2>1, <2>2, OneMore
    <2> QED
      BY <1>3, <1>5, <2>3 DEF A, B
  <1>6. CASE ~ (accepted /\ r = s.id)
    <2>1. Undelivered(r)' = Undelivered(r)
      BY <1>4, <1>6, AwaitingTypes, SameLists
    <2> QED
      BY <1>3, <1>6, <2>1
  <1> QED
    BY <1>5, <1>6

LEMMA LogEffect ==
    ASSUME TypeOK, SnapshotsOfRows, ListsAreApart, NEW d \in Dispatchers, NEW s \in batch[d],
           InWork(d, s), stage[d] = "logging",
           stage' = [stage EXCEPT ![d] = "marking"],
           success' = success, batch' = batch, created' = created, NEW r \in Records
    PROVE  /\ r = s.id => Cardinality(Unlogged(r)) = Cardinality(Unlogged(r)') + 1
           /\ r # s.id => Cardinality(Unlogged(r)) = Cardinality(Unlogged(r)')
           /\ Cardinality(Undelivered(r)') = Cardinality(Undelivered(r))
  <1>0. stage'[d] = "marking" /\ s.from \in {"pending", "failed"}
    BY SnapshotFields DEF TypeOK
  <1>1. ASSUME NEW e \in Dispatchers, e # d, NEW g
        PROVE  /\ AwaitsLog(e, g, r)' <=> AwaitsLog(e, g, r)
               /\ AwaitsDelivery(e, g, r)' <=> AwaitsDelivery(e, g, r)
    <2>1. batch'[e] = batch[e] /\ stage'[e] = stage[e] /\ success'[e] = success[e]
      BY <1>1 DEF TypeOK
    <2> QED
      BY <2>1, OthersAwait
  <1>2. ASSUME NEW g
        PROVE  /\ AwaitsDelivery(d, g, r)' <=> AwaitsDelivery(d, g, r)
               /\ AwaitsLog(d, g, r) <=> Has(d, g, r)
               /\ AwaitsLog(d, g, r)' <=> Has(d, g, r) /\ ~ (g = s.from /\ r = s.id)
    <2>1. AwaitsLog(d, g, r) <=> Has(d, g, r)
      BY DEF AwaitsLog, Has
    <2>2. AwaitsLog(d, g, r)' <=> Has(d, g, r) /\ ~ (g = s.from /\ r = s.id)
      BY <1>0, TurnAwaitsNext
    <2>3. AwaitsDelivery(d, g, r)' <=> AwaitsDelivery(d, g, r)
      <3>1. CASE success[d]
        BY <1>0, <3>1, TurnAwaits, TurnAwaitsNext
      <3>2. CASE ~ success[d]
        BY <3>2, TurnAwaits, TurnAwaitsNext
      <3> QED
        BY <3>1, <3>2
    <2> QED
      BY <2>1, <2>2, <2>3
  <1>3. Undelivered(r)' = Undelivered(r)
    <2>1. ASSUME NEW e \in Dispatchers, NEW g \in {"pending", "failed"}
          PROVE  <<e, g>> \in Undelivered(r)' <=> <<e, g>> \in Undelivered(r)
      BY <1>1, <1>2, InLists
    <2> QED
      BY <2>1, AwaitingTypes, SameLists
  <1>4. ASSUME NEW e \in Dispatchers, NEW g \in {"pending", "failed"},
               r # s.id \/ e # d \/ g # s.from
        PROVE  <<e, g>> \in Unlogged(r)' <=> <<e, g>> \in Unlogged(r)
    BY <1>1, <1>2, <1>4, InLists
  <1>5. CASE r = s.id
    <2> DEFINE A == Unlogged(r)'
               B == Unlogged(r)
    <2>1. A \in SUBSET Lists /\ B \in SUBSET Lists
      BY AwaitingTypes
    <2>2. <<d, s.from>> \notin A /\ <<d, s.from>> \in B
      BY <1>0, <1>2, <1>5, InLists DEF Has
    <2>3. \A e \in Dispatchers, g \in {"pending", "failed"} :
              e # d \/ g # s.from => (<<e, g>> \in A <=> <<e, g>> \in B)
      BY <1>4
    <2> HIDE DEF A, B
    <2>4. Cardinality(B) = Cardinality(A) + 1
      BY <1>0, <2>1, <2>2, <2>3, OneMore
    <2> QED
      BY <1>3, <1>5, <2>4 DEF A, B
  <1>6. CASE r # s.id
    <2>1. Unlogged(r)' = Unlogged(r)
      BY <1>4, <1>6, AwaitingTypes, SameLists
    <2> QED
      BY <1>3, <1>6, <2>1
  <1> QED
    BY <1>5, <1>6

LEMMA MarkEffect ==
    ASSUME TypeOK, SnapshotsOfRows, ListsAreApart, NEW d \in Dispatchers, NEW s \in batch[d],
           InWork(d, s), stage[d] = "marking",
           stage' = [stage EXCEPT ![d] = StageFor(batch[d] \ {s})],
           batch' = [batch EXCEPT ![d] = @ \ {s}],
           success' = success, created' = created, NEW r \in Records
    PROVE  /\ Cardinality(Unlogged(r)') = Cardinality(Unlogged(r))
           /\ ~ success[d] /\ r = s.id =>
                  Cardinality(Undelivered(r)) = Cardinality(Undelivered(r)') + 1
           /\ success[d] \/ r # s.id =>
                  Cardinality(Undelivered(r)) = Cardinality(Undelivered(r)')
  <1>0. stage'[d] \in {"idle", "sending"} /\ batch'[d] = batch[d] \ {s}
        /\ s.from \in {"pending", "failed"}
    BY SnapshotFields DEF TypeOK, StageFor
  <1>1. ASSUME NEW e \in Dispatchers, e # d, NEW g
        PROVE  /\ AwaitsLog(e, g, r)' <=> AwaitsLog(e, g, r)
               /\ AwaitsDelivery(e, g, r)' <=> AwaitsDelivery(e, g, r)
    <2>1. batch'[e] = batch[e] /\ stage'[e] = stage[e] /\ success'[e] = success[e]
      BY <1>1 DEF TypeOK
    <2> QED
      BY <2>1, OthersAwait
  <1>2. ASSUME NEW g
        PROVE  /\ AwaitsLog(d, g, r)' <=> Has(d, g, r) /\ ~ (g = s.from /\ r = s.id)
               /\ AwaitsDelivery(d, g, r)' <=> Has(d, g, r) /\ ~ (g = s.from /\ r = s.id)
    <2>1. \A t \in batch[d] : t = s <=> t.id = s.id /\ t.from = s.from
      BY DEF ListsAreApart
    <2>2. (\E t \in batch'[d] : t.id = r /\ t.from = g)
              <=> Has(d, g, r) /\ ~ (g = s.from /\ r = s.id)
      BY <1>0, <2>1 DEF Has
    <2> QED
      BY <1>0, <2>2, ReaderAwaits
  <1>3. ASSUME NEW g
        PROVE  /\ AwaitsLog(d, g, r) <=> Has(d, g, r) /\ ~ (g = s.from /\ r = s.id)
               /\ success[d] => (AwaitsDelivery(d, g, r)
                                     <=> Has(d, g, r) /\ ~ (g = s.from /\ r = s.id))
               /\ ~ success[d] => (AwaitsDelivery(d, g, r) <=> Has(d, g, r))
    BY TurnAwaits
  <1>4. Unlogged(r)' = Unlogged(r)
    <2>1. ASSUME NEW e \in Dispatchers, NEW g \in {"pending", "failed"}
          PROVE  <<e, g>> \in Unlogged(r)' <=> <<e, g>> \in Unlogged(r)
      BY <1>1, <1>2, <1>3, InLists
    <2> QED
      BY <2>1, AwaitingTypes, SameLists
  <1>5. ASSUME NEW e \in Dispatchers, NEW g \in {"pending", "failed"},
               success[d] \/ r # s.id \/ e # d \/ g # s.from
        PROVE  <<e, g>> \in Undelivered(r)' <=> <<e, g>> \in Undelivered(r)
    <2>1. CASE e # d
      BY <1>1, <2>1, InLists
    <2>2. CASE e = d /\ success[d]
      BY <1>2, <1>3, <2>2, InLists
    <2>3. CASE e = d /\ ~ success[d]
      BY <1>2, <1>3, <1>5, <2>3, InLists
    <2> QED
      BY <2>1, <2>2, <2>3
  <1>6. CASE ~ success[d] /\ r = s.id
    <2> DEFINE A == Undelivered(r)'
               B == Undelivered(r)
    <2>1. A \in SUBSET Lists /\ B \in SUBSET Lists
      BY AwaitingTypes
    <2>2. <<d, s.from>> \notin A /\ <<d, s.from>> \in B
      BY <1>0, <1>2, <1>3, <1>6, InLists DEF Has
    <2>3. \A e \in Dispatchers, g \in {"pending", "failed"} :
              e # d \/ g # s.from => (<<e, g>> \in A <=> <<e, g>> \in B)
      BY <1>5
    <2> HIDE DEF A, B
    <2>4. Cardinality(B) = Cardinality(A) + 1
      BY <1>0, <2>1, <2>2, <2>3, OneMore
    <2> QED
      BY <1>4, <1>6, <2>4 DEF A, B
  <1>7. CASE success[d] \/ r # s.id
    <2>1. Undelivered(r)' = Undelivered(r)
      BY <1>5, <1>7, AwaitingTypes, SameLists
    <2> QED
      BY <1>4, <1>7, <2>1
  <1> QED
    BY <1>6, <1>7

-----------------------------------------------------------------------------
(* Snapshots under every action                                              *)

\* Snapshots of one list and one row are the same.
LEMMA SelectedOnce ==
    ASSUME TypeOK, NEW from \in {"pending", "failed"},
           NEW s \in Selected(from), NEW t \in Selected(from), s.id = t.id
    PROVE  s = t
  <1>1. s \in Snapshot /\ t \in Snapshot /\ s.from = t.from /\ s.attempt = t.attempt
    BY SelectedType
  <1> QED
    BY <1>1 DEF Snapshot

LEMMA ReadsShape ==
    ASSUME CountInv, NEW d \in Dispatchers, NEW from \in {"pending", "failed"}, Reads(d, from)
    PROVE  ListsAreApart' /\ Capped' /\ Uncontested'
  <1>0. TypeOK /\ SnapshotsOfRows /\ ListsAreApart /\ Capped /\ Uncontested
    BY DEF CountInv, IInv
  <1>1. /\ batch'[d] = batch[d] \cup Selected(from)
        /\ \A e \in Dispatchers \ {d} : batch'[e] = batch[e] /\ stage'[e] = stage[e]
        /\ status' = status /\ attemptCount' = attemptCount
    BY DEF Reads, rows
  <1>2. \A s \in Selected(from) :
            /\ s \in Snapshot /\ s.from = from /\ status[s.id] = from /\ s.attempt < MaxAttempts
    BY <1>0, SelectedType
  <1>3. ListsAreApart'
    <2>1. ASSUME NEW e \in Dispatchers, NEW s \in batch'[e], NEW t \in batch'[e],
                 s.id = t.id, s.from = t.from
          PROVE  s = t
      <3>1. CASE e # d \/ (s \in batch[d] /\ t \in batch[d])
        BY <1>0, <1>1, <2>1, <3>1 DEF ListsAreApart
      <3>2. CASE s \in Selected(from) /\ t \in Selected(from)
        BY <1>0, <2>1, <3>2, SelectedOnce
      <3>3. \A x \in batch[d] : x.from # from
        BY DEF Reads
      <3> QED
        BY <1>1, <1>2, <2>1, <3>1, <3>2, <3>3
    <2>2. ASSUME NEW e \in Dispatchers, stage'[e] = "reading", NEW s \in batch'[e]
          PROVE  s.from = "pending"
      <3>1. CASE e # d
        BY <1>0, <1>1, <2>2, <3>1 DEF ListsAreApart
      <3>2. CASE e = d
        BY <1>1, <1>2, <2>2, <3>2 DEF Reads
      <3> QED
        BY <3>1, <3>2
    <2> QED
      BY <2>1, <2>2 DEF ListsAreApart
  <1>4. Capped'
    <2>1. \A e \in Dispatchers : \A s \in batch'[e] : s.attempt < MaxAttempts
      BY <1>0, <1>1, <1>2 DEF Capped
    <2> QED
      BY <1>0, <1>1, <2>1 DEF Capped
  <1>5. Uncontested'
    <2> SUFFICES ASSUME NEW e \in Dispatchers, NEW s \in batch'[e], contested'[s.id] = 0
                 PROVE  Alone(e, s)'
      BY DEF Uncontested
    <2>0. s.id \in Records
      BY <1>0, <1>1, <1>2, SnapshotFields DEF Snapshot
    <2>1. /\ contested[s.id] = 0
          /\ Taken(from, s.id) => ~ Held(s.id)
      <3>1. contested'[s.id] = contested[s.id] + IF s.id \in Contests(from) THEN 1 ELSE 0
        BY <2>0 DEF Reads
      <3>2. contested[s.id] \in Nat
        BY <1>0, <2>0 DEF TypeOK
      <3>3. s.id \notin Contests(from) /\ contested[s.id] = 0
        BY <3>1, <3>2
      <3> QED
        BY <2>0, <3>3 DEF Contests, Taken
    <2>2. CASE ~ Taken(from, s.id)
      <3>1. \A f \in Dispatchers : \A t \in batch'[f] : t.id = s.id => t \in batch[f]
        BY <1>1, <2>2 DEF Taken
      <3>2. Alone(e, s)
        BY <1>0, <2>1, <3>1 DEF Uncontested
      <3> QED
        BY <1>1, <3>1, <3>2 DEF Alone
    <2>3. CASE Taken(from, s.id)
      <3>1. \A f \in Dispatchers : \A t \in batch[f] : t.id # s.id
        BY <2>1, <2>3 DEF Held
      <3>2. \A f \in Dispatchers : \A t \in batch'[f] :
                t.id = s.id => f = d /\ t \in Selected(from)
        BY <1>1, <3>1
      <3>3. e = d /\ s \in Selected(from)
        BY <3>2
      <3>4. \A f \in Dispatchers : \A t \in batch'[f] : t.id = s.id => f = d /\ t = s
        BY <1>0, <3>2, <3>3, SelectedOnce
      <3>5. status'[s.id] = s.from
        BY <1>1, <1>2, <3>3
      <3> QED
        BY <3>3, <3>4, <3>5 DEF Alone
    <2> QED
      BY <2>2, <2>3
  <1> QED
    BY <1>3, <1>4, <1>5

LEMMA NextShape ==
    ASSUME CountInv, [Next]_vars
    PROVE  ListsAreApart' /\ Capped' /\ Uncontested'
  <1>0. TypeOK /\ SnapshotsOfRows /\ ListsAreApart /\ Capped /\ Uncontested
    BY DEF CountInv, IInv
  <1>1. ASSUME NEW r \in Records, Enqueue(r)
        PROVE  ListsAreApart' /\ Capped' /\ Uncontested'
    <2>1. UNCHANGED <<attemptCount, batch, stage, contested>>
      BY <1>1 DEF Enqueue, ghosts
    <2>2. \A q \in Records : status[q] # "none" => status'[q] = status[q]
      BY <1>0, <1>1 DEF Enqueue, TypeOK
    <2>3. ListsAreApart' /\ Capped'
      BY <1>0, <2>1 DEF ListsAreApart, Capped
    <2>4. \A d \in Dispatchers : \A s \in batch[d] : status'[s.id] = status[s.id]
      BY <1>0, <2>2, SnapshotFields DEF SnapshotsOfRows
    <2>5. Uncontested'
      BY <1>0, <2>1, <2>4 DEF Uncontested, Alone
    <2> QED
      BY <2>3, <2>5
  <1>2. ASSUME NEW d \in Dispatchers, ReadPending(d) \/ ReadFailed(d)
        PROVE  ListsAreApart' /\ Capped' /\ Uncontested'
    BY <1>0, <1>2, ReadingReads, ReadsShape
  <1>3. ASSUME NEW d \in Dispatchers, Send(d) \/ LogAttempt(d)
        PROVE  ListsAreApart' /\ Capped' /\ Uncontested'
    <2>1. UNCHANGED <<rows, batch, contested>>
      BY <1>3 DEF Send, LogAttempt, ghosts
    <2>2. \A e \in Dispatchers : stage'[e] = "reading" => stage[e] = "reading"
      BY <1>0, <1>3 DEF Send, LogAttempt, TypeOK
    <2>3. ListsAreApart' /\ Capped'
      BY <1>0, <2>1, <2>2 DEF ListsAreApart, Capped, rows
    <2>4. Uncontested'
      BY <1>0, <2>1 DEF Uncontested, Alone, rows
    <2> QED
      BY <2>3, <2>4
  <1>4. ASSUME NEW d \in Dispatchers, Mark(d)
        PROVE  ListsAreApart' /\ Capped' /\ Uncontested'
    <2>1. PICK s \in batch[d] :
              /\ status' = [status EXCEPT ![s.id] = IF success[d] THEN "sent" ELSE "failed"]
              /\ attemptCount' = [attemptCount EXCEPT ![s.id] = s.attempt + 1]
              /\ batch' = [batch EXCEPT ![d] = @ \ {s}]
              /\ stage' = [stage EXCEPT ![d] = StageFor(batch[d] \ {s})]
              /\ UNCHANGED contested
      BY <1>4 DEF Mark, ghosts
    <2>2. s.id \in Records /\ s.attempt \in Nat /\ s.attempt < MaxAttempts
      BY <1>0, SnapshotFields DEF Capped
    <2>3. \A e \in Dispatchers : \A t \in batch'[e] : t \in batch[e]
      BY <1>0, <2>1 DEF TypeOK
    <2>4. \A e \in Dispatchers : stage'[e] = "reading" => stage[e] = "reading"
      BY <1>0, <2>1 DEF StageFor, TypeOK
    <2>5. ListsAreApart'
      BY <1>0, <2>3, <2>4 DEF ListsAreApart
    <2>6. Capped'
      <3>1. \A r \in Records : attemptCount'[r] <= MaxAttempts
        BY <1>0, <2>1, <2>2, LimitAssumption DEF Capped, TypeOK
      <3> QED
        BY <1>0, <2>3, <3>1 DEF Capped
    <2>7. ASSUME NEW e \in Dispatchers, NEW t \in batch'[e], contested'[t.id] = 0
          PROVE  Alone(e, t)'
      <3>1. t \in batch[e] /\ contested[t.id] = 0
        BY <2>1, <2>3, <2>7
      <3>2. Alone(e, t)
        BY <1>0, <3>1 DEF Uncontested
      <3>3. s \notin batch'[d]
        BY <1>0, <2>1 DEF TypeOK
      <3>4. t.id # s.id
        BY <2>7, <3>2, <3>3 DEF Alone
      <3>5. status'[t.id] = status[t.id]
        BY <1>0, <2>1, <2>2, <3>1, <3>4, SnapshotFields DEF TypeOK
      <3> QED
        BY <2>3, <3>2, <3>5 DEF Alone
    <2> QED
      BY <2>5, <2>6, <2>7 DEF Uncontested
  <1>5. CASE Restart
    <2>1. /\ \A d \in Dispatchers : batch'[d] = {}
          /\ attemptCount' = attemptCount
      BY <1>5 DEF Restart, rows
    <2> QED
      BY <1>0, <2>1 DEF ListsAreApart, Capped, Uncontested
  <1>6. CASE UNCHANGED vars
    <2>1. UNCHANGED <<status, attemptCount, batch, stage, contested>>
      BY <1>6 DEF vars, rows, ghosts
    <2>2. ListsAreApart' /\ Capped'
      BY <1>0, <2>1 DEF ListsAreApart, Capped
    <2>3. Uncontested'
      BY <1>0, <2>1 DEF Uncontested, Alone
    <2> QED
      BY <2>2, <2>3
  <1> QED
    BY <1>1, <1>2, <1>3, <1>4, <1>5, <1>6 DEF Next, Dispatch

-----------------------------------------------------------------------------
(* Counting under every action                                               *)

LEMMA CountsType ==
    ASSUME TypeOK, TypeOK', NEW r \in Records
    PROVE  /\ Tries(r) \in Nat /\ Tries(r)' \in Nat /\ history[r] <= Tries(r)
           /\ Due(r) \in Nat /\ Due(r)' \in Nat /\ delivered[r] <= Due(r)
           /\ Reasons(r) \in Nat /\ Reasons(r)' \in Nat
           /\ attemptCount[r] \in Nat /\ unconfirmed[r] \in Nat
           /\ attemptCount'[r] \in Nat /\ unconfirmed'[r] \in Nat
  <1>1. /\ history[r] \in Nat /\ history'[r] \in Nat
        /\ delivered[r] \in Nat /\ delivered'[r] \in Nat
        /\ contested[r] \in Nat /\ contested'[r] \in Nat
        /\ restarts \in Nat /\ restarts' \in Nat
        /\ attemptCount[r] \in Nat /\ unconfirmed[r] \in Nat
        /\ attemptCount'[r] \in Nat /\ unconfirmed'[r] \in Nat
    BY DEF TypeOK
  <1>2. /\ Cardinality(Unlogged(r)) \in Nat /\ Cardinality(Unlogged(r)') \in Nat
        /\ Cardinality(Undelivered(r)) \in Nat /\ Cardinality(Undelivered(r)') \in Nat
    BY AwaitingTypes
  <1> QED
    BY <1>1, <1>2 DEF Tries, Due, Reasons

\* What a step does to one row: nothing that counts, ...
Idles(r) ==
    /\ Tries(r)' <= Tries(r) /\ Due(r)' <= Due(r)
    /\ Reasons(r)' = Reasons(r) /\ Held(r)' = Held(r)
    /\ UNCHANGED <<attemptCount[r], unconfirmed[r]>>
    /\ status'[r] # "sent" => status[r] # "sent"

\* ... another snapshot of it, contested where one was held, ...
TakenOnce(r) ==
    /\ Tries(r)' = Tries(r) + 1 /\ Due(r)' = Due(r) + 1 /\ Held(r)'
    /\ Held(r) => Reasons(r)' = Reasons(r) + 1
    /\ ~ Held(r) => Reasons(r)' = Reasons(r) /\ status[r] # "sent"
    /\ UNCHANGED <<attemptCount[r], unconfirmed[r]>>

\* ... a delivery that was reported as an error, ...
Misreported(r) ==
    /\ Tries(r)' = Tries(r) /\ Due(r)' = Due(r) + 1 /\ unconfirmed'[r] = unconfirmed[r] + 1
    /\ Reasons(r)' = Reasons(r) /\ Held(r)' = Held(r)
    /\ UNCHANGED <<attemptCount[r], status[r]>>

\* ... the write-back of a snapshot with this attempt, ...
MarkedOnce(r, attempt) ==
    /\ Tries(r)' = Tries(r) /\ Tries(r) <= attempt + Reasons(r) + 1
    /\ attemptCount'[r] = attempt + 1
    /\ (Due(r)' = Due(r) /\ status'[r] = "sent") \/ Due(r)' + 1 = Due(r)
    /\ Reasons(r)' = Reasons(r)
    /\ UNCHANGED unconfirmed[r]

\* ... or a restart.
Dropped(r) ==
    /\ Tries(r)' <= Tries(r) /\ Due(r)' <= Due(r) /\ Reasons(r)' = Reasons(r) + 1
    /\ UNCHANGED <<attemptCount[r], unconfirmed[r]>>

\* Each of these keeps the two counts of the row.
RowCounted(r) ==
    /\ Tries(r) <= attemptCount[r] + Reasons(r) + 1
    /\ ~ Held(r) => Tries(r) <= attemptCount[r] + Reasons(r)
    /\ Due(r) <= unconfirmed[r] + Reasons(r) + 1
    /\ ~ Held(r) /\ status[r] # "sent" => Due(r) <= unconfirmed[r] + Reasons(r)

LEMMA RowSteps ==
    ASSUME TypeOK, TypeOK', NEW r \in Records, RowCounted(r)
    PROVE  /\ Idles(r) => RowCounted(r)'
           /\ TakenOnce(r) => RowCounted(r)'
           /\ Misreported(r) => RowCounted(r)'
           /\ \A n \in Nat : MarkedOnce(r, n) => RowCounted(r)'
           /\ Dropped(r) => RowCounted(r)'
  <1>1. /\ Tries(r) \in Nat /\ Tries(r)' \in Nat
        /\ Due(r) \in Nat /\ Due(r)' \in Nat
        /\ Reasons(r) \in Nat /\ Reasons(r)' \in Nat
        /\ attemptCount[r] \in Nat /\ unconfirmed[r] \in Nat
    BY CountsType
  <1>2. ASSUME Idles(r) PROVE RowCounted(r)'
    BY <1>1, <1>2 DEF Idles, RowCounted
  <1>3. ASSUME TakenOnce(r) PROVE RowCounted(r)'
    BY <1>1, <1>3 DEF TakenOnce, RowCounted
  <1>4. ASSUME Misreported(r) PROVE RowCounted(r)'
    BY <1>1, <1>4 DEF Misreported, RowCounted
  <1>5. ASSUME NEW n \in Nat, MarkedOnce(r, n) PROVE RowCounted(r)'
    BY <1>1, <1>5 DEF MarkedOnce, RowCounted
  <1>6. ASSUME Dropped(r) PROVE RowCounted(r)'
    BY <1>1, <1>6 DEF Dropped, RowCounted
  <1> QED
    BY <1>2, <1>3, <1>4, <1>5, <1>6

\* Every step does one of these to every row.
RowStep(r) ==
    \/ Idles(r)
    \/ TakenOnce(r)
    \/ Misreported(r)
    \/ \E n \in Nat : MarkedOnce(r, n)
    \/ Dropped(r)

LEMMA QuietEffect ==
    ASSUME TypeOK, SnapshotsOfRows, batch' = batch, stage' = stage, success' = success,
           \A q \in Records : status[q] # "none" => created'[q] = created[q],
           NEW r \in Records
    PROVE  Unlogged(r)' = Unlogged(r) /\ Undelivered(r)' = Undelivered(r)
  <1>1. ASSUME NEW e \in Dispatchers, NEW g \in {"pending", "failed"}
        PROVE  /\ <<e, g>> \in Unlogged(r)' <=> <<e, g>> \in Unlogged(r)
               /\ <<e, g>> \in Undelivered(r)' <=> <<e, g>> \in Undelivered(r)
    <2>1. /\ AwaitsLog(e, g, r)' <=> AwaitsLog(e, g, r)
          /\ AwaitsDelivery(e, g, r)' <=> AwaitsDelivery(e, g, r)
      BY OthersAwait
    <2> QED
      BY <2>1, InLists
  <1> QED
    BY <1>1, AwaitingTypes, SameLists

LEMMA ReadsRow ==
    ASSUME CountInv, NEW d \in Dispatchers,
           NEW from \in {"pending", "failed"}, Reads(d, from), NEW r \in Records
    PROVE  Idles(r) \/ TakenOnce(r)
  <1>0. TypeOK /\ SnapshotsOfRows
    BY DEF CountInv, IInv
  <1>1. /\ UNCHANGED <<status, attemptCount, history, delivered, unconfirmed, restarts>>
        /\ contested'[r] = contested[r] + IF r \in Contests(from) THEN 1 ELSE 0
        /\ batch'[d] = batch[d] \cup Selected(from)
        /\ \A e \in Dispatchers \ {d} : batch'[e] = batch[e]
    BY DEF Reads, rows
  <1>2. /\ history[r] \in Nat /\ delivered[r] \in Nat /\ contested[r] \in Nat /\ restarts \in Nat
        /\ Cardinality(Unlogged(r)) \in Nat /\ Cardinality(Undelivered(r)) \in Nat
    BY <1>0, AwaitingTypes DEF TypeOK
  <1>3. CASE Taken(from, r)
    <2>1. /\ Cardinality(Unlogged(r)') = Cardinality(Unlogged(r)) + 1
          /\ Cardinality(Undelivered(r)') = Cardinality(Undelivered(r)) + 1
      BY <1>0, <1>3, ReadEffect
    <2>2. PICK s \in Selected(from) : s.id = r
      BY <1>3 DEF Taken
    <2>3. Held(r)' /\ status[r] # "sent"
      <3>1. s \in batch'[d] /\ status[r] = from
        BY <1>0, <1>1, <2>2, SelectedType
      <3> QED
        BY <2>2, <3>1 DEF Held
    <2>4. r \in Contests(from) <=> Held(r)
      BY <2>2 DEF Contests
    <2>5. Tries(r)' = Tries(r) + 1 /\ Due(r)' = Due(r) + 1
      BY <1>1, <1>2, <2>1 DEF Tries, Due
    <2>6. /\ Held(r) => Reasons(r)' = Reasons(r) + 1
          /\ ~ Held(r) => Reasons(r)' = Reasons(r)
      BY <1>1, <1>2, <2>4 DEF Reasons
    <2> QED
      BY <1>1, <2>3, <2>5, <2>6 DEF TakenOnce
  <1>4. CASE ~ Taken(from, r)
    <2>1. Unlogged(r)' = Unlogged(r) /\ Undelivered(r)' = Undelivered(r)
      BY <1>0, <1>4, ReadEffect
    <2>2. r \notin Contests(from) /\ \A s \in Selected(from) : s.id # r
      BY <1>4 DEF Contests, Taken
    <2>3. Held(r)' = Held(r)
      BY <1>1, <2>2 DEF Held
    <2>4. Tries(r)' = Tries(r) /\ Due(r)' = Due(r) /\ Reasons(r)' = Reasons(r)
      BY <1>1, <1>2, <2>1, <2>2 DEF Tries, Due, Reasons
    <2>5. Tries(r) \in Nat /\ Due(r) \in Nat
      BY <1>2 DEF Tries, Due
    <2> QED
      BY <1>1, <2>3, <2>4, <2>5 DEF Idles
  <1> QED
    BY <1>3, <1>4

LEMMA SendRow ==
    ASSUME CountInv, NEW d \in Dispatchers, Send(d), NEW r \in Records
    PROVE  Idles(r) \/ Misreported(r)
  <1>0. TypeOK /\ SnapshotsOfRows /\ ListsAreApart
    BY DEF CountInv, IInv
  <1>1. PICK s \in batch[d], outcome \in Outcomes :
            /\ stage[d] = "sending" /\ InWork(d, s)
            /\ delivered' = [delivered EXCEPT ![s.id] = IF outcome = "error" THEN @ ELSE @ + 1]
            /\ unconfirmed' = [unconfirmed EXCEPT ![s.id] =
                                  IF outcome = "timeout" THEN @ + 1 ELSE @]
            /\ success' = [success EXCEPT ![d] = Reported(outcome)]
            /\ stage' = [stage EXCEPT ![d] = "logging"]
            /\ UNCHANGED <<rows, history, batch, restarts, contested>>
    BY DEF Send
  <1>2. outcome \in {"ok", "error", "timeout"} /\ Reported(outcome) \in BOOLEAN
    BY OutcomesAssumption DEF AllOutcomes, Reported
  <1>3. /\ Cardinality(Unlogged(r)') = Cardinality(Unlogged(r))
        /\ Reported(outcome) /\ r = s.id =>
               Cardinality(Undelivered(r)) = Cardinality(Undelivered(r)') + 1
        /\ ~ (Reported(outcome) /\ r = s.id) =>
               Cardinality(Undelivered(r)) = Cardinality(Undelivered(r)')
    BY <1>0, <1>1, <1>2, SendEffect DEF rows
  <1>4. /\ history[r] \in Nat /\ delivered[r] \in Nat /\ unconfirmed[r] \in Nat
        /\ Cardinality(Unlogged(r)) \in Nat /\ Cardinality(Undelivered(r)) \in Nat
        /\ Cardinality(Undelivered(r)') \in Nat
    BY <1>0, AwaitingTypes DEF TypeOK
  <1>5. Tries(r)' = Tries(r) /\ Tries(r) \in Nat /\ Reasons(r)' = Reasons(r)
    BY <1>1, <1>3, <1>4 DEF Tries, Reasons
  <1>6. Held(r)' = Held(r) /\ UNCHANGED <<attemptCount[r], status[r]>>
    BY <1>1 DEF Held, rows
  <1>7. CASE outcome = "timeout" /\ r = s.id
    <2>1. ~ Reported(outcome)
      BY <1>7 DEF Reported
    <2>2. delivered'[r] = delivered[r] + 1 /\ unconfirmed'[r] = unconfirmed[r] + 1
      BY <1>0, <1>1, <1>7 DEF TypeOK
    <2>3. Due(r)' = Due(r) + 1
      BY <1>3, <1>4, <2>1, <2>2 DEF Due
    <2> QED
      BY <1>5, <1>6, <2>2, <2>3 DEF Misreported
  <1>8. CASE ~ (outcome = "timeout" /\ r = s.id)
    <2>1. unconfirmed'[r] = unconfirmed[r]
      BY <1>0, <1>1, <1>8 DEF TypeOK
    <2>2. Due(r)' = Due(r) /\ Due(r) \in Nat
      <3>1. CASE outcome = "ok" /\ r = s.id
        <4>1. Reported(outcome) /\ delivered'[r] = delivered[r] + 1
          BY <1>0, <1>1, <3>1 DEF TypeOK, Reported
        <4> QED
          BY <1>3, <1>4, <3>1, <4>1 DEF Due
      <3>2. CASE outcome = "error" \/ r # s.id
        <4>1. delivered'[r] = delivered[r]
          BY <1>0, <1>1, <3>2 DEF TypeOK
        <4>2. ~ (Reported(outcome) /\ r = s.id)
          BY <3>2 DEF Reported
        <4> QED
          BY <1>3, <1>4, <4>1, <4>2 DEF Due
      <3> QED
        BY <1>2, <1>8, <3>1, <3>2
    <2> QED
      BY <1>5, <1>6, <2>1, <2>2 DEF Idles
  <1> QED
    BY <1>7, <1>8

LEMMA LogRow ==
    ASSUME CountInv, NEW d \in Dispatchers, LogAttempt(d), NEW r \in Records
    PROVE  Idles(r)
  <1>0. TypeOK /\ SnapshotsOfRows /\ ListsAreApart
    BY DEF CountInv, IInv
  <1>1. PICK s \in batch[d] :
            /\ stage[d] = "logging" /\ InWork(d, s)
            /\ history' = [history EXCEPT ![s.id] = @ + 1]
            /\ stage' = [stage EXCEPT ![d] = "marking"]
            /\ UNCHANGED <<rows, delivered, batch, success, restarts, contested, unconfirmed>>
    BY DEF LogAttempt, ghosts
  <1>2. /\ r = s.id => Cardinality(Unlogged(r)) = Cardinality(Unlogged(r)') + 1
        /\ r # s.id => Cardinality(Unlogged(r)) = Cardinality(Unlogged(r)')
        /\ Cardinality(Undelivered(r)') = Cardinality(Undelivered(r))
    BY <1>0, <1>1, LogEffect DEF rows
  <1>3. /\ history[r] \in Nat /\ delivered[r] \in Nat
        /\ Cardinality(Unlogged(r)) \in Nat /\ Cardinality(Undelivered(r)) \in Nat
        /\ Cardinality(Unlogged(r)') \in Nat
    BY <1>0, AwaitingTypes DEF TypeOK
  <1>4. /\ r = s.id => history'[r] = history[r] + 1
        /\ r # s.id => history'[r] = history[r]
    BY <1>0, <1>1 DEF TypeOK
  <1>5. Tries(r)' = Tries(r) /\ Tries(r) \in Nat
    BY <1>2, <1>3, <1>4 DEF Tries
  <1>6. Due(r)' = Due(r) /\ Due(r) \in Nat
    BY <1>1, <1>2, <1>3 DEF Due
  <1>7. /\ Held(r)' = Held(r) /\ Reasons(r)' = Reasons(r)
        /\ UNCHANGED <<attemptCount[r], unconfirmed[r], status[r]>>
    BY <1>1 DEF Held, Reasons, rows
  <1> QED
    BY <1>5, <1>6, <1>7 DEF Idles

LEMMA MarkRow ==
    ASSUME CountInv, NEW d \in Dispatchers, Mark(d), NEW r \in Records
    PROVE  Idles(r) \/ \E n \in Nat : MarkedOnce(r, n)
  <1>0. TypeOK /\ SnapshotsOfRows /\ ListsAreApart /\ AttemptsCounted
    BY DEF CountInv, IInv
  <1>1. PICK s \in batch[d] :
            /\ stage[d] = "marking" /\ InWork(d, s)
            /\ status' = [status EXCEPT ![s.id] = IF success[d] THEN "sent" ELSE "failed"]
            /\ attemptCount' = [attemptCount EXCEPT ![s.id] = s.attempt + 1]
            /\ batch' = [batch EXCEPT ![d] = @ \ {s}]
            /\ stage' = [stage EXCEPT ![d] = StageFor(batch[d] \ {s})]
            /\ UNCHANGED <<created, history, delivered, success, restarts, contested, unconfirmed>>
    BY DEF Mark, ghosts
  <1>2. /\ Cardinality(Unlogged(r)') = Cardinality(Unlogged(r))
        /\ ~ success[d] /\ r = s.id =>
               Cardinality(Undelivered(r)) = Cardinality(Undelivered(r)') + 1
        /\ success[d] \/ r # s.id =>
               Cardinality(Undelivered(r)) = Cardinality(Undelivered(r)')
    BY <1>0, <1>1, MarkEffect
  <1>3. /\ history[r] \in Nat /\ delivered[r] \in Nat
        /\ Cardinality(Unlogged(r)) \in Nat /\ Cardinality(Undelivered(r)) \in Nat
        /\ Cardinality(Undelivered(r)') \in Nat
    BY <1>0, AwaitingTypes DEF TypeOK
  <1>4. s.id \in Records /\ s.attempt \in Nat
    BY <1>0, SnapshotFields
  <1>5. Tries(r)' = Tries(r) /\ Tries(r) \in Nat /\ Reasons(r)' = Reasons(r)
    BY <1>1, <1>2, <1>3 DEF Tries, Reasons
  <1>6. CASE r = s.id
    <2>1. Tries(r) <= s.attempt + Reasons(r) + 1
      BY <1>0, <1>6 DEF AttemptsCounted
    <2>2. attemptCount'[r] = s.attempt + 1 /\ UNCHANGED unconfirmed[r]
      BY <1>0, <1>1, <1>4, <1>6 DEF TypeOK
    <2>3. (Due(r)' = Due(r) /\ status'[r] = "sent") \/ Due(r)' + 1 = Due(r)
      <3>1. CASE success[d]
        <4>1. status'[r] = "sent"
          BY <1>0, <1>1, <1>4, <1>6, <3>1 DEF TypeOK
        <4>2. Due(r)' = Due(r)
          BY <1>1, <1>2, <1>3, <3>1 DEF Due
        <4> QED
          BY <4>1, <4>2
      <3>2. CASE ~ success[d]
        <4>1. Cardinality(Undelivered(r)) = Cardinality(Undelivered(r)') + 1
          BY <1>2, <1>6, <3>2
        <4>2. Due(r)' + 1 = Due(r)
          BY <1>1, <1>3, <4>1 DEF Due
        <4> QED
          BY <4>2
      <3> QED
        BY <3>1, <3>2
    <2>4. MarkedOnce(r, s.attempt)
      BY <1>5, <2>1, <2>2, <2>3 DEF MarkedOnce
    <2> QED
      BY <1>4, <2>4
  <1>7. CASE r # s.id
    <2>1. UNCHANGED <<status[r], attemptCount[r], unconfirmed[r]>>
      BY <1>0, <1>1, <1>7 DEF TypeOK
    <2>2. Held(r)' = Held(r)
      <3>1. \A e \in Dispatchers : \A t : t.id = r => (t \in batch'[e] <=> t \in batch[e])
        BY <1>0, <1>1, <1>7 DEF TypeOK
      <3> QED
        BY <3>1 DEF Held
    <2>3. Due(r)' = Due(r) /\ Due(r) \in Nat
      BY <1>1, <1>2, <1>3, <1>7 DEF Due
    <2> QED
      BY <1>5, <2>1, <2>2, <2>3 DEF Idles
  <1> QED
    BY <1>6, <1>7

LEMMA RestartRow ==
    ASSUME TypeOK, TypeOK', Restart, NEW r \in Records
    PROVE  Dropped(r)
  <1>1. /\ UNCHANGED <<attemptCount, history, delivered, contested, unconfirmed>>
        /\ restarts' = restarts + 1 /\ \A d \in Dispatchers : batch'[d] = {}
    BY DEF Restart, rows, ghosts
  <1>2. Unlogged(r)' = {} /\ Undelivered(r)' = {}
    <2>1. ASSUME NEW e \in Dispatchers, NEW g \in {"pending", "failed"}
          PROVE  <<e, g>> \notin Unlogged(r)' /\ <<e, g>> \notin Undelivered(r)'
      BY <1>1, InLists DEF AwaitsLog, AwaitsDelivery
    <2>2. Unlogged(r)' = {}
      <3> DEFINE A == Unlogged(r)'
      <3>1. A \in SUBSET Lists /\ {} \in SUBSET Lists
        BY AwaitingTypes
      <3>2. \A e \in Dispatchers, g \in {"pending", "failed"} :
                <<e, g>> \in A <=> <<e, g>> \in {}
        BY <2>1
      <3> HIDE DEF A
      <3>3. A = {}
        BY <3>1, <3>2, SameLists
      <3> QED
        BY <3>3 DEF A
    <2>3. Undelivered(r)' = {}
      <3> DEFINE A == Undelivered(r)'
      <3>1. A \in SUBSET Lists /\ {} \in SUBSET Lists
        BY AwaitingTypes
      <3>2. \A e \in Dispatchers, g \in {"pending", "failed"} :
                <<e, g>> \in A <=> <<e, g>> \in {}
        BY <2>1
      <3> HIDE DEF A
      <3>3. A = {}
        BY <3>1, <3>2, SameLists
      <3> QED
        BY <3>3 DEF A
    <2> QED
      BY <2>2, <2>3
  <1>3. Cardinality(Unlogged(r)') = 0 /\ Cardinality(Undelivered(r)') = 0
    BY <1>2, FS_EmptySet
  <1>4. /\ history[r] \in Nat /\ delivered[r] \in Nat /\ contested[r] \in Nat /\ restarts \in Nat
        /\ Cardinality(Unlogged(r)) \in Nat /\ Cardinality(Undelivered(r)) \in Nat
    BY AwaitingTypes DEF TypeOK
  <1>5. Tries(r)' <= Tries(r) /\ Due(r)' <= Due(r)
    BY <1>1, <1>3, <1>4 DEF Tries, Due
  <1>6. Reasons(r)' = Reasons(r) + 1
    BY <1>1, <1>4 DEF Reasons
  <1> QED
    BY <1>1, <1>5, <1>6 DEF Dropped

LEMMA QuietRow ==
    ASSUME TypeOK, SnapshotsOfRows, NEW r \in Records,
           UNCHANGED <<attemptCount, history, delivered, stage, batch, success, restarts,
                       contested, unconfirmed>>,
           \A q \in Records : status[q] # "none" => created'[q] = created[q],
           status[r] = "sent" => status'[r] = "sent"
    PROVE  Idles(r)
  <1>1. Unlogged(r)' = Unlogged(r) /\ Undelivered(r)' = Undelivered(r)
    BY QuietEffect
  <1>2. /\ history[r] \in Nat /\ delivered[r] \in Nat
        /\ Cardinality(Unlogged(r)) \in Nat /\ Cardinality(Undelivered(r)) \in Nat
    BY AwaitingTypes DEF TypeOK
  <1>3. Tries(r)' = Tries(r) /\ Tries(r) \in Nat /\ Due(r)' = Due(r) /\ Due(r) \in Nat
    BY <1>1, <1>2 DEF Tries, Due
  <1>4. Reasons(r)' = Reasons(r) /\ Held(r)' = Held(r)
    BY DEF Reasons, Held
  <1> QED
    BY <1>3, <1>4 DEF Idles

LEMMA NextRow ==
    ASSUME CountInv, TypeOK', [Next]_vars, NEW r \in Records
    PROVE  RowStep(r)
  <1>0. TypeOK /\ SnapshotsOfRows /\ ListsAreApart
    BY DEF CountInv, IInv
  <1>1. ASSUME NEW q \in Records, Enqueue(q)
        PROVE  RowStep(r)
    <2>1. UNCHANGED <<attemptCount, history, delivered, stage, batch, success, restarts,
                      contested, unconfirmed>>
      BY <1>1 DEF Enqueue, ghosts
    <2>2. /\ \A p \in Records : status[p] # "none" => created'[p] = created[p]
          /\ status[r] = "sent" => status'[r] = "sent"
      BY <1>0, <1>1 DEF Enqueue, TypeOK
    <2> QED
      BY <1>0, <2>1, <2>2, QuietRow DEF RowStep
  <1>2. ASSUME NEW d \in Dispatchers, ReadPending(d) \/ ReadFailed(d)
        PROVE  RowStep(r)
    BY <1>0, <1>2, ReadingReads, ReadsRow DEF RowStep
  <1>3. ASSUME NEW d \in Dispatchers, Send(d)
        PROVE  RowStep(r)
    BY <1>3, SendRow DEF RowStep
  <1>4. ASSUME NEW d \in Dispatchers, LogAttempt(d)
        PROVE  RowStep(r)
    BY <1>4, LogRow DEF RowStep
  <1>5. ASSUME NEW d \in Dispatchers, Mark(d)
        PROVE  RowStep(r)
    BY <1>5, MarkRow DEF RowStep
  <1>6. CASE Restart
    BY <1>0, <1>6, RestartRow DEF RowStep
  <1>7. CASE UNCHANGED vars
    <2>1. UNCHANGED <<status, created, attemptCount, history, delivered, stage, batch, success,
                      restarts, contested, unconfirmed>>
      BY <1>7 DEF vars, rows, ghosts
    <2>2. Idles(r)
      BY <1>0, <2>1, QuietRow
    <2> QED
      BY <2>2 DEF RowStep
  <1> QED
    BY <1>1, <1>2, <1>3, <1>4, <1>5, <1>6, <1>7 DEF Next, Dispatch

\* A step that leaves a snapshot where it was counts no more in it than it gives
\* reasons for.
LEMMA SnapshotKept ==
    ASSUME TypeOK, TypeOK', NEW r \in Records, RowStep(r), Held(r), NEW n \in Nat,
           Tries(r) <= n + Reasons(r) + 1
    PROVE  Tries(r)' <= n + Reasons(r)' + 1
  <1>1. /\ Tries(r) \in Nat /\ Tries(r)' \in Nat
        /\ Reasons(r) \in Nat /\ Reasons(r)' \in Nat
    BY CountsType
  <1>2. CASE Idles(r)
    BY <1>1, <1>2 DEF Idles
  <1>3. CASE TakenOnce(r)
    BY <1>1, <1>3 DEF TakenOnce
  <1>4. CASE Misreported(r)
    BY <1>1, <1>4 DEF Misreported
  <1>5. ASSUME NEW k \in Nat, MarkedOnce(r, k)
        PROVE  Tries(r)' <= n + Reasons(r)' + 1
    BY <1>1, <1>5 DEF MarkedOnce
  <1>6. CASE Dropped(r)
    BY <1>1, <1>6 DEF Dropped
  <1> QED
    BY <1>2, <1>3, <1>4, <1>5, <1>6 DEF RowStep

\* A snapshot is an old one, or it is true of its row.
LEMMA SnapshotOrigin ==
    ASSUME CountInv, [Next]_vars, NEW d \in Dispatchers, NEW s \in batch'[d]
    PROVE  \/ s \in batch[d]
           \/ s.id \in Records /\ s.attempt = attemptCount'[s.id]
  <1>0. TypeOK /\ ListsAreApart
    BY DEF CountInv, IInv
  <1>1. ASSUME NEW e \in Dispatchers, NEW from \in {"pending", "failed"}, Reads(e, from)
        PROVE  s \in batch[d] \/ (s.id \in Records /\ s.attempt = attemptCount'[s.id])
    <2>1. s \in batch[d] \/ s \in Selected(from)
      BY <1>1 DEF Reads
    <2>2. s \in Selected(from) => s.id \in Records /\ s.attempt = attemptCount[s.id]
      BY <1>0, SelectedType DEF Snapshot
    <2>3. attemptCount' = attemptCount
      BY <1>1 DEF Reads, rows
    <2> QED
      BY <2>1, <2>2, <2>3
  <1>2. ASSUME NEW e \in Dispatchers, ReadPending(e) \/ ReadFailed(e)
        PROVE  s \in batch[d] \/ (s.id \in Records /\ s.attempt = attemptCount'[s.id])
    BY <1>0, <1>1, <1>2, ReadingReads
  <1>3. ASSUME NEW e \in Dispatchers, Send(e) \/ LogAttempt(e) \/ Mark(e)
        PROVE  s \in batch[d]
    <2>1. CASE Send(e) \/ LogAttempt(e)
      BY <2>1 DEF Send, LogAttempt
    <2>2. CASE Mark(e)
      <3>1. PICK t : batch' = [batch EXCEPT ![e] = @ \ {t}]
        BY <2>2 DEF Mark
      <3> QED
        BY <1>0, <3>1 DEF TypeOK
    <2> QED
      BY <1>3, <2>1, <2>2
  <1>4. ASSUME NEW r \in Records, Enqueue(r)
        PROVE  s \in batch[d]
    BY <1>4 DEF Enqueue
  <1>5. CASE Restart
    BY <1>5 DEF Restart
  <1>6. CASE UNCHANGED vars
    BY <1>6 DEF vars
  <1> QED
    BY <1>2, <1>3, <1>4, <1>5, <1>6 DEF Next, Dispatch

LEMMA NextCounted ==
    ASSUME CountInv, TypeOK', [Next]_vars
    PROVE  AttemptsCounted' /\ DeliveriesCounted'
  <1>0. TypeOK /\ AttemptsCounted /\ DeliveriesCounted
    BY DEF CountInv, IInv
  <1>1. ASSUME NEW r \in Records
        PROVE  RowCounted(r)'
    <2>1. RowCounted(r)
      BY <1>0 DEF AttemptsCounted, DeliveriesCounted, RowCounted
    <2>2. RowStep(r)
      BY NextRow
    <2> QED
      BY <1>0, <2>1, <2>2, RowSteps DEF RowStep
  <1>2. ASSUME NEW d \in Dispatchers, NEW s \in batch'[d]
        PROVE  Tries(s.id)' <= s.attempt + Reasons(s.id)' + 1
    <2>1. CASE s \in batch[d]
      <3>1. s.id \in Records /\ s.attempt \in Nat /\ Held(s.id)
        BY <1>0, <2>1, SnapshotFields DEF Held
      <3>2. Tries(s.id) <= s.attempt + Reasons(s.id) + 1
        BY <1>0, <2>1 DEF AttemptsCounted
      <3>3. RowStep(s.id)
        BY <3>1, NextRow
      <3> QED
        BY <1>0, <3>1, <3>2, <3>3, SnapshotKept
    <2>2. CASE s.id \in Records /\ s.attempt = attemptCount'[s.id]
      BY <1>1, <2>2 DEF RowCounted
    <2> QED
      BY <2>1, <2>2, SnapshotOrigin
  <1>3. AttemptsCounted'
    BY <1>1, <1>2 DEF AttemptsCounted, RowCounted
  <1>4. DeliveriesCounted'
    BY <1>1 DEF DeliveriesCounted, RowCounted
  <1> QED
    BY <1>3, <1>4

LEMMA InitCounted == Init => CountInv
  <1> SUFFICES ASSUME Init PROVE CountInv
    OBVIOUS
  <1>1. IInv /\ TypeOK
    BY InitIInv DEF IInv
  <1>2. \A d \in Dispatchers : batch[d] = {} /\ stage[d] = "idle"
    BY DEF Init
  <1>3. ListsAreApart /\ Uncontested
    BY <1>2 DEF ListsAreApart, Uncontested
  <1>4. Capped
    BY <1>2, LimitAssumption DEF Capped, Init
  <1>5. ASSUME NEW r \in Records
        PROVE  RowCounted(r)
    <2>1. ASSUME NEW e \in Dispatchers, NEW g \in {"pending", "failed"}
          PROVE  <<e, g>> \notin Unlogged(r) /\ <<e, g>> \notin Undelivered(r)
      <3>1. ~ AwaitsLog(e, g, r) /\ ~ AwaitsDelivery(e, g, r)
        BY <1>2 DEF AwaitsLog, AwaitsDelivery
      <3> QED
        BY <3>1, InLists
    <2>2. Cardinality(Unlogged(r)) = 0 /\ Cardinality(Undelivered(r)) = 0
      <3> DEFINE A == Unlogged(r)
                 B == Undelivered(r)
      <3>1. A \in SUBSET Lists /\ B \in SUBSET Lists
        BY AwaitingTypes
      <3>2. \A e \in Dispatchers, g \in {"pending", "failed"} :
                <<e, g>> \notin A /\ <<e, g>> \notin B
        BY <2>1
      <3> HIDE DEF A, B
      <3>3. {} \in SUBSET Lists
        OBVIOUS
      <3>4. A = {}
        BY <3>1, <3>2, <3>3, SameLists
      <3>5. B = {}
        BY <3>1, <3>2, <3>3, SameLists
      <3> QED
        BY <3>4, <3>5, FS_EmptySet DEF A, B
    <2>3. /\ history[r] = 0 /\ delivered[r] = 0 /\ attemptCount[r] = 0 /\ unconfirmed[r] = 0
          /\ restarts = 0 /\ contested[r] = 0
      BY DEF Init
    <2>4. Tries(r) = 0 /\ Due(r) = 0 /\ Reasons(r) = 0
      BY <2>2, <2>3 DEF Tries, Due, Reasons
    <2> QED
      BY <2>3, <2>4 DEF RowCounted
  <1>6. AttemptsCounted /\ DeliveriesCounted
    BY <1>2, <1>5 DEF AttemptsCounted, DeliveriesCounted, RowCounted
  <1> QED
    BY <1>1, <1>3, <1>4, <1>6 DEF CountInv

THEOREM CountInvariance == Spec => []CountInv
  <1>1. CountInv /\ [Next]_vars => CountInv'
    <2> SUFFICES ASSUME CountInv, [Next]_vars PROVE CountInv'
      OBVIOUS
    <2>1. TypeOK' /\ IInv'
      BY NextType, NextRows, NextWritten DEF CountInv, IInv
    <2> QED
      BY <2>1, NextShape, NextCounted DEF CountInv
  <1> QED
    BY InitCounted, <1>1, PTL DEF Spec

\* However dispatchers overlap and restarts fall, no row is tried more often than
\* max_attempts, the restarts and the contested snapshots of it allow.
THEOREM AttemptsBoundedHolds == Spec => []AttemptsBounded
  <1>1. ASSUME CountInv, NEW r \in Records
        PROVE  history[r] <= MaxAttempts + restarts + contested[r]
    <2>0. TypeOK /\ Capped /\ AttemptsCounted
      BY <1>1 DEF CountInv, IInv
    <2>1. /\ history[r] \in Nat /\ attemptCount[r] \in Nat /\ attemptCount[r] <= MaxAttempts
          /\ restarts \in Nat /\ contested[r] \in Nat /\ MaxAttempts \in Nat
          /\ Cardinality(Unlogged(r)) \in Nat
      BY <2>0, LimitAssumption, AwaitingTypes DEF TypeOK, Capped
    <2>2. CASE Held(r)
      <3>1. PICK d \in Dispatchers : \E s \in batch[d] : s.id = r
        BY <2>2 DEF Held
      <3>2. PICK s \in batch[d] : s.id = r
        BY <3>1
      <3>3. s.attempt \in Nat /\ s.attempt < MaxAttempts
        BY <2>0, SnapshotFields DEF Capped
      <3>4. Tries(r) <= s.attempt + Reasons(r) + 1
        BY <2>0, <3>2 DEF AttemptsCounted
      <3> QED
        BY <2>1, <3>3, <3>4 DEF Tries, Reasons
    <2>3. CASE ~ Held(r)
      <3>1. Tries(r) <= attemptCount[r] + Reasons(r)
        BY <2>0, <2>3 DEF AttemptsCounted
      <3> QED
        BY <2>1, <3>1 DEF Tries, Reasons
    <2> QED
      BY <2>2, <2>3
  <1>2. CountInv => AttemptsBounded
    BY <1>1 DEF AttemptsBounded
  <1> QED
    BY <1>2, CountInvariance, PTL

\* Every repetition of a delivery has its restart, its misreported delivery or
\* its contested snapshot.
THEOREM RepeatedForAReasonHolds == Spec => []RepeatedForAReason
  <1>1. ASSUME CountInv, NEW r \in Records
        PROVE  delivered[r] <= 1 + restarts + contested[r] + unconfirmed[r]
    <2>0. TypeOK /\ DeliveriesCounted
      BY <1>1 DEF CountInv, IInv
    <2>1. /\ delivered[r] \in Nat /\ unconfirmed[r] \in Nat
          /\ restarts \in Nat /\ contested[r] \in Nat
          /\ Cardinality(Undelivered(r)) \in Nat
      BY <2>0, AwaitingTypes DEF TypeOK
    <2>2. Due(r) <= unconfirmed[r] + Reasons(r) + 1
      BY <2>0 DEF DeliveriesCounted
    <2> QED
      BY <2>1, <2>2 DEF Due, Reasons
  <1>2. CountInv => RepeatedForAReason
    BY <1>1 DEF RepeatedForAReason
  <1> QED
    BY <1>2, CountInvariance, PTL

\* A row whose snapshots were never contested does not leave SENT, whatever
\* happens to the other rows.
THEOREM SentIsFinalHolds == Spec => SentIsFinal
  <1>1. ASSUME CountInv, [Next]_vars, NEW r \in Records, status[r] = "sent", contested[r] = 0
        PROVE  status'[r] = "sent"
    <2>0. TypeOK /\ Uncontested
      BY <1>1 DEF CountInv, IInv
    <2>1. ASSUME NEW q \in Records, Enqueue(q)
          PROVE  status'[r] = "sent"
      BY <1>1, <2>0, <2>1 DEF Enqueue, TypeOK
    <2>2. ASSUME NEW d \in Dispatchers, Mark(d)
          PROVE  status'[r] = "sent"
      <3>1. PICK s \in batch[d] :
                status' = [status EXCEPT ![s.id] = IF success[d] THEN "sent" ELSE "failed"]
        BY <2>2 DEF Mark
      <3>2. s.from \in {"pending", "failed"}
        BY <2>0, SnapshotFields
      <3>3. s.id # r
        BY <1>1, <2>0, <3>2 DEF Uncontested, Alone
      <3> QED
        BY <1>1, <2>0, <3>1, <3>3 DEF TypeOK
    <2>3. ASSUME NEW d \in Dispatchers,
                 ReadPending(d) \/ ReadFailed(d) \/ Send(d) \/ LogAttempt(d)
          PROVE  status'[r] = "sent"
      BY <1>1, <2>3 DEF ReadPending, ReadFailed, Send, LogAttempt, rows
    <2>4. CASE Restart \/ UNCHANGED vars
      BY <1>1, <2>4 DEF Restart, vars, rows
    <2> QED
      BY <1>1, <2>1, <2>2, <2>3, <2>4 DEF Next, Dispatch
  <1>2. CountInv /\ [Next]_vars =>
            [\A r \in Records :
                status[r] = "sent" /\ contested[r] = 0 => status'[r] = "sent"]_vars
    BY <1>1
  <1> QED
    BY <1>2, CountInvariance, PTL DEF Spec, SentIsFinal
=============================================================================
