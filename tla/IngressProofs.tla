---------------------------- MODULE IngressProofs ----------------------------
(***************************************************************************)
(* What holds of two-phase ingress for any messages, threads and number of *)
(* faults.  Type correctness and the single run of phase A hold always.    *)
(* Exactly-once completion needs that threads do not overlap or that       *)
(* apply() does not fail: the runs IngressFailedApply and IngressLostAck   *)
(* show what happens without.                                              *)
(***************************************************************************)
EXTENDS Ingress, TLAPS

\* Webhooks are handled one at a time, or apply() does not fail.
SerialOrSafe ==
    \/ "apply" \notin FaultKinds
    \/ \A v, w \in Workers : v = w

\* Threads work on claimed messages only.
JobsClaimed == \A w \in Workers : stage[w] # "idle" => job[w] \in claimed

Claims == PhaseAOnce /\ JobsClaimed

\* Where the threads are says what they will find in the record.
Positions ==
    \A w \in Workers :
        /\ stage[w] = "failing" =>
               "apply" \in FaultKinds /\ record[job[w]] = "AGENT_PENDING"
        /\ stage[w] = "agent" => record[job[w]] \in {"AGENT_PENDING", "COMPLETED"}
        /\ stage[w] = "answering" => record[job[w]] = "COMPLETED"

\* The record is COMPLETED exactly when the message was completed, once.
Counted ==
    \A m \in Messages :
        /\ completed[m] = IF record[m] = "COMPLETED" THEN 1 ELSE 0
        /\ acked[m] => record[m] = "COMPLETED"

IInv == TypeOK /\ Claims /\ Positions /\ Counted

-----------------------------------------------------------------------------
(* Type correctness and phase A                                              *)

LEMMA InitType == Init => TypeOK /\ Claims
  <1> SUFFICES ASSUME Init PROVE TypeOK /\ Claims
    OBVIOUS
  <1> QED
    BY MaxFaultsAssumption
    DEF Init, TypeOK, Claims, PhaseAOnce, JobsClaimed, ProcessingState, Stages

\* The thread of a started delivery is at a proper stage with a proper job.
LEMMA BeginType ==
    ASSUME TypeOK, NEW w \in Workers, NEW m \in Messages, NEW at \in Stages \ {"idle"},
           Begin(w, m, at)
    PROVE  /\ stage' \in [Workers -> Stages]
           /\ job' \in [Workers -> Messages \cup {NoMessage}]
           /\ \A v \in Workers : stage'[v] = "idle" <=> job'[v] = NoMessage
  BY MessagesAssumption DEF TypeOK, Begin, Stages

LEMMA LeaveType ==
    ASSUME TypeOK, NEW w \in Workers, Leave(w)
    PROVE  /\ stage' \in [Workers -> Stages]
           /\ job' \in [Workers -> Messages \cup {NoMessage}]
           /\ \A v \in Workers : stage'[v] = "idle" <=> job'[v] = NoMessage
  BY DEF TypeOK, Leave, Begin, Stages

LEMMA BusyHasJob ==
    ASSUME TypeOK, NEW w \in Workers, stage[w] # "idle"
    PROVE  job[w] \in Messages
  BY DEF TypeOK

LEMMA FaultType ==
    ASSUME TypeOK, NEW kind, Fault(kind)
    PROVE  faults' \in 0 .. MaxFaults
  BY MaxFaultsAssumption DEF TypeOK, Fault

\* Only phase A, which needs an unclaimed message, counts a start; only a
\* claimed message can reach a later state of its record.
LEMMA NextType ==
    ASSUME TypeOK, Claims, [Next]_vars
    PROVE  TypeOK' /\ Claims'
  <1> USE DEF Stages, ProcessingState
  <1>1. ASSUME NEW w \in Workers, NEW m \in Messages, Deliver(w, m)
        PROVE  TypeOK' /\ Claims'
    <2>1. CASE PhaseA(w, m)
      <3>1. Begin(w, m, "agent")
        BY <2>1 DEF PhaseA
      <3>2. TypeOK'
        BY <2>1, <3>1, BeginType DEF PhaseA, TypeOK
      <3>3. Claims'
        BY <2>1 DEF PhaseA, TypeOK,
             Claims, PhaseAOnce, JobsClaimed, Begin, Leave
      <3> QED
        BY <3>2, <3>3
    <2>2. CASE PhaseAOnly(w, m)
      <3>1. Begin(w, m, "answering")
        BY <2>2 DEF PhaseAOnly
      <3>2. TypeOK'
        BY <2>2, <3>1, BeginType DEF PhaseAOnly, TypeOK
      <3>3. Claims'
        BY <2>2 DEF PhaseAOnly, TypeOK,
             Claims, PhaseAOnce, JobsClaimed, Begin, Leave
      <3> QED
        BY <3>2, <3>3
    <2>3. CASE PhaseAFails(w, m)
      BY <2>3, FaultType DEF PhaseAFails, TypeOK,
             Claims, PhaseAOnce, JobsClaimed, Begin, Leave
    <2>4. CASE Duplicate(w, m)
      BY <2>4 DEF Duplicate, Ack, TypeOK,
             Claims, PhaseAOnce, JobsClaimed, Begin, Leave
    <2>5. CASE Resume(w, m)
      <3>1. Begin(w, m, "agent")
        BY <2>5 DEF Resume
      <3>2. TypeOK'
        BY <2>5, <3>1, BeginType DEF Resume, TypeOK
      <3>3. Claims'
        BY <2>5 DEF Resume, TypeOK,
             Claims, PhaseAOnce, JobsClaimed, Begin, Leave
      <3> QED
        BY <3>2, <3>3
    <2> QED
      BY <1>1, <2>1, <2>2, <2>3, <2>4, <2>5 DEF Deliver
  <1>2. ASSUME NEW w \in Workers, Finish(w)
        PROVE  TypeOK' /\ Claims'
    <2>1. CASE AgentFails(w)
      BY <2>1, LeaveType, FaultType DEF AgentFails, TypeOK,
             Claims, PhaseAOnce, JobsClaimed, Begin, Leave
    <2>2. CASE PhaseB(w)
      <3>1. job[w] \in Messages /\ Begin(w, job[w], "answering")
        BY <2>2, BusyHasJob DEF PhaseB
      <3>2. TypeOK'
        BY <2>2, <3>1, BeginType DEF PhaseB, TypeOK
      <3>3. Claims'
        BY <2>2, <3>1 DEF PhaseB, TypeOK,
             Claims, PhaseAOnce, JobsClaimed, Begin, Leave
      <3> QED
        BY <3>2, <3>3
    <2>3. CASE PhaseBLost(w)
      BY <2>3, LeaveType DEF PhaseBLost, Ack, TypeOK,
             Claims, PhaseAOnce, JobsClaimed, Begin, Leave
    <2>4. CASE PhaseBFails(w)
      <3>1. job[w] \in Messages /\ Begin(w, job[w], "failing")
        BY <2>4, BusyHasJob DEF PhaseBFails
      <3> QED
        BY <2>4, <3>1, BeginType, FaultType DEF PhaseBFails, TypeOK,
             Claims, PhaseAOnce, JobsClaimed, Begin, Leave
    <2>5. CASE MarkFailed(w)
      <3>1. job[w] \in Messages
        BY <2>5, BusyHasJob DEF MarkFailed
      <3>2. TypeOK'
        BY <2>5, <3>1, LeaveType DEF MarkFailed, TypeOK
      <3>3. Claims'
        BY <2>5, <3>1 DEF MarkFailed, TypeOK,
             Claims, PhaseAOnce, JobsClaimed, Begin, Leave
      <3> QED
        BY <3>2, <3>3
    <2>6. CASE MarkFails(w)
      BY <2>6, LeaveType, FaultType DEF MarkFails, TypeOK,
             Claims, PhaseAOnce, JobsClaimed, Begin, Leave
    <2>7. CASE Answer(w)
      BY <2>7, LeaveType DEF Answer, Ack, TypeOK,
             Claims, PhaseAOnce, JobsClaimed, Begin, Leave
    <2>8. CASE DispatchFails(w)
      BY <2>8, LeaveType, FaultType DEF DispatchFails, TypeOK,
             Claims, PhaseAOnce, JobsClaimed, Begin, Leave
    <2> QED
      BY <1>2, <2>1, <2>2, <2>3, <2>4, <2>5, <2>6, <2>7, <2>8 DEF Finish
  <1>3. CASE Restart
    BY <1>3, FaultType DEF Restart, TypeOK,
             Claims, PhaseAOnce, JobsClaimed, Begin, Leave
  <1>4. CASE UNCHANGED vars
    BY <1>4 DEF vars, TypeOK,
             Claims, PhaseAOnce, JobsClaimed, Begin, Leave
  <1> QED
    BY <1>1, <1>2, <1>3, <1>4 DEF Next

\* Types are right and the deterministic effects of a message happen once,
\* whatever overlaps, fails or crashes.
LEMMA TypeAndClaims == Spec => [](TypeOK /\ Claims)
  <1>1. Init => TypeOK /\ Claims
    BY InitType
  <1>2. TypeOK /\ Claims /\ [Next]_vars => TypeOK' /\ Claims'
    BY NextType
  <1> QED
    BY <1>1, <1>2, PTL DEF Spec

\* process() keeps its two tables and its threads well-formed.
THEOREM TypeCorrect == Spec => []TypeOK
  BY TypeAndClaims, PTL

\* One claim, one run of prepare(): redelivery, resumption, a crash between the
\* phases and a failed prepare() never repeat the deterministic effects.
THEOREM PhaseAOnceHolds == Spec => []PhaseAOnce
  <1>1. TypeOK /\ Claims => PhaseAOnce
    BY DEF Claims
  <1> QED
    BY <1>1, TypeAndClaims, PTL

-----------------------------------------------------------------------------
(* Exactly once                                                              *)

LEMMA InitPositions == Init => Positions /\ Counted
  BY DEF Init, Positions, Counted

\* A thread at work stays where it is while another one moves.
LEMMA OthersStay ==
    ASSUME TypeOK, NEW w \in Workers, NEW m, NEW at, Begin(w, m, at)
    PROVE  /\ stage'[w] = at /\ job'[w] = m
           /\ \A v \in Workers \ {w} : stage'[v] = stage[v] /\ job'[v] = job[v]
  BY DEF TypeOK, Begin

\* Only a thread that is "failing" can take the ground from under another one:
\* then it is the only thread.
LEMMA NextPositions ==
    ASSUME IInv, SerialOrSafe, [Next]_vars
    PROVE  Positions' /\ Counted'
  <1> USE DEF Stages, ProcessingState
  <1>0. TypeOK /\ Claims /\ Positions /\ Counted
    BY DEF IInv
  <1>1. ASSUME NEW w \in Workers, NEW m \in Messages, Deliver(w, m)
        PROVE  Positions' /\ Counted'
    <2>1. CASE PhaseA(w, m)
      <3>1. Begin(w, m, "agent") /\ record[m] = "NONE"
        BY <1>0, <2>1 DEF PhaseA, Claims, PhaseAOnce
      <3>2. record' = [record EXCEPT ![m] = "AGENT_PENDING"]
            /\ UNCHANGED <<completed, acked>>
        BY <2>1 DEF PhaseA
      <3>3. Positions'
        BY <1>0, <3>1, <3>2, OthersStay DEF TypeOK, Positions
      <3>4. Counted'
        BY <1>0, <3>1, <3>2 DEF TypeOK, Counted
      <3> QED
        BY <3>3, <3>4
    <2>2. CASE PhaseAOnly(w, m)
      <3>1. Begin(w, m, "answering") /\ record[m] = "NONE"
        BY <1>0, <2>2 DEF PhaseAOnly, Claims, PhaseAOnce
      <3>2. /\ record' = [record EXCEPT ![m] = "COMPLETED"]
            /\ completed' = [completed EXCEPT ![m] = @ + 1]
            /\ UNCHANGED acked
        BY <2>2 DEF PhaseAOnly
      <3>3. Positions'
        <4> SUFFICES ASSUME NEW v \in Workers
                     PROVE  /\ stage'[v] = "failing" =>
                                   /\ "apply" \in FaultKinds
                                   /\ record'[job'[v]] = "AGENT_PENDING"
                            /\ stage'[v] = "agent" =>
                                   record'[job'[v]] \in {"AGENT_PENDING", "COMPLETED"}
                            /\ stage'[v] = "answering" => record'[job'[v]] = "COMPLETED"
          BY DEF Positions
        <4>1. CASE v = w
          BY <1>0, <3>1, <3>2, <4>1, OthersStay DEF TypeOK
        <4>2. CASE v # w
          <5>1. stage'[v] = stage[v] /\ job'[v] = job[v]
            BY <1>0, <3>1, <4>2, OthersStay
          <5>2. stage[v] # "idle" => job[v] \in Messages /\ job[v] # m
            BY <1>0, <2>2, BusyHasJob DEF Claims, JobsClaimed, PhaseAOnly
          <5> QED
            BY <1>0, <3>2, <5>1, <5>2 DEF TypeOK, Positions
        <4> QED
          BY <4>1, <4>2
      <3>4. Counted'
        BY <1>0, <3>1, <3>2 DEF TypeOK, Counted
      <3> QED
        BY <3>3, <3>4
    <2>3. CASE PhaseAFails(w, m)
      BY <1>0, <2>3 DEF PhaseAFails, Positions, Counted
    <2>4. CASE Duplicate(w, m)
      <3>1. record[m] = "COMPLETED"
        BY <1>0, <2>4 DEF Duplicate, Done, Claims, PhaseAOnce
      <3> QED
        BY <1>0, <2>4, <3>1 DEF Duplicate, Ack, TypeOK, Positions, Counted
    <2>5. CASE Resume(w, m)
      <3>1. Begin(w, m, "agent") /\ record[m] # "COMPLETED"
        BY <2>5 DEF Resume, Done
      <3>2. record' = [record EXCEPT ![m] = "AGENT_PENDING"]
            /\ UNCHANGED <<completed, acked>>
        BY <2>5 DEF Resume
      <3>3. Positions'
        BY <1>0, <3>1, <3>2, OthersStay DEF TypeOK, Positions
      <3>4. Counted'
        BY <1>0, <3>1, <3>2 DEF TypeOK, Counted
      <3> QED
        BY <3>3, <3>4
    <2> QED
      BY <1>1, <2>1, <2>2, <2>3, <2>4, <2>5 DEF Deliver
  <1>2. ASSUME NEW w \in Workers, Finish(w)
        PROVE  Positions' /\ Counted'
    <2>1. CASE AgentFails(w)
      BY <1>0, <2>1, OthersStay DEF AgentFails, Leave, Positions, Counted
    <2>2. CASE PhaseB(w)
      <3>1. PICK m \in Messages : m = job[w]
        BY <1>0, <2>2, BusyHasJob DEF PhaseB
      <3>2. /\ stage[w] = "agent" /\ record[m] = "AGENT_PENDING"
            /\ Begin(w, m, "answering")
            /\ record' = [record EXCEPT ![m] = "COMPLETED"]
            /\ completed' = [completed EXCEPT ![m] = @ + 1]
            /\ UNCHANGED acked
        BY <2>2, <3>1 DEF PhaseB
      <3>3. \A v \in Workers : stage[v] # "failing"
        BY <1>0, <3>2 DEF Positions, SerialOrSafe
      <3>4. Positions'
        BY <1>0, <3>2, <3>3, OthersStay DEF TypeOK, Positions
      <3>5. Counted'
        BY <1>0, <3>2 DEF TypeOK, Counted
      <3> QED
        BY <3>4, <3>5
    <2>3. CASE PhaseBLost(w)
      <3>1. PICK m \in Messages : m = job[w]
        BY <1>0, <2>3, BusyHasJob DEF PhaseBLost
      <3>2. record[m] = "COMPLETED"
        BY <1>0, <2>3, <3>1 DEF PhaseBLost, Positions
      <3>3. Positions'
        BY <1>0, <2>3, OthersStay DEF PhaseBLost, Leave, Positions
      <3>4. Counted'
        BY <1>0, <2>3, <3>1, <3>2 DEF PhaseBLost, Ack, TypeOK, Counted
      <3> QED
        BY <3>3, <3>4
    <2>4. CASE PhaseBFails(w)
      <3>1. Begin(w, job[w], "failing") /\ "apply" \in FaultKinds
        BY <2>4 DEF PhaseBFails, Fault
      <3>2. record[job[w]] = "AGENT_PENDING" /\ UNCHANGED <<record, completed, acked>>
        BY <2>4 DEF PhaseBFails
      <3>3. Positions'
        BY <1>0, <3>1, <3>2, OthersStay DEF Positions
      <3> QED
        BY <1>0, <3>2, <3>3 DEF Counted
    <2>5. CASE MarkFailed(w)
      <3>1. PICK m \in Messages : m = job[w]
        BY <1>0, <2>5, BusyHasJob DEF MarkFailed
      <3>2. /\ Begin(w, NoMessage, "idle")
            /\ record[m] = "AGENT_PENDING"
            /\ record' = [record EXCEPT ![m] = "FAILED_RETRYABLE"]
            /\ UNCHANGED <<completed, acked>>
        BY <1>0, <2>5, <3>1 DEF MarkFailed, Leave, Positions
      <3>3. \A v \in Workers : v = w
        BY <1>0, <2>5 DEF MarkFailed, Positions, SerialOrSafe
      <3>4. Positions'
        BY <1>0, <3>2, <3>3, OthersStay DEF Positions
      <3>5. Counted'
        BY <1>0, <3>2 DEF TypeOK, Counted
      <3> QED
        BY <3>4, <3>5
    <2>6. CASE MarkFails(w)
      BY <1>0, <2>6, OthersStay DEF MarkFails, Leave, Positions, Counted
    <2>7. CASE Answer(w)
      <3>1. PICK m \in Messages : m = job[w]
        BY <1>0, <2>7, BusyHasJob DEF Answer
      <3>2. record[m] = "COMPLETED"
        BY <1>0, <2>7, <3>1 DEF Answer, Positions
      <3>3. Positions'
        BY <1>0, <2>7, OthersStay DEF Answer, Leave, Positions
      <3>4. Counted'
        BY <1>0, <2>7, <3>1, <3>2 DEF Answer, Ack, TypeOK, Counted
      <3> QED
        BY <3>3, <3>4
    <2>8. CASE DispatchFails(w)
      BY <1>0, <2>8, OthersStay DEF DispatchFails, Leave, Positions, Counted
    <2> QED
      BY <1>2, <2>1, <2>2, <2>3, <2>4, <2>5, <2>6, <2>7, <2>8 DEF Finish
  <1>3. CASE Restart
    BY <1>0, <1>3 DEF Restart, Positions, Counted
  <1>4. CASE UNCHANGED vars
    BY <1>0, <1>4 DEF vars, Positions, Counted
  <1> QED
    BY <1>1, <1>2, <1>3, <1>4 DEF Next

\* The inductive invariant, under the condition that keeps threads apart.
THEOREM Invariance ==
    ASSUME SerialOrSafe
    PROVE  Spec => []IInv
  <1>1. Init => IInv
    BY InitType, InitPositions DEF IInv
  <1>2. IInv /\ [Next]_vars => IInv'
    BY NextType, NextPositions DEF IInv
  <1> QED
    BY <1>1, <1>2, PTL DEF Spec
-----------------------------------------------------------------------------
(* What follows                                                              *)

\* "exactly-once phase B": the CAS and the single commit of effects and state
\* complete a message at most once.
THEOREM CompletedOnceHolds ==
    ASSUME SerialOrSafe
    PROVE  Spec => []CompletedOnce
  <1>1. ASSUME IInv, NEW m \in Messages
        PROVE  completed[m] <= 1
    <2>1. completed[m] = 0 \/ completed[m] = 1
      BY <1>1 DEF IInv, Counted
    <2> QED
      BY <2>1
  <1>2. IInv => CompletedOnce
    BY <1>1 DEF CompletedOnce
  <1> QED
    BY <1>2, Invariance, PTL

\* Whoever is answered, even as a duplicate, can rely on the message being done.
THEOREM AckMeansCompletedHolds ==
    ASSUME SerialOrSafe
    PROVE  Spec => []AckMeansCompleted
  <1>1. IInv => AckMeansCompleted
    BY DEF IInv, Counted, AckMeansCompleted
  <1> QED
    BY <1>1, Invariance, PTL

\* No step takes a message out of COMPLETED: claims need a new message, resume()
\* an unfinished one, and the mark of a failed phase B finds AGENT_PENDING.
LEMMA StepIsFinal ==
    ASSUME IInv, SerialOrSafe, [Next]_vars,
           NEW m \in Messages, record[m] = "COMPLETED"
    PROVE  record'[m] = "COMPLETED"
  <1>0. TypeOK /\ Claims /\ Positions
    BY DEF IInv
  <1>1. ASSUME NEW w \in Workers, NEW n \in Messages, Deliver(w, n)
        PROVE  record'[m] = "COMPLETED"
    <2>1. m \in claimed
      BY <1>0 DEF Claims, PhaseAOnce
    <2> QED
      BY <1>0, <1>1, <2>1
      DEF Deliver, PhaseA, PhaseAOnly, PhaseAFails, Duplicate, Done, Resume, TypeOK
  <1>2. ASSUME NEW w \in Workers, Finish(w)
        PROVE  record'[m] = "COMPLETED"
    <2>1. stage[w] = "failing" => job[w] # m
      BY <1>0 DEF Positions
    <2> QED
      BY <1>0, <1>2, <2>1
      DEF Finish, AgentFails, PhaseB, PhaseBLost, PhaseBFails, MarkFailed, MarkFails,
          Answer, DispatchFails, TypeOK
  <1>3. CASE Restart
    BY <1>3 DEF Restart
  <1>4. CASE UNCHANGED vars
    BY <1>4 DEF vars
  <1> QED
    BY <1>1, <1>2, <1>3, <1>4 DEF Next

\* "COMPLETED -> duplicate deliveries are no-ops": nothing reopens a message.
THEOREM CompletedIsFinalHolds ==
    ASSUME SerialOrSafe
    PROVE  Spec => CompletedIsFinal
  <1>1. IInv /\ [Next]_vars =>
            [\A m \in Messages : record[m] = "COMPLETED" => record'[m] = "COMPLETED"]_vars
    BY StepIsFinal
  <1> QED
    BY <1>1, Invariance, PTL DEF Spec, CompletedIsFinal

-----------------------------------------------------------------------------
(* Two-phase ingress delivers each message once                              *)

LEMMA InitRefines == Init => Once!Init
  BY DEF Init, Once!Init

\* Phase A starts a message, phase B completes it, an answer or a duplicate
\* acknowledges it; all the rest is invisible.
LEMMA StepRefines ==
    ASSUME IInv, IInv', [Next]_vars
    PROVE  [Once!Next]_Once!vars
  <1>0. TypeOK /\ Claims /\ Positions /\ Counted /\ Counted'
    BY DEF IInv
  <1> USE DEF Once!Next, Once!vars
  <1>1. ASSUME NEW w \in Workers, NEW m \in Messages, Deliver(w, m)
        PROVE  [Once!Next]_Once!vars
    <2>1. CASE PhaseA(w, m)
      <3>1. started[m] = 0
        BY <1>0, <2>1 DEF PhaseA, Claims, PhaseAOnce
      <3>2. Once!Start(m)
        BY <1>0, <2>1, <3>1 DEF PhaseA, Once!Start, TypeOK
      <3> QED
        BY <3>2
    <2>2. CASE PhaseAOnly(w, m)
      <3>1. started[m] = 0 /\ completed[m] = 0
        BY <1>0, <2>2 DEF PhaseAOnly, Claims, PhaseAOnce, Counted
      <3>2. Once!StartAndComplete(m)
        BY <1>0, <2>2, <3>1 DEF PhaseAOnly, Once!StartAndComplete, TypeOK
      <3> QED
        BY <3>2
    <2>3. CASE PhaseAFails(w, m)
      BY <2>3 DEF PhaseAFails
    <2>4. CASE Duplicate(w, m)
      <3>1. completed[m] = 1
        BY <1>0, <2>4 DEF Duplicate, Done, Claims, PhaseAOnce, Counted
      <3>2. Once!Acknowledge(m)
        BY <2>4, <3>1 DEF Duplicate, Ack, Once!Acknowledge
      <3> QED
        BY <3>2
    <2>5. CASE Resume(w, m)
      BY <2>5 DEF Resume
    <2> QED
      BY <1>1, <2>1, <2>2, <2>3, <2>4, <2>5 DEF Deliver
  <1>2. ASSUME NEW w \in Workers, Finish(w)
        PROVE  [Once!Next]_Once!vars
    <2>1. stage[w] # "idle" => job[w] \in Messages
      BY <1>0, BusyHasJob
    <2>2. CASE PhaseB(w)
      <3>1. PICK m \in Messages : m = job[w]
        BY <2>1, <2>2 DEF PhaseB
      <3>2. m \in claimed /\ record[m] = "AGENT_PENDING"
        BY <1>0, <2>2, <3>1 DEF PhaseB, Claims, JobsClaimed
      <3>3. started[m] = 1 /\ completed[m] = 0
        BY <1>0, <3>2 DEF Claims, PhaseAOnce, Counted
      <3>4. Once!Complete(m)
        BY <1>0, <2>2, <3>1, <3>3 DEF PhaseB, Once!Complete, TypeOK
      <3> QED
        BY <3>4
    <2>3. CASE PhaseBLost(w)
      <3>1. PICK m \in Messages : m = job[w]
        BY <2>1, <2>3 DEF PhaseBLost
      <3>2. completed[m] = 1
        BY <1>0, <2>3, <3>1 DEF PhaseBLost, Positions, Counted
      <3>3. Once!Acknowledge(m)
        BY <2>3, <3>1, <3>2 DEF PhaseBLost, Ack, Once!Acknowledge
      <3> QED
        BY <3>3
    <2>4. CASE Answer(w)
      <3>1. PICK m \in Messages : m = job[w]
        BY <2>1, <2>4 DEF Answer
      <3>2. completed[m] = 1
        BY <1>0, <2>4, <3>1 DEF Answer, Positions, Counted
      <3>3. Once!Acknowledge(m)
        BY <2>4, <3>1, <3>2 DEF Answer, Ack, Once!Acknowledge
      <3> QED
        BY <3>3
    <2>5. CASE AgentFails(w) \/ PhaseBFails(w) \/ MarkFailed(w)
               \/ MarkFails(w) \/ DispatchFails(w)
      BY <2>5 DEF AgentFails, PhaseBFails, MarkFailed, MarkFails, DispatchFails
    <2> QED
      BY <1>2, <2>2, <2>3, <2>4, <2>5 DEF Finish
  <1>3. CASE Restart
    BY <1>3 DEF Restart
  <1>4. CASE UNCHANGED vars
    BY <1>4 DEF vars
  <1> QED
    BY <1>1, <1>2, <1>3, <1>4 DEF Next

\* Two-phase ingress implements delivery once, as long as threads are kept apart.
THEOREM RefinesDelivery ==
    ASSUME SerialOrSafe
    PROVE  Spec => ImplementsDelivery
  <1>1. Init => Once!Init
    BY InitRefines
  <1>2. IInv /\ IInv' /\ [Next]_vars => [Once!Next]_Once!vars
    BY StepRefines
  <1> QED
    BY <1>1, <1>2, Invariance, PTL DEF Spec, ImplementsDelivery, Once!Spec
=============================================================================
