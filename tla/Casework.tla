------------------------------ MODULE Casework ------------------------------
(***************************************************************************)
(* What the ticket subsystem promises, without its log, outbox, memory or  *)
(* two-step REST calls: a case moves through its life only at the hand of  *)
(* someone entitled to move it, and a request for approval is carried out  *)
(* or declined in one step, once, with its whole effect.                   *)
(***************************************************************************)
CONSTANTS Tickets, Operators, Approvals

VARIABLES
    status,        \* where each case stands
    assignee,      \* the set of operators who took the case: empty or one
    requests,      \* what was asked of an approver, and what became of it
    closedBy,      \* whose word closed the case: the requester's or an approval's
    escalatedBy    \* the approvals that escalated the case

vars == <<status, assignee, requests, closedBy, escalatedBy>>

Unasked == [state |-> "none"]

Asked(t, action, state) == [state |-> state, ticket |-> t, action |-> action]

Init ==
    /\ status      = [t \in Tickets |-> "NONE"]
    /\ assignee    = [t \in Tickets |-> {}]
    /\ requests    = [a \in Approvals |-> Unasked]
    /\ closedBy    = [t \in Tickets |-> {}]
    /\ escalatedBy = [t \in Tickets |-> {}]

Move(t, from, to) == status[t] \in from /\ status' = [status EXCEPT ![t] = to]

Open(t) ==
    /\ Move(t, {"NONE"}, "OPEN")
    /\ UNCHANGED <<assignee, requests, closedBy, escalatedBy>>

Take(t, o) ==
    /\ Move(t, {"OPEN"}, "IN_PROGRESS")
    /\ assignee[t] = {}
    /\ assignee' = [assignee EXCEPT ![t] = {o}]
    /\ UNCHANGED <<requests, closedBy, escalatedBy>>

Answer(t) ==
    /\ Move(t, {"IN_PROGRESS"}, "RESOLVED")
    /\ UNCHANGED <<assignee, requests, closedBy, escalatedBy>>

Refuse(t) ==
    /\ Move(t, {"RESOLVED"}, "IN_PROGRESS")
    /\ UNCHANGED <<assignee, requests, closedBy, escalatedBy>>

Accept(t) ==
    /\ Move(t, {"RESOLVED"}, "CLOSED")
    /\ closedBy' = [closedBy EXCEPT ![t] = @ \cup {"requester"}]
    /\ UNCHANGED <<assignee, requests, escalatedBy>>

\* A forced close is never asked for a case nobody has taken up.
Ask(a, t, action) ==
    /\ requests[a] = Unasked
    /\ status[t] \notin (IF action = "FORCE_CLOSE" THEN {"NONE", "OPEN"} ELSE {"NONE"})
    /\ requests' = [requests EXCEPT ![a] = Asked(t, action, "open")]
    /\ UNCHANGED <<status, assignee, closedBy, escalatedBy>>

CarryOutEscalate(a, t) ==
    /\ requests[a] = Asked(t, "ESCALATE", "open")
    /\ requests' = [requests EXCEPT ![a] = Asked(t, "ESCALATE", "done")]
    /\ escalatedBy' = [escalatedBy EXCEPT ![t] = @ \cup {a}]
    /\ UNCHANGED <<status, assignee, closedBy>>

CarryOutForceClose(a, t) ==
    /\ requests[a] = Asked(t, "FORCE_CLOSE", "open")
    /\ Move(t, {"IN_PROGRESS", "RESOLVED"}, "CLOSED")
    /\ requests' = [requests EXCEPT ![a] = Asked(t, "FORCE_CLOSE", "done")]
    /\ closedBy' = [closedBy EXCEPT ![t] = @ \cup {a}]
    /\ UNCHANGED <<assignee, escalatedBy>>

Decline(a, t, action) ==
    /\ requests[a] = Asked(t, action, "open")
    /\ requests' = [requests EXCEPT ![a] = Asked(t, action, "declined")]
    /\ UNCHANGED <<status, assignee, closedBy, escalatedBy>>

CaseStep(t) ==
    Open(t) \/ (\E o \in Operators : Take(t, o)) \/ Answer(t) \/ Refuse(t) \/ Accept(t)

RequestStep(a, t) ==
    \/ \E action \in {"ESCALATE", "FORCE_CLOSE"} : Ask(a, t, action) \/ Decline(a, t, action)
    \/ CarryOutEscalate(a, t)
    \/ CarryOutForceClose(a, t)

Next == \E t \in Tickets : CaseStep(t) \/ \E a \in Approvals : RequestStep(a, t)

Spec == Init /\ [][Next]_vars
=============================================================================
