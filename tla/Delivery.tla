------------------------------ MODULE Delivery ------------------------------
(***************************************************************************)
(* What two-phase ingress promises about a message, however often it is    *)
(* delivered and whatever crashes in between: its deterministic effects    *)
(* happen once, it is then completed once, and the channel is told that a  *)
(* message was taken care of only when it was.                             *)
(***************************************************************************)
EXTENDS Naturals

CONSTANT Messages

VARIABLES
    started,     \* how often the deterministic effects of a message happened
    completed,   \* how often a message was completed
    acked        \* the channel has been told to stop redelivering it

vars == <<started, completed, acked>>

Init ==
    /\ started   = [m \in Messages |-> 0]
    /\ completed = [m \in Messages |-> 0]
    /\ acked     = [m \in Messages |-> FALSE]

Start(m) ==
    /\ started[m] = 0
    /\ started' = [started EXCEPT ![m] = 1]
    /\ UNCHANGED <<completed, acked>>

Complete(m) ==
    /\ started[m] = 1
    /\ completed[m] = 0
    /\ completed' = [completed EXCEPT ![m] = 1]
    /\ UNCHANGED <<started, acked>>

\* A message that needs no agent is started and completed at once.
StartAndComplete(m) ==
    /\ started[m] = 0
    /\ started' = [started EXCEPT ![m] = 1]
    /\ completed' = [completed EXCEPT ![m] = 1]
    /\ UNCHANGED acked

\* The last answer may be lost, and the one to a redelivery replaces it.
Acknowledge(m) ==
    /\ completed[m] = 1
    /\ acked' = [acked EXCEPT ![m] = TRUE]
    /\ UNCHANGED <<started, completed>>

Next ==
    \E m \in Messages :
        Start(m) \/ Complete(m) \/ StartAndComplete(m) \/ Acknowledge(m)

Spec == Init /\ [][Next]_vars
=============================================================================
