----------------------------- MODULE MCIngress -----------------------------
(***************************************************************************)
(* Ingress in the two ways it is used.  With webhooks only, deliveries are *)
(* handled one at a time, by one thread; with GET /api/chat/stream as well *)
(* there are several threads.  The first state chooses.  With one thread   *)
(* every kind of fault may happen, with several every one but a failing    *)
(* apply(): what that does is IngressFailedApply's and IngressLostAck's.   *)
(***************************************************************************)
EXTENDS Ingress, TLC

VARIABLE streams     \* GET /api/chat/stream is called too

Serving == IF streams THEN Workers ELSE {CHOOSE w \in Workers : TRUE}

IngressInit == Init /\ streams \in BOOLEAN

IngressNext ==
    /\ \/ \E w \in Serving, m \in Messages : Deliver(w, m)
       \/ \E w \in Serving : Finish(w)
       \/ Restart
    /\ streams => \A w \in Workers : stage'[w] # "failing"
    /\ UNCHANGED streams

\* A thread in process() runs on, and what was not answered comes again.
IngressFairness ==
    /\ \A w \in Workers : WF_vars(Finish(w))
    /\ \A m \in Messages : SF_vars(Redeliver(m, Serving))

IngressSpec == IngressInit /\ [][IngressNext]_<<vars, streams>> /\ IngressFairness
=============================================================================
