-------------------------------- MODULE Intake --------------------------------
(***************************************************************************)
(* What the desk promises whoever writes to it, without sessions, intents, *)
(* an agent or an outbox: a message is taken once, concerns nobody's cases *)
(* but its author's, opens one case at most, and is answered when and only *)
(* when it is done with.                                                   *)
(***************************************************************************)
EXTENDS Naturals

CONSTANTS
    Messages, Cases,
    Authors,    \* who may write from where: <<user, place>>
    Nameless,   \* messages that cannot be told apart: an answer to one may do for all
    Silent      \* places that take no answers

VARIABLES
    author,     \* who wrote a message and where, once it is taken
    opened,     \* the cases that were opened for a message, each with its author
    about,      \* the case a message is taken to be about, or none
    done,       \* the messages that were handled to the end
    answers     \* how often a message was answered

vars == <<author, opened, about, done, answers>>

Init ==
    /\ author  = [m \in Messages |-> {}]
    /\ opened  = [m \in Messages |-> {}]
    /\ about   = [m \in Messages |-> {}]
    /\ done    = {}
    /\ answers = [m \in Messages |-> 0]

Taken(c)   == \E m \in Messages, a \in Authors : <<c, a>> \in opened[m]
CasesOf(u) == {c \in Cases : \E m \in Messages, a \in Authors : a[1] = u /\ <<c, a>> \in opened[m]}

Open(m, a) ==
    /\ opened[m] = {}
    /\ \E c \in Cases : opened' = [opened EXCEPT ![m] = {<<c, a>>}] /\ ~Taken(c)

\* The message may have opened a case in the same step, and be about that one.
Concern(m, u) ==
    \/ about' = [about EXCEPT ![m] = {}]
    \/ \E c \in Cases : about' = [about EXCEPT ![m] = {c}] /\ c \in CasesOf(u)'

\* An answer would go to a place that takes none: where the message was written,
\* or where the case it is about was opened.
Unanswerable(m) ==
    \/ \E a \in author[m] : a[2] \in Silent
    \/ \E c \in about[m], n \in Messages, a \in Authors : <<c, a>> \in opened[n] /\ a[2] \in Silent

Answer(m) ==
    /\ answers[m] = 0
    /\ done' = done \cup {m}
    /\ \/ answers' = [answers EXCEPT ![m] = 1]
       \/ (m \in Nameless \/ Unanswerable(m)') /\ UNCHANGED answers

Handle(m, a) == (UNCHANGED opened \/ Open(m, a)) /\ Concern(m, a[1])

\* A message comes in, and is answered at once or later.
Take(m, a) ==
    /\ author[m] = {}
    /\ author' = [author EXCEPT ![m] = {a}]
    /\ Answer(m) \/ UNCHANGED <<done, answers>>
    /\ Handle(m, a)

Finish(m, a) ==
    /\ author[m] = {a} /\ m \notin done
    /\ UNCHANGED author
    /\ Answer(m)
    /\ Handle(m, a)

Next == \E m \in Messages, a \in Authors : Take(m, a) \/ Finish(m, a)

Spec == Init /\ [][Next]_vars
=============================================================================
