----------------------------- MODULE UnitsOfWork -----------------------------
(***************************************************************************)
(* What the shared connection promises the threads, without a connection,  *)
(* a lock or depths: units of work one at a time, each with rows of its    *)
(* own that reach the file all at once or never, and nothing for a reader  *)
(* to see but the file and what its own unit wrote.                        *)
(***************************************************************************)
CONSTANTS Threads, Rows

VARIABLES
    file,       \* rows that are there for good
    inside,     \* the threads within a unit of work: none or one
    own,        \* what the unit of each thread has written
    seen        \* what each thread has read and still goes by

vars == <<file, inside, own, seen>>

Init ==
    /\ file = {}
    /\ inside = {}
    /\ own  = [t \in Threads |-> {}]
    /\ seen = [t \in Threads |-> {}]

Begin(t) ==
    /\ inside = {}
    /\ inside' = {t}
    /\ UNCHANGED <<file, own, seen>>

Write(t, row) ==
    /\ t \in inside
    /\ own' = [own EXCEPT ![t] = @ \cup {row}]
    /\ UNCHANGED <<file, inside, seen>>

\* A write outside is a unit by itself, and so waits for the one there is.
WriteAlone(row) ==
    /\ inside = {}
    /\ file' = file \cup {row}
    /\ UNCHANGED <<inside, own, seen>>

Read(t) ==
    /\ \E found \in SUBSET (seen[t] \cup file \cup own[t]) : seen' = [seen EXCEPT ![t] = found]
    /\ UNCHANGED <<file, inside, own>>

\* A unit ends, and leaves its thread nothing it has read in it.
End(t) ==
    /\ t \in inside
    /\ inside' = {}
    /\ own'  = [own EXCEPT ![t] = {}]
    /\ seen' = [seen EXCEPT ![t] = {}]

Commit(t) == End(t) /\ file' = file \cup own[t]

RollBack(t) == End(t) /\ UNCHANGED file

\* The process stops: the file stays.
Stop ==
    /\ inside' = {}
    /\ own'  = [t \in Threads |-> {}]
    /\ seen' = [t \in Threads |-> {}]
    /\ UNCHANGED file

Next ==
    \/ Stop
    \/ \E row \in Rows : WriteAlone(row)
    \/ \E t \in Threads :
        \/ Begin(t) \/ Read(t) \/ Commit(t) \/ RollBack(t)
        \/ \E row \in Rows : Write(t, row)

Spec == Init /\ [][Next]_vars
=============================================================================
