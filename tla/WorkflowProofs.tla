---------------------------- MODULE WorkflowProofs ----------------------------
(***************************************************************************)
(* Theorems about Workflow for any number of messages and tickets, any     *)
(* users, sessions and conversations, with or without a model; and about   *)
(* what an agent run may do and say (AgentLoop), for any bounds and        *)
(* providers and whatever the model answers.                               *)
(***************************************************************************)
EXTENDS Workflow, AgentLoop, FiniteSetTheorems, WellFoundedInduction, TLAPS

CaseStatus == {"OPEN", "IN_PROGRESS", "RESOLVED", "CLOSED"}
CaseRecord == [user : Users, status : CaseStatus, cause : Messages, source : Places]
WorkKind   == {"", "ticket", "faq_answer", "no_answer", "chitchat", "other"}
IntentsOfWork    == {"", "support", "faq", "no_answer", "chitchat"}
WorkRecord == [stage : {"new", "prepared", "done"}, session : Sessions \cup {<<>>}, kind : WorkKind,
               intent : IntentsOfWork, ticket : Nat, created : BOOLEAN]

\* The tables have their shapes, and tickets are their users'.
ShapesOK ==
    /\ cases \in Seq(CaseRecord)
    /\ bound \in [Sessions -> Nat]
    /\ work \in [Messages -> WorkRecord]
    /\ \A m \in Messages : IF work[m].stage = "new" THEN work[m] = NewMessage
                           ELSE work[m].session \in Sessions

\* A message that may still open a ticket: one not yet prepared, or one whose
\* run may turn small talk into a ticket.
MayOpen(m) ==
    \/ work[m].stage = "new"
    \/ work[m].stage = "prepared" /\ work[m].intent = "chitchat"

\* The session a ticket was opened from.
OpenedFrom(t) == <<cases[t].user, cases[t].source>>

\* A message that may still open a ticket has opened none, and a ticket comes
\* from a session of its user.
CausesInv ==
    /\ \A t \in DOMAIN cases : ~MayOpen(cases[t].cause) /\ OpenedFrom(t) \in Sessions
    /\ OneCasePerMessage

\* The answers to a message.
RepliesTo(m) == {r \in replies : r.of = m}

\* Answers are known by the message they answer, and given when it is done.
RepliesInv ==
    /\ \A r \in replies :
        /\ r.of \in Messages /\ work[r.of].stage = "done"
        /\ r.event \in {RunEvent(r.of), DeterministicEvent(r.of)}
    /\ \A m \in Messages \ WithoutId :
        work[m].stage = "done" =>
            (\E r : RepliesTo(m) = {r}) \/ (RepliesTo(m) = {} /\ Unheard(work[m]))

WInv == ShapesOK /\ OwnCaseOnly /\ CausesInv /\ RepliesInv

-----------------------------------------------------------------------------
(* What the lookups find                                                     *)

\* A set of numbers with a bound has a greatest one.
LEMMA Greatest ==
    ASSUME NEW n \in Nat, NEW S \in SUBSET (1..n), S # {}
    PROVE  \E x \in S : \A y \in S : y <= x
<1> DEFINE Above(x) == {y \in S : x < y}
<1> DEFINE All == {Above(x) : x \in S}
<1>1. IsFiniteSet(S)
  BY FS_BoundedSetOfNaturals
<1>2. All \subseteq FiniteSubsetsOf(S)
  <2>1. ASSUME NEW x \in S PROVE Above(x) \subseteq S /\ IsFiniteSet(Above(x))
    BY <1>1, FS_Subset
  <2>2. QED
    BY <2>1 DEF FiniteSubsetsOf
<1>3. PICK least \in All : \A other \in All : <<other, least>> \notin StrictSubsetOrdering(S)
  <2>1. All # {}
    OBVIOUS
  <2>2. IsWellFoundedOn(StrictSubsetOrdering(S), FiniteSubsetsOf(S))
    BY FS_StrictSubsetOrderingWellFounded
  <2> HIDE DEF All
  <2>3. QED
    BY <1>2, <2>1, <2>2, WFMin
<1>4. PICK x \in S : least = Above(x)
  OBVIOUS
<1>5. ASSUME NEW y \in S, x < y PROVE FALSE
  <2>1. Above(y) \in All /\ Above(y) \subseteq Above(x) /\ y \in Above(x) /\ y \notin Above(y)
    <3>1. \A z \in S : z \in Int
      OBVIOUS
    <3>2. \A z \in S : y < z => x < z
      BY <1>5, <3>1
    <3>3. ~(y < y)
      BY <3>1
    <3>4. Above(y) \in All
      OBVIOUS
    <3>5. QED
      BY <1>5, <3>2, <3>3, <3>4
  <2>2. <<Above(y), Above(x)>> \in StrictSubsetOrdering(S)
    BY <2>1 DEF StrictSubsetOrdering
  <2>3. QED
    BY <1>3, <1>4, <2>1, <2>2
<1>6. QED
  BY <1>5

LEMMA CasesRange ==
    ASSUME ShapesOK
    PROVE  /\ Len(cases) \in Nat /\ DOMAIN cases = 1..Len(cases)
           /\ \A t \in DOMAIN cases : cases[t] \in CaseRecord
           /\ \A u : Own(u) \subseteq 1..Len(cases) /\ 0 \notin Own(u)
BY DEF ShapesOK, Own

\* The last ticket of a user is one of the user's.
LEMMA RecentIsOwn ==
    ASSUME ShapesOK, NEW u
    PROVE  RecentTicket(u) \in Own(u) \cup {0}
<1>1. CASE Own(u) = {}
  BY <1>1 DEF RecentTicket
<1>2. CASE Own(u) # {}
  <2>1. \E t \in Own(u) : \A o \in Own(u) : o <= t
    BY <1>2, CasesRange, Greatest
  <2>2. QED
    BY <1>2, <2>1 DEF RecentTicket
<1>3. QED
  BY <1>1, <1>2

\* Whatever ids a text names, what it is resolved to is its sender's.
LEMMA ResolutionIsOwn ==
    ASSUME ShapesOK, NEW names, NEW s \in Sessions
    PROVE  /\ Resolution(names, s).ticket \in Own(s[1]) \cup {0}
           /\ ResolutionCandidate(names, s) \in Own(s[1]) \cup {0}
<1>1. SessionTicket(s) \in Own(s[1]) \cup {0} /\ FindExplicit(names, s[1]) \in Own(s[1]) \cup {0}
  BY DEF SessionTicket, FindExplicit
<1>2. \A active : active # {} /\ active \subseteq Own(s[1]) => (CHOOSE t \in active : TRUE) \in Own(s[1])
  OBVIOUS
<1>3. ActiveTickets(s[1]) \subseteq Own(s[1])
  BY DEF ActiveTickets
<1>4. Resolution(names, s).ticket \in Own(s[1]) \cup {0}
  BY <1>1, <1>2, <1>3 DEF Resolution
<1>5. ResolutionCandidate(names, s) \in Own(s[1]) \cup {0}
  BY RecentIsOwn DEF ResolutionCandidate
<1>6. QED
  BY <1>4, <1>5

-----------------------------------------------------------------------------
(* What a step does to the tickets                                           *)

\* Tickets move; none appears, none changes hands.
CasesKept ==
    /\ cases' \in Seq(CaseRecord) /\ DOMAIN cases' = DOMAIN cases
    /\ \A t \in DOMAIN cases : /\ cases'[t].user = cases[t].user /\ cases'[t].cause = cases[t].cause
                              /\ cases'[t].source = cases[t].source

\* Message m of session s opens a ticket.
CaseOpened(m, s) ==
    /\ cases' \in Seq(CaseRecord) /\ DOMAIN cases' = DOMAIN cases \cup {Len(cases) + 1}
    /\ Len(cases) < MaxTickets /\ \A t \in DOMAIN cases : cases'[t] = cases[t]
    /\ cases'[Len(cases) + 1].user = s[1] /\ cases'[Len(cases) + 1].cause = m
    /\ s = <<cases'[Len(cases) + 1].user, cases'[Len(cases) + 1].source>>

LEMMA SessionUser ==
    ASSUME NEW s \in Sessions
    PROVE  s[1] \in Users /\ s[2] \in Places /\ s = <<s[1], s[2]>>
BY WorkflowAssumption

LEMMA CreateEffect ==
    ASSUME ShapesOK, NEW m \in Messages, NEW s \in Sessions, CreateCase(m, s)
    PROVE  CaseOpened(m, s) /\ Len(cases') \in Own(s[1])' /\ Len(cases') = Len(cases) + 1
<1> DEFINE case == [user |-> s[1], status |-> "OPEN", cause |-> m, source |-> s[2]]
<1>1. case \in CaseRecord
  BY SessionUser DEF CaseRecord, CaseStatus
<1>2. cases \in Seq(CaseRecord) /\ cases' = Append(cases, case) /\ Len(cases) < MaxTickets
  BY DEF ShapesOK, CreateCase
<1>3. /\ cases' \in Seq(CaseRecord)
      /\ Len(cases') = Len(cases) + 1 /\ Len(cases) \in Nat
      /\ DOMAIN cases' = DOMAIN cases \cup {Len(cases) + 1}
      /\ \A t \in DOMAIN cases : cases'[t] = cases[t]
      /\ cases'[Len(cases) + 1] = case
  <2> HIDE DEF case
  <2>1. QED
    BY <1>1, <1>2
<1>4. <<case.user, case.source>> = s
  BY SessionUser
<1>5. case.user = s[1] /\ case.cause = m
  OBVIOUS
<1> HIDE DEF case
<1>6. CaseOpened(m, s)
  BY <1>2, <1>3, <1>4, <1>5 DEF CaseOpened
<1>7. QED
  BY <1>3, <1>5, <1>6 DEF Own

LEMMA MoveEffect ==
    ASSUME ShapesOK, NEW t \in DOMAIN cases, NEW to \in CaseStatus,
           cases' = [cases EXCEPT ![t].status = to]
    PROVE  CasesKept
<1>1. cases \in Seq(CaseRecord)
  BY DEF ShapesOK
<1>2. [cases[t] EXCEPT !.status = to] \in CaseRecord
  BY <1>1, CasesRange DEF CaseRecord
<1>3. /\ cases' \in Seq(CaseRecord) /\ DOMAIN cases' = DOMAIN cases
      /\ cases'[t] = [cases[t] EXCEPT !.status = to]
      /\ \A o \in DOMAIN cases : o # t => cases'[o] = cases[o]
  BY <1>1, <1>2
<1>4. /\ cases'[t].user = cases[t].user /\ cases'[t].cause = cases[t].cause
      /\ cases'[t].source = cases[t].source
  BY <1>2, <1>3, CasesRange DEF CaseRecord
<1>5. QED
  BY <1>3, <1>4 DEF CasesKept

LEMMA NothingOpened ==
    ASSUME ShapesOK, cases' = cases
    PROVE  CasesKept
BY DEF ShapesOK, CasesKept

\* A user's tickets stay the user's.
LEMMA OwnGrows ==
    ASSUME ShapesOK, CasesKept \/ \E m, s : CaseOpened(m, s), NEW u
    PROVE  /\ Own(u) \subseteq Own(u)'
           /\ Own(u)' \subseteq Nat /\ 0 \notin Own(u)'
<1>1. cases' \in Seq(CaseRecord) /\ cases \in Seq(CaseRecord)
  BY DEF ShapesOK, CasesKept, CaseOpened
<1>2. DOMAIN cases' \subseteq Nat /\ 0 \notin DOMAIN cases'
  BY <1>1
<1>3. Own(u) \subseteq Own(u)'
  BY DEF CasesKept, CaseOpened, Own
<1>4. QED
  BY <1>2, <1>3 DEF Own

\* A ticket keeps the conversation it came from.
LEMMA StillUnheard ==
    ASSUME CasesKept \/ \E m, s : CaseOpened(m, s), NEW row, Unheard(row)
    PROVE  Unheard(row)'
<1>1. FromDisabled \subseteq FromDisabled'
  BY DEF CasesKept, CaseOpened, FromDisabled
<1>2. QED
  BY <1>1 DEF Unheard

-----------------------------------------------------------------------------
(* What a step does with a message                                           *)

\* The target of an answer with which row w is done: there is one, or the row
\* says why there is none.
Targeted(w, target) == (\E to : target = {to}) \/ (target = {} /\ Unheard(w))

\* Message m of session s is prepared or done, its row being w: it may open one
\* ticket if it may still open one, and is answered when it is done.
Handled(m, s, w) ==
    /\ w \in WorkRecord /\ w.stage \in {"prepared", "done"} /\ w.session = s
    /\ w.ticket \in Own(s[1])' \cup {0}
    /\ work' = [work EXCEPT ![m] = w]
    /\ \/ CasesKept /\ (MayOpen(m)' => MayOpen(m))
       \/ CaseOpened(m, s) /\ MayOpen(m) /\ ~MayOpen(m)'
    /\ bound' = bound \/ \E t \in Own(s[1])' : bound' = [bound EXCEPT ![s] = t]
    /\ \/ w.stage = "prepared" /\ replies' = replies
       \/ w.stage = "done" /\ \E event \in {RunEvent(m), DeterministicEvent(m)} : \E target :
                                Answer(m, event, target) /\ Targeted(w, target)'

\* Events tell messages with an id apart.
LEMMA EventsDiffer ==
    ASSUME NEW m \in Messages \ WithoutId, NEW n \in Messages,
           NEW e \in {RunEvent(m), DeterministicEvent(m)}, e \in {RunEvent(n), DeterministicEvent(n)}
    PROVE  m = n
<1>1. m # 0
  BY WorkflowAssumption DEF Messages
<1>2. QED
  BY <1>1 DEF RunEvent, DeterministicEvent

\* What an answer adds to the outbox, with a target and without one.
LEMMA AnswerAdds ==
    ASSUME NEW m, NEW event, NEW target, Answer(m, event, target)
    PROVE  /\ target = {} => replies' = replies
           /\ \A to : target = {to} =>
                LET new == [event |-> event, to |-> to, of |-> m] IN
                /\ replies' \in {replies, replies \cup {new}}
                /\ (\A r \in replies : r.event # event) => replies' = replies \cup {new}
<1>1. ASSUME NEW to, target = {to}
      PROVE  LET new == [event |-> event, to |-> to, of |-> m] IN
             /\ replies' \in {replies, replies \cup {new}}
             /\ (\A r \in replies : r.event # event) => replies' = replies \cup {new}
  <2> DEFINE Dropped == \E r \in replies : r.event = event /\ r.to = to
  <2>1. CASE Dropped
    <3>1. {x \in target : ~\E r \in replies : r.event = event /\ r.to = x} = {}
      BY <1>1, <2>1
    <3>2. replies' = replies
      BY <3>1 DEF Answer
    <3>3. QED
      BY <2>1, <3>2
  <2>2. CASE ~Dropped
    <3>1. {x \in target : ~\E r \in replies : r.event = event /\ r.to = x} = {to}
      BY <1>1, <2>2
    <3>2. replies' = replies \cup {[event |-> event, to |-> x, of |-> m] : x \in {to}}
      BY <3>1 DEF Answer
    <3>3. QED
      BY <3>2
  <2>3. QED
    BY <2>1, <2>2
<1>2. QED
  BY <1>1 DEF Answer

LEMMA HandledReplies ==
    ASSUME WInv, NEW m \in Messages, NEW s \in Sessions, NEW w, Handled(m, s, w), work[m].stage # "done"
    PROVE  RepliesInv'
<1>1. work' = [work EXCEPT ![m] = w] /\ work \in [Messages -> WorkRecord]
  BY DEF Handled, WInv, ShapesOK
<1>2. work'[m] = w /\ \A n \in Messages : n # m => work'[n] = work[n]
  BY <1>1
<1>3. \A r \in replies : r.of \in Messages /\ r.of # m /\ r.event \in {RunEvent(r.of), DeterministicEvent(r.of)}
  BY DEF WInv, RepliesInv
<1>4. CasesKept \/ \E n, z : CaseOpened(n, z)
  BY DEF Handled
<1>5. ASSUME NEW n \in Messages \ WithoutId, n # m, work'[n].stage = "done", RepliesTo(n)' = RepliesTo(n)
      PROVE  (\E r : RepliesTo(n)' = {r}) \/ (RepliesTo(n)' = {} /\ Unheard(work[n])')
  <2>1. (\E r : RepliesTo(n) = {r}) \/ (RepliesTo(n) = {} /\ Unheard(work[n]))
    BY <1>2, <1>5 DEF WInv, RepliesInv
  <2>2. PICK row : row = work[n]
    OBVIOUS
  <2>3. Unheard(row) => Unheard(row)'
    BY <1>4, StillUnheard
  <2>4. work'[n] = row
    BY <1>2, <1>5, <2>2
  <2>5. Unheard(row)' => Unheard(work[n])'
    BY <2>4 DEF Unheard
  <2>6. QED
    BY <1>5, <2>1, <2>2, <2>3, <2>5
<1>6. CASE w.stage = "prepared" /\ replies' = replies
  <2>1. \A r \in replies' : /\ r.of \in Messages /\ work'[r.of].stage = "done"
                            /\ r.event \in {RunEvent(r.of), DeterministicEvent(r.of)}
    BY <1>2, <1>3, <1>6 DEF WInv, RepliesInv
  <2>2. \A n \in Messages : work'[n].stage = "done" => n # m
    BY <1>2, <1>6
  <2>3. \A n \in Messages : RepliesTo(n)' = RepliesTo(n)
    BY <1>6 DEF RepliesTo
  <2>4. QED
    BY <1>5, <2>1, <2>2, <2>3 DEF RepliesInv
<1>7. ASSUME NEW event \in {RunEvent(m), DeterministicEvent(m)}, NEW target, Answer(m, event, target),
             Targeted(w, target)', w.stage = "done"
      PROVE  RepliesInv'
  <2>1. CASE target = {} /\ Unheard(w)'
    <3>1. replies' = replies
      BY <1>7, <2>1, AnswerAdds
    <3>2. \A r \in replies' : /\ r.of \in Messages /\ work'[r.of].stage = "done"
                              /\ r.event \in {RunEvent(r.of), DeterministicEvent(r.of)}
      BY <1>2, <1>3, <3>1 DEF WInv, RepliesInv
    <3>3. \A n \in Messages : RepliesTo(n)' = RepliesTo(n)
      BY <3>1 DEF RepliesTo
    <3>4. RepliesTo(m)' = {} /\ Unheard(work[m])'
      <4>1. RepliesTo(m)' = {}
        BY <1>3, <3>1 DEF RepliesTo
      <4>2. Unheard(work[m])'
        BY <1>2, <2>1 DEF Unheard
      <4>3. QED
        BY <4>1, <4>2
    <3>5. QED
      BY <1>5, <3>2, <3>3, <3>4 DEF RepliesInv
  <2>2. ASSUME NEW to, target = {to}
        PROVE  RepliesInv'
    <3> DEFINE new == [event |-> event, to |-> to, of |-> m]
    <3>1. /\ replies' \in {replies, replies \cup {new}}
          /\ (\A r \in replies : r.event # event) => replies' = replies \cup {new}
      BY <1>7, <2>2, AnswerAdds
    <3>2. \A r \in replies' : r \in replies \/ r = new
      BY <3>1
    <3>3. \A r \in replies' : /\ r.of \in Messages /\ work'[r.of].stage = "done"
                              /\ r.event \in {RunEvent(r.of), DeterministicEvent(r.of)}
      BY <1>2, <1>3, <1>7, <3>2 DEF WInv, RepliesInv
    <3>4. \A n \in Messages : n # m => RepliesTo(n)' = RepliesTo(n)
      BY <3>1 DEF RepliesTo
    <3>5. m \notin WithoutId => \E r : RepliesTo(m)' = {r}
      <4>1. SUFFICES ASSUME m \notin WithoutId PROVE \E r : RepliesTo(m)' = {r}
        OBVIOUS
      <4>2. \A r \in replies : r.event # event
        BY <1>3, <4>1, EventsDiffer
      <4>3. replies' = replies \cup {new}
        BY <3>1, <4>2
      <4>4. RepliesTo(m)' = {new}
        BY <1>3, <4>3 DEF RepliesTo
      <4>5. QED
        BY <4>4
    <3>6. QED
      BY <1>5, <3>3, <3>4, <3>5 DEF RepliesInv
  <2>3. QED
    BY <1>7, <2>1, <2>2 DEF Targeted
<1>8. QED
  BY <1>6, <1>7 DEF Handled

LEMMA HandledCauses ==
    ASSUME WInv, NEW m \in Messages, NEW s \in Sessions, NEW w, Handled(m, s, w)
    PROVE  CausesInv'
<1>1. work \in [Messages -> WorkRecord] /\ cases \in Seq(CaseRecord)
  BY DEF WInv, ShapesOK
<1>2. \A n \in Messages : n # m => (MayOpen(n)' <=> MayOpen(n))
  BY <1>1 DEF Handled, MayOpen
<1>3. \A t \in DOMAIN cases : cases[t].cause \in Messages /\ ~MayOpen(cases[t].cause)
  BY CasesRange DEF WInv, CausesInv, CaseRecord
<1>4. CASE CasesKept /\ (MayOpen(m)' => MayOpen(m))
  <2>1. ASSUME NEW t \in DOMAIN cases' PROVE ~MayOpen(cases[t].cause)' /\ OpenedFrom(t)' \in Sessions
    <3>1. ~MayOpen(cases[t].cause)'
      BY <1>2, <1>3, <1>4 DEF CasesKept, MayOpen
    <3>2. OpenedFrom(t)' = OpenedFrom(t) /\ t \in DOMAIN cases
      BY <1>4 DEF CasesKept, OpenedFrom
    <3>3. QED
      BY <3>1, <3>2 DEF WInv, CausesInv
  <2>2. OneCasePerMessage'
    BY <1>4 DEF CasesKept, WInv, CausesInv, OneCasePerMessage
  <2>3. QED
    BY <2>1, <2>2 DEF CausesInv, MayOpen
<1>5. CASE CaseOpened(m, s) /\ MayOpen(m) /\ ~MayOpen(m)'
  <2>1. \A t \in DOMAIN cases : cases[t].cause # m
    BY <1>3, <1>5
  <2>2. ASSUME NEW t \in DOMAIN cases' PROVE ~MayOpen(cases[t].cause)' /\ OpenedFrom(t)' \in Sessions
    <3>1. ~MayOpen(cases[t].cause)'
      BY <1>2, <1>3, <1>5 DEF CaseOpened, MayOpen
    <3>2. CASE t \in DOMAIN cases
      <4>1. OpenedFrom(t)' = OpenedFrom(t)
        BY <1>5, <3>2 DEF CaseOpened, OpenedFrom
      <4>2. QED
        BY <3>1, <3>2, <4>1 DEF WInv, CausesInv
    <3>3. CASE t = Len(cases) + 1
      <4>1. OpenedFrom(t)' = s
        BY <1>5, <3>3 DEF CaseOpened, OpenedFrom
      <4>2. QED
        BY <3>1, <4>1
    <3>4. QED
      BY <1>5, <3>2, <3>3 DEF CaseOpened
  <2>3. OneCasePerMessage'
    BY <1>5, <2>1 DEF CaseOpened, WInv, CausesInv, OneCasePerMessage
  <2>4. QED
    BY <2>2, <2>3 DEF CausesInv, MayOpen
<1>6. QED
  BY <1>4, <1>5 DEF Handled

LEMMA HandledKeeps ==
    ASSUME WInv, NEW m \in Messages, NEW s \in Sessions, NEW w, Handled(m, s, w), work[m].stage # "done"
    PROVE  WInv'
<1>1. ShapesOK /\ OwnCaseOnly
  BY DEF WInv
<1>2. \A u : Own(u) \subseteq Own(u)' /\ Own(u)' \subseteq Nat /\ 0 \notin Own(u)'
  BY <1>1, OwnGrows DEF Handled
<1>3. cases' \in Seq(CaseRecord)
  BY DEF Handled, CasesKept, CaseOpened
<1>4. /\ work' \in [Messages -> WorkRecord] /\ work'[m] = w
      /\ \A n \in Messages : n # m => work'[n] = work[n]
  BY <1>1 DEF Handled, ShapesOK
<1>5. /\ bound' \in [Sessions -> Nat]
      /\ \A z \in Sessions : bound'[z] = bound[z] \/ bound'[z] \in Own(z[1])'
  BY <1>1, <1>2 DEF Handled, ShapesOK
<1>6. ShapesOK'
  BY <1>1, <1>3, <1>4, <1>5 DEF ShapesOK, Handled
<1>7. OwnCaseOnly'
  BY <1>1, <1>2, <1>4, <1>5 DEF OwnCaseOnly, Handled
<1>8. QED
  BY <1>6, <1>7, HandledCauses, HandledReplies DEF WInv

\* What becomes of the session's ticket: it stays, or is one of the sender's.
BoundToOwn(s) == bound' = bound \/ \E t \in Own(s[1])' : bound' = [bound EXCEPT ![s] = t]

LEMMA PrepareHandles ==
    ASSUME WInv, NEW m \in Messages, NEW s \in Sessions, work[m].stage = "new",
           NEW kind \in WorkKind, NEW intent \in IntentsOfWork, NEW created \in BOOLEAN,
           NEW t \in Own(s[1])' \cup {0}, Prepare(m, s, kind, intent, t, created),
           CasesKept \/ (CaseOpened(m, s) /\ intent # "chitchat"),
           BoundToOwn(s)
    PROVE  \E w : Handled(m, s, w)
<1> DEFINE w == [stage |-> "prepared", session |-> s, kind |-> kind, intent |-> intent,
                 ticket |-> t, created |-> created]
<1>1. t \in Nat
  BY OwnGrows DEF WInv
<1>2. w \in WorkRecord
  BY <1>1 DEF WorkRecord
<1>3. work' = [work EXCEPT ![m] = w] /\ replies' = replies
  BY DEF Prepare
<1>4. work'[m] = w
  BY <1>3 DEF WInv, ShapesOK
<1>5. MayOpen(m) /\ (MayOpen(m)' => intent = "chitchat")
  BY <1>4 DEF MayOpen
<1>6. Handled(m, s, w)
  BY <1>2, <1>3, <1>5 DEF Handled, BoundToOwn
<1>7. QED
  BY <1>6

\* A message is done with an answer.
LEMMA FinishHandles ==
    ASSUME WInv, NEW m \in Messages, NEW s \in Sessions,
           NEW t \in Own(s[1])' \cup {0}, work' = [work EXCEPT ![m] = Finished(s, t)],
           NEW event \in {RunEvent(m), DeterministicEvent(m)}, NEW target, Answer(m, event, target),
           Targeted(Finished(s, t), target)',
           CasesKept \/ (CaseOpened(m, s) /\ MayOpen(m)),
           BoundToOwn(s)
    PROVE  \E w : Handled(m, s, w)
<1> DEFINE w == Finished(s, t)
<1>1. t \in Nat
  BY OwnGrows DEF WInv
<1>2. w \in WorkRecord /\ w.stage = "done" /\ w.session = s /\ w.ticket = t
  BY <1>1 DEF Finished, NewMessage, WorkRecord, WorkKind, IntentsOfWork
<1>3. work'[m] = w
  BY DEF WInv, ShapesOK
<1>4. ~MayOpen(m)'
  BY <1>2, <1>3 DEF MayOpen
<1>5. Handled(m, s, w)
  BY <1>2, <1>4 DEF Handled, BoundToOwn
<1>6. QED
  BY <1>5

LEMMA DeterministicHandles ==
    ASSUME WInv, NEW m \in Messages, NEW s \in Sessions,
           NEW t \in Own(s[1])' \cup {0}, Deterministic(m, s, t), CasesKept, BoundToOwn(s)
    PROVE  \E w : Handled(m, s, w)
<1> DEFINE target == ConversationTarget(s[2])
<1>1. Finished(s, t).session = s
  BY DEF Finished, NewMessage
<1>2. Targeted(Finished(s, t), target)'
  <2>1. CASE s[2] \in Disabled
    BY <1>1, <2>1 DEF Targeted, ConversationTarget, Unheard
  <2>2. CASE s[2] \notin Disabled
    <3>1. target = {s[2]}
      BY <2>2 DEF ConversationTarget
    <3>2. QED
      BY <3>1 DEF Targeted, ConversationTarget
  <2>3. QED
    BY <2>1, <2>2
<1>3. Answer(m, DeterministicEvent(m), target) /\ work' = [work EXCEPT ![m] = Finished(s, t)]
  BY DEF Deterministic
<1> HIDE DEF target
<1>4. QED
  BY <1>2, <1>3, FinishHandles

-----------------------------------------------------------------------------
(* prepare(), resume() and apply() handle their message                      *)

LEMMA ConfirmationHandles ==
    ASSUME WInv, NEW m \in Messages, NEW s \in Sessions, NEW c, HandleConfirmation(m, s, c)
    PROVE  \E w : Handled(m, s, w)
<1> DEFINE t == ResolutionCandidate(c.names, s)
<1>1. t \in Own(s[1])
  BY ResolutionIsOwn DEF HandleConfirmation, IsAnswer, WInv
<1>2. PICK to \in CaseStatus : cases' = [cases EXCEPT ![t].status = to]
  BY DEF HandleConfirmation, Move, CaseStatus
<1>3. CasesKept
  BY <1>1, <1>2, MoveEffect DEF WInv, Own
<1>4. t \in Own(s[1])'
  BY <1>1, <1>3, OwnGrows DEF WInv
<1> HIDE DEF t
<1>5. Deterministic(m, s, t) /\ BoundToOwn(s)
  BY DEF HandleConfirmation, BoundToOwn, t
<1>6. QED
  BY <1>3, <1>4, <1>5, DeterministicHandles

\* A message that opens a ticket, bound to its session or not.
LEMMA OpeningHandles ==
    ASSUME WInv, NEW m \in Messages, NEW s \in Sessions, work[m].stage = "new",
           CreateCase(m, s), NEW kind \in WorkKind, NEW intent \in IntentsOfWork, NEW created \in BOOLEAN,
           intent # "chitchat", Prepare(m, s, kind, intent, Len(cases'), created),
           bound' = bound \/ Bind(s, Len(cases'))
    PROVE  \E w : Handled(m, s, w)
<1>1. CaseOpened(m, s) /\ Len(cases') \in Own(s[1])'
  BY SessionUser, CreateEffect DEF WInv
<1>2. PICK t \in Own(s[1])' : t = Len(cases')
  BY <1>1
<1>3. Prepare(m, s, kind, intent, t, created) /\ BoundToOwn(s)
  BY <1>2 DEF BoundToOwn, Bind
<1>4. QED
  BY <1>1, <1>3, PrepareHandles

LEMMA FaqHandles ==
    ASSUME WInv, NEW m \in Messages, NEW s \in Sessions, work[m].stage = "new",
           NEW grounded \in BOOLEAN, PrepareFaq(m, s, grounded)
    PROVE  \E w : Handled(m, s, w)
<1>1. CASE grounded
  <2>1. Prepare(m, s, "faq_answer", "faq", 0, FALSE) /\ CasesKept /\ BoundToOwn(s)
    BY <1>1, NothingOpened DEF PrepareFaq, BoundToOwn, WInv
  <2>2. QED
    BY <2>1, PrepareHandles DEF WorkKind, IntentsOfWork
<1>2. CASE ~grounded
  <2>1. /\ CreateCase(m, s) /\ bound' = bound
        /\ Prepare(m, s, "no_answer", "no_answer", Len(cases'), FALSE)
    BY <1>2 DEF PrepareFaq
  <2>2. QED
    BY <2>1, OpeningHandles DEF WorkKind, IntentsOfWork
<1>3. QED
  BY <1>1, <1>2

LEMMA SupportHandles ==
    ASSUME WInv, NEW m \in Messages, NEW s \in Sessions, work[m].stage = "new",
           NEW c, PrepareSupport(m, s, c)
    PROVE  \E w : Handled(m, s, w)
<1>1. CASE Clarify(m, s, c)
  <2>1. Deterministic(m, s, 0) /\ CasesKept /\ BoundToOwn(s)
    BY <1>1, NothingOpened DEF Clarify, BoundToOwn, WInv
  <2>2. QED
    BY <2>1, DeterministicHandles
<1>2. CASE OpenCase(m, s, c)
  <2>1. /\ CreateCase(m, s) /\ Bind(s, Len(cases'))
        /\ Prepare(m, s, "ticket", "support", Len(cases'), TRUE)
    BY <1>2 DEF OpenCase
  <2>2. QED
    BY <2>1, OpeningHandles DEF WorkKind, IntentsOfWork
<1>3. CASE ContinueCase(m, s, c)
  <2> DEFINE t == Resolution(c.names, s).ticket
  <2>1. CasesKept
    BY <1>3, NothingOpened DEF ContinueCase, WInv
  <2>2. t \in Own(s[1])'
    BY <1>3, <2>1, ResolutionIsOwn, OwnGrows DEF ContinueCase, WInv
  <2> HIDE DEF t
  <2>3. Prepare(m, s, "ticket", "support", t, FALSE) /\ BoundToOwn(s)
    BY <1>3, <2>2 DEF ContinueCase, Bind, BoundToOwn, t
  <2>4. QED
    BY <2>1, <2>2, <2>3, PrepareHandles DEF WorkKind, IntentsOfWork
<1>4. QED
  BY <1>1, <1>2, <1>3 DEF PrepareSupport

LEMMA ProgressHandles ==
    ASSUME WInv, NEW m \in Messages, NEW s \in Sessions, NEW c, TellProgress(m, s, c)
    PROVE  \E w : Handled(m, s, w)
<1> DEFINE found == Resolution(c.names, s)
<1> DEFINE t == IF found.kind = "CREATE_NEW" THEN RecentTicket(s[1]) ELSE found.ticket
<1>1. CasesKept
  BY NothingOpened DEF TellProgress, WInv
<1>2. t \in Own(s[1]) \cup {0}
  BY ResolutionIsOwn, RecentIsOwn DEF WInv
<1>3. t \in Own(s[1])' \cup {0}
  BY <1>1, <1>2, OwnGrows DEF WInv
<1>4. Deterministic(m, s, t) /\ (IF t = 0 THEN UNCHANGED bound ELSE Bind(s, t))
  BY DEF TellProgress
<1> HIDE DEF t
<1>5. BoundToOwn(s)
  BY <1>3, <1>4 DEF Bind, BoundToOwn
<1>6. QED
  BY <1>1, <1>3, <1>4, <1>5, DeterministicHandles

LEMMA ChitchatHandles ==
    ASSUME WInv, NEW m \in Messages, NEW s \in Sessions, work[m].stage = "new",
           NEW kind \in WorkKind, PrepareChitchat(m, s, kind)
    PROVE  \E w : Handled(m, s, w)
<1>1. Prepare(m, s, kind, "chitchat", 0, FALSE) /\ CasesKept /\ BoundToOwn(s)
  BY NothingOpened DEF PrepareChitchat, BoundToOwn, WInv
<1>2. QED
  BY <1>1, PrepareHandles DEF IntentsOfWork

LEMMA RequesterHandles ==
    ASSUME WInv, NEW m \in Messages, NEW s \in Sessions, work[m].stage = "new",
           NEW c, PrepareRequester(m, s, c)
    PROVE  \E w : Handled(m, s, w)
<1>1. CASE HandleConfirmation(m, s, c)
  BY <1>1, ConfirmationHandles
<1>2. CASE \E grounded \in BOOLEAN : PrepareFaq(m, s, grounded)
  BY <1>2, FaqHandles
<1>3. CASE PrepareChitchat(m, s, "chitchat")
  BY <1>3, ChitchatHandles DEF WorkKind
<1>4. CASE PrepareSupport(m, s, c) \/ Clarify(m, s, c)
  BY <1>4, SupportHandles DEF PrepareSupport
<1>5. CASE TellProgress(m, s, c)
  BY <1>5, ProgressHandles
<1>6. ASSUME NEW llm \in BOOLEAN, PrepareOther(m, s, llm)
      PROVE  \E w : Handled(m, s, w)
  <2>1. CASE llm
    BY <1>6, <2>1, ChitchatHandles DEF PrepareOther, WorkKind
  <2>2. CASE ~llm
    <3>1. Deterministic(m, s, 0) /\ CasesKept /\ BoundToOwn(s)
      BY <1>6, <2>2, NothingOpened DEF PrepareOther, BoundToOwn, WInv
    <3>2. QED
      BY <3>1, DeterministicHandles
  <2>3. QED
    BY <2>1, <2>2
<1>7. QED
  BY <1>1, <1>2, <1>3, <1>4, <1>5, <1>6 DEF PrepareRequester

LEMMA CommandHandles ==
    ASSUME WInv, NEW m \in Messages, NEW s \in Sessions, NEW role, NEW t,
           NEW moves \in SUBSET (CaseStatus \X CaseStatus), Command(m, s, role, t, moves)
    PROVE  \E w : Handled(m, s, w)
<1>1. Deterministic(m, s, 0) /\ BoundToOwn(s)
  BY DEF Command, BoundToOwn
<1>2. CasesKept
  <2>1. CASE s[1] \in role /\ Exists(t)
    <3> DEFINE old == cases[t].status
    <3> DEFINE to == IF \E v \in moves : v[1] = old THEN (CHOOSE v \in moves : v[1] = old)[2] ELSE old
    <3>1. t \in DOMAIN cases /\ old \in CaseStatus
      BY <2>1, CasesRange DEF WInv, Exists, CaseRecord
    <3>2. to \in CaseStatus
      BY <3>1
    <3>3. cases' = [cases EXCEPT ![t].status = to]
      BY <2>1 DEF Command
    <3> HIDE DEF to
    <3>4. QED
      BY <3>1, <3>2, <3>3, MoveEffect DEF WInv
  <2>2. CASE ~(s[1] \in role /\ Exists(t))
    BY <2>2, NothingOpened DEF Command, WInv
  <2>3. QED
    BY <2>1, <2>2
<1>3. QED
  BY <1>1, <1>2, DeterministicHandles

LEMMA ReceiveHandles ==
    ASSUME WInv, NEW m \in Messages, NEW s \in Sessions, work[m].stage = "new",
           \/ \E c \in Contents : ReceiveInRequesterFlow(m, s, c)
           \/ \E c \in OperatorCommands : ReceiveFromOperator(m, s, c)
           \/ \E order \in ApproverCommands, t \in 1..MaxTickets, closes \in BOOLEAN :
                ReceiveFromApprover(m, s, order, t, closes)
    PROVE  \E w : Handled(m, s, w)
<1>1. ASSUME NEW c, ReceiveInRequesterFlow(m, s, c)
      PROVE  \E w : Handled(m, s, w)
  BY <1>1, RequesterHandles DEF ReceiveInRequesterFlow
<1>2. ASSUME NEW c, ReceiveFromOperator(m, s, c)
      PROVE  \E w : Handled(m, s, w)
  <2>1. Moves(c.order) \in SUBSET (CaseStatus \X CaseStatus)
    BY DEF Moves, CaseStatus
  <2>2. QED
    BY <1>2, <2>1, CommandHandles DEF ReceiveFromOperator
<1>3. ASSUME NEW order, NEW t, NEW closes, ReceiveFromApprover(m, s, order, t, closes)
      PROVE  \E w : Handled(m, s, w)
  <2> DEFINE moves == IF order = "approve" /\ closes
                      THEN {<<"IN_PROGRESS", "CLOSED">>, <<"RESOLVED", "CLOSED">>} ELSE {}
  <2>1. moves \in SUBSET (CaseStatus \X CaseStatus)
    BY DEF CaseStatus
  <2>2. Command(m, s, Approvers, t, moves)
    BY <1>3 DEF ReceiveFromApprover
  <2> HIDE DEF moves
  <2>3. QED
    BY <2>1, <2>2, CommandHandles
<1>4. QED
  BY <1>1, <1>2, <1>3

\* A run answers where the message came from, or where the ticket's notices go.
LEMMA RunTargets ==
    ASSUME NEW s \in Sessions, NEW t
    PROVE  /\ Targeted(Finished(s, t), ConversationTarget(s[2]))'
           /\ \A target \in RequesterTargets(t) : cases' = cases => Targeted(Finished(s, t), target)'
<1>1. Finished(s, t).session = s /\ Finished(s, t).ticket = t
  BY DEF Finished, NewMessage
<1>2. s[2] \in Disabled => Targeted(Finished(s, t), ConversationTarget(s[2]))'
  BY <1>1 DEF Targeted, ConversationTarget, Unheard
<1>3. s[2] \notin Disabled => Targeted(Finished(s, t), ConversationTarget(s[2]))'
  <2>1. s[2] \notin Disabled => ConversationTarget(s[2]) = {s[2]}
    BY DEF ConversationTarget
  <2>2. QED
    BY <2>1 DEF Targeted, ConversationTarget
<1>4. ASSUME NEW target \in RequesterTargets(t), cases' = cases
      PROVE  Targeted(Finished(s, t), target)'
  <2>1. FromDisabled' = FromDisabled
    BY <1>4 DEF FromDisabled
  <2>2. target = {"requester_public"} \/ (target = {} /\ t \in FromDisabled)
    BY <1>4 DEF RequesterTargets
  <2>3. CASE target = {} /\ t \in FromDisabled
    BY <1>1, <2>1, <2>3 DEF Targeted, Unheard
  <2>4. CASE target = {"requester_public"}
    BY <2>4 DEF Targeted
  <2>5. QED
    BY <2>2, <2>3, <2>4
<1>5. QED
  BY <1>2, <1>3, <1>4

LEMMA ApplyHandles ==
    ASSUME WInv, NEW m \in Messages, Apply(m)
    PROVE  work[m].session \in Sessions /\ \E w : Handled(m, work[m].session, w)
<1>1. PICK s \in Sessions : /\ s = work[m].session /\ work[m].stage = "prepared"
                           /\ work[m].ticket \in Own(s[1]) \cup {0}
  BY DEF Apply, WInv, ShapesOK, OwnCaseOnly
<1>2. ASSUME NEW t \in {work[m].ticket, 0}, UNCHANGED <<cases, bound>>, NEW target,
             work' = [work EXCEPT ![m] = Finished(s, t)], Answer(m, RunEvent(m), target),
             Targeted(Finished(s, t), target)'
      PROVE  \E w : Handled(m, s, w)
  <2>1. CasesKept /\ BoundToOwn(s)
    BY <1>2, NothingOpened DEF BoundToOwn, WInv
  <2>2. t \in Own(s[1])' \cup {0}
    BY <1>1, <2>1, OwnGrows DEF WInv
  <2>3. QED
    BY <1>1, <1>2, <2>1, <2>2, FinishHandles
<1>3. ASSUME CreateCase(m, s), Bind(s, Len(cases')), work[m].intent = "chitchat",
             work' = [work EXCEPT ![m] = Finished(s, Len(cases'))],
             Answer(m, RunEvent(m), ConversationTarget(s[2]))
      PROVE  \E w : Handled(m, s, w)
  <2>1. CaseOpened(m, s) /\ Len(cases') \in Own(s[1])'
    BY <1>1, <1>3, CreateEffect DEF WInv
  <2>2. PICK t \in Own(s[1])' : t = Len(cases')
    BY <2>1
  <2>3. BoundToOwn(s) /\ work' = [work EXCEPT ![m] = Finished(s, t)]
    BY <1>3, <2>2 DEF BoundToOwn, Bind
  <2>4. MayOpen(m)
    BY <1>1, <1>3 DEF MayOpen
  <2>5. PICK target : target = ConversationTarget(s[2])
    OBVIOUS
  <2>6. Targeted(Finished(s, t), ConversationTarget(s[2]))'
    BY RunTargets
  <2>7. Targeted(Finished(s, t), target)'
    BY <2>5, <2>6 DEF Targeted, ConversationTarget
  <2>8. QED
    BY <1>1, <1>3, <2>1, <2>3, <2>4, <2>5, <2>7, FinishHandles
<1>4. ASSUME NEW run \in Runs, ApplyChitchat(m, run)
      PROVE  \E w : Handled(m, s, w)
  <2>1. Answer(m, RunEvent(m), ConversationTarget(s[2])) /\ work[m].intent = "chitchat"
    BY <1>1, <1>4 DEF ApplyChitchat
  <2>2. CASE CreateCase(m, s) /\ Bind(s, Len(cases')) /\ Finish(m, Len(cases'))
    BY <1>1, <1>3, <2>1, <2>2 DEF Finish
  <2>3. CASE UNCHANGED <<cases, bound>> /\ Finish(m, 0)
    <3>1. PICK target : target = ConversationTarget(s[2])
      OBVIOUS
    <3>2. Targeted(Finished(s, 0), ConversationTarget(s[2]))'
      BY RunTargets
    <3>3. Targeted(Finished(s, 0), target)'
      BY <3>1, <3>2 DEF Targeted, ConversationTarget
    <3>4. QED
      BY <1>1, <1>2, <2>1, <2>3, <3>1, <3>3 DEF Finish
  <2>4. QED
    BY <1>1, <1>4, <2>2, <2>3 DEF ApplyChitchat
<1>5. CASE ApplyFaq(m)
  <2>1. PICK target : target = ConversationTarget(s[2])
    OBVIOUS
  <2>2. Targeted(Finished(s, 0), ConversationTarget(s[2]))'
    BY RunTargets
  <2>3. Targeted(Finished(s, 0), target)'
    BY <2>1, <2>2 DEF Targeted, ConversationTarget
  <2>4. Answer(m, RunEvent(m), target) /\ UNCHANGED <<cases, bound>> /\ Finish(m, 0)
    BY <1>1, <1>5, <2>1 DEF ApplyFaq
  <2>5. QED
    BY <1>1, <1>2, <2>3, <2>4 DEF Finish
<1>6. CASE ApplyCase(m)
  <2>1. PICK t : t = work[m].ticket
    OBVIOUS
  <2>2. PICK target \in RequesterTargets(t) : Answer(m, RunEvent(m), target)
    BY <1>6, <2>1 DEF ApplyCase
  <2>3. UNCHANGED <<cases, bound>> /\ work' = [work EXCEPT ![m] = Finished(s, t)]
    BY <1>1, <1>6, <2>1 DEF ApplyCase, Finish
  <2>4. Targeted(Finished(s, t), target)'
    BY <2>3, RunTargets
  <2>5. t \in {work[m].ticket, 0}
    BY <2>1
  <2>6. \E w : Handled(m, s, w)
    BY <1>2, <2>2, <2>3, <2>4, <2>5
  <2>7. QED
    BY <1>1, <2>6
<1>7. QED
  BY <1>1, <1>4, <1>5, <1>6 DEF Apply

LEMMA ResumeHandles ==
    ASSUME WInv, NEW m \in Messages, Resume(m)
    PROVE  work[m].session \in Sessions /\ \E w : Handled(m, work[m].session, w)
<1>1. PICK s \in Sessions : /\ s = work[m].session /\ work[m].stage = "prepared"
                           /\ work[m].ticket \in Own(s[1]) \cup {0}
                           /\ work[m] \in WorkRecord
  BY DEF Resume, WInv, ShapesOK, OwnCaseOnly
<1>2. PICK w \in WorkRecord : /\ work' = [work EXCEPT ![m] = w] /\ w.stage = "prepared" /\ w.session = s
                             /\ w.ticket = work[m].ticket /\ w.intent = work[m].intent
  <2>1. [work[m] EXCEPT !.created = FALSE] \in WorkRecord
    BY <1>1 DEF WorkRecord
  <2>2. QED
    BY <1>1, <2>1 DEF Resume, WorkRecord
<1>3. work'[m] = w
  BY <1>2 DEF WInv, ShapesOK
<1>4. CasesKept
  BY NothingOpened DEF Resume, WInv
<1>5. w.ticket \in Own(s[1])' \cup {0}
  BY <1>1, <1>2, <1>4, OwnGrows DEF WInv
<1>6. MayOpen(m)' => MayOpen(m)
  BY <1>1, <1>2, <1>3 DEF MayOpen
<1>7. Handled(m, s, w)
  BY <1>2, <1>4, <1>5, <1>6 DEF Handled, Resume
<1>8. QED
  BY <1>1, <1>7

\* Tickets that move by REST disturb nothing.
LEMMA MoveKeeps ==
    ASSUME WInv, NEW t, NEW to \in CaseStatus, TicketMoves(t, to)
    PROVE  WInv'
<1>1. CasesKept
  BY MoveEffect DEF TicketMoves, Exists, Move, WInv
<1>2. \A u : Own(u) \subseteq Own(u)'
  BY <1>1, OwnGrows DEF WInv
<1>3. bound' = bound /\ work' = work /\ replies' = replies
  BY DEF TicketMoves
<1>4. ShapesOK'
  BY <1>1, <1>3 DEF WInv, ShapesOK, CasesKept
<1>5. OwnCaseOnly'
  BY <1>2, <1>3 DEF WInv, OwnCaseOnly
<1>6. CausesInv'
  BY <1>1, <1>3 DEF WInv, CausesInv, CasesKept, OneCasePerMessage, MayOpen, OpenedFrom
<1>7. RepliesInv'
  <2>1. ASSUME NEW m \in Messages \ WithoutId, work[m].stage = "done"
        PROVE  (\E r : RepliesTo(m) = {r}) \/ (RepliesTo(m) = {} /\ Unheard(work[m])')
    <3>1. PICK row : row = work[m]
      OBVIOUS
    <3>2. Unheard(row) => Unheard(row)'
      BY <1>1, StillUnheard
    <3>3. Unheard(row)' => Unheard(work[m])'
      BY <1>3, <3>1 DEF Unheard
    <3>4. QED
      BY <2>1, <3>1, <3>2, <3>3 DEF WInv, RepliesInv
  <2>2. QED
    BY <1>3, <2>1 DEF WInv, RepliesInv, RepliesTo
<1>8. QED
  BY <1>4, <1>5, <1>6, <1>7 DEF WInv

-----------------------------------------------------------------------------
(* The inductive invariant                                                   *)

LEMMA WInvInit == WorkflowInit => WInv
<1> SUFFICES ASSUME WorkflowInit PROVE WInv
  OBVIOUS
<1>1. cases \in Seq(CaseRecord) /\ DOMAIN cases = {} /\ replies = {}
  BY DEF WorkflowInit
<1>2. NewMessage \in WorkRecord /\ NewMessage.stage = "new" /\ NewMessage.ticket = 0
  BY DEF NewMessage, WorkRecord, WorkKind, IntentsOfWork
<1>3. ShapesOK
  BY <1>1, <1>2 DEF WorkflowInit, ShapesOK
<1>4. OwnCaseOnly
  BY <1>2 DEF WorkflowInit, OwnCaseOnly
<1>5. CausesInv
  BY <1>1 DEF CausesInv, OneCasePerMessage
<1>6. RepliesInv
  BY <1>1, <1>2 DEF WorkflowInit, RepliesInv
<1>7. QED
  BY <1>3, <1>4, <1>5, <1>6 DEF WInv

LEMMA WInvStep == WInv /\ [WorkflowNext]_workflowVars => WInv'
<1> SUFFICES ASSUME WInv, [WorkflowNext]_workflowVars PROVE WInv'
  OBVIOUS
<1>1. ASSUME NEW m \in Messages, NEW s \in Sessions, NextIn(m),
             \/ \E c \in Contents : ReceiveInRequesterFlow(m, s, c)
             \/ \E c \in OperatorCommands : ReceiveFromOperator(m, s, c)
             \/ \E order \in ApproverCommands, t \in 1..MaxTickets, closes \in BOOLEAN :
                  ReceiveFromApprover(m, s, order, t, closes)
      PROVE  WInv'
  BY <1>1, ReceiveHandles, HandledKeeps DEF NextIn
<1>2. ASSUME NEW m \in Messages, Apply(m)
      PROVE  WInv'
  BY <1>2, ApplyHandles, HandledKeeps DEF Apply
<1>3. ASSUME NEW m \in Messages, Resume(m)
      PROVE  WInv'
  BY <1>3, ResumeHandles, HandledKeeps DEF Resume
<1>4. ASSUME NEW t, NEW to \in {"IN_PROGRESS", "RESOLVED", "CLOSED"}, TicketMoves(t, to)
      PROVE  WInv'
  BY <1>4, MoveKeeps DEF CaseStatus
<1>5. CASE UNCHANGED workflowVars
  BY <1>5 DEF workflowVars, WInv, ShapesOK, OwnCaseOnly, Own, CausesInv, OneCasePerMessage, MayOpen,
              OpenedFrom, RepliesInv, RepliesTo, Unheard, FromDisabled
<1>6. QED
  BY <1>1, <1>2, <1>3, <1>4, <1>5 DEF WorkflowNext

LEMMA WInvInvariant == WorkflowSpec => []WInv
BY WInvInit, WInvStep, PTL DEF WorkflowSpec

-----------------------------------------------------------------------------
(* Theorems                                                                  *)

\* The tables keep their shapes, and every ticket a row names is there.
THEOREM WorkflowTypeCorrect == WorkflowSpec => []WorkflowTypeOK
<1>1. ASSUME WInv PROVE WorkflowTypeOK
  <2>1. \A t \in DOMAIN cases : cases[t] \in CaseRecord
    BY <1>1, CasesRange DEF WInv
  <2>2. \A u : Own(u) \subseteq 0..Len(cases) /\ 0 \in 0..Len(cases)
    BY <1>1, CasesRange DEF WInv
  <2>3. bound \in [Sessions -> 0..Len(cases)]
    BY <1>1, <2>2 DEF WInv, ShapesOK, OwnCaseOnly
  <2>4. \A m \in Messages : work[m].stage \in {"new", "prepared", "done"} /\ work[m].ticket \in 0..Len(cases)
    BY <1>1, <2>2 DEF WInv, ShapesOK, OwnCaseOnly, WorkRecord
  <2>5. QED
    BY <1>1, <2>1, <2>3, <2>4 DEF WorkflowTypeOK, WInv, RepliesInv, CaseRecord, CaseStatus
<1>2. QED
  BY <1>1, WInvInvariant, PTL

\* Whatever ids a text names, a message is only about its sender's tickets.
THEOREM OwnCaseOnlyHolds == WorkflowSpec => []OwnCaseOnly
<1>1. WInv => OwnCaseOnly
  BY DEF WInv
<1>2. QED
  BY <1>1, WInvInvariant, PTL

\* However often the agent phase is rebuilt, a message opens one ticket at most.
THEOREM OneCasePerMessageHolds == WorkflowSpec => []OneCasePerMessage
<1>1. WInv => OneCasePerMessage
  BY DEF WInv, CausesInv
<1>2. QED
  BY <1>1, WInvInvariant, PTL

\* A message with an id of its own is answered exactly when it is done, once, or
\* not at all when it or its ticket came from a conversation that is disabled.
THEOREM AnsweredOnceHolds == WorkflowSpec => []AnsweredOnce
<1>1. ASSUME WInv, NEW m \in Messages \ WithoutId
      PROVE  \/ Cardinality(RepliesTo(m)) = IF work[m].stage = "done" THEN 1 ELSE 0
             \/ Cardinality(RepliesTo(m)) = 0 /\ Unheard(work[m])
  <2>1. CASE work[m].stage = "done"
    <3>1. (\E r : RepliesTo(m) = {r}) \/ (RepliesTo(m) = {} /\ Unheard(work[m]))
      BY <1>1, <2>1 DEF WInv, RepliesInv
    <3>2. QED
      BY <2>1, <3>1, FS_Singleton, FS_EmptySet
  <2>2. CASE work[m].stage # "done"
    <3>1. RepliesTo(m) = {}
      BY <1>1, <2>2 DEF WInv, RepliesInv, RepliesTo
    <3>2. QED
      BY <2>2, <3>1, FS_EmptySet
  <2>3. QED
    BY <2>1, <2>2
<1>2. WInv => AnsweredOnce
  BY <1>1 DEF AnsweredOnce, RepliesTo
<1>3. QED
  BY <1>2, WInvInvariant, PTL

\* A text that names a ticket asks how it goes, whatever else it holds.
LEMMA NamesAskProgress ==
    ASSUME NEW c \in Contents, c.names # 0
    PROVE  c.says = "progress_query"
<1>1. PICK words \in SUBSET AnswerWords, ticket \in 0..MaxTickets, social \in SocialSigns, guard \in BOOLEAN,
           hits \in Keywords, s \in Semantics({"none", "anchors", "setfit"}, {30, 57, 65, 80}) :
           c = Content(words, ticket, social, guard, hits, s)
  BY DEF Contents
<1>2. c.names = ticket
  BY <1>1 DEF Content
<1>3. RouteByRules(ticket, social, hits) = Routed("progress_query", 90, FALSE, "ticket-id-reference")
  BY <1>2 DEF RouteByRules
<1>4. /\ Route(ticket, social, hits, s).intent = "progress_query"
      /\ Route(ticket, social, hits, s).reason = "rule-fastpath"
  BY <1>3 DEF Route, Routed
<1>5. QED
  BY <1>1, <1>4 DEF Content

\* What a report is taken to be about is still open.
LEMMA ReportedIsOpen ==
    ASSUME ShapesOK, NEW s \in Sessions, NEW c \in Contents, GoesToSupport(s, c),
           Resolution(c.names, s).ticket # 0
    PROVE  cases[Resolution(c.names, s).ticket].status # "CLOSED"
<1>1. c.names = 0
  BY NamesAskProgress DEF GoesToSupport
<1>2. FindExplicit(c.names, s[1]) = 0
  BY <1>1 DEF FindExplicit
<1>3. SessionTicket(s) # 0 => cases[SessionTicket(s)].status # "CLOSED"
  BY DEF SessionTicket
<1>4. \A active : active # {} => (CHOOSE t \in active : TRUE) \in active
  OBVIOUS
<1>5. ActiveTickets(s[1]) # {} => cases[CHOOSE t \in ActiveTickets(s[1]) : TRUE].status # "CLOSED"
  BY <1>4 DEF ActiveTickets
<1>6. QED
  BY <1>2, <1>3, <1>5 DEF Resolution

\* No report is recorded onto a finished ticket.
THEOREM ReportNotOnClosedHolds == WorkflowSpec => ReportNotOnClosed
<1> DEFINE OnOpen(m) == /\ work[m].stage = "new" /\ work'[m].intent = "support"
                        /\ work'[m].ticket \in DOMAIN cases
                        => cases[work'[m].ticket].status # "CLOSED"
<1>1. ASSUME WInv, [WorkflowNext]_workflowVars, NEW m \in Messages,
             work[m].stage = "new", work'[m].intent = "support", work'[m].ticket \in DOMAIN cases
      PROVE  cases[work'[m].ticket].status # "CLOSED"
  <2>1. ShapesOK /\ work \in [Messages -> WorkRecord] /\ work[m].intent # "support"
    <3>1. ShapesOK /\ work \in [Messages -> WorkRecord] /\ work[m] = NewMessage
      BY <1>1 DEF WInv, ShapesOK
    <3>2. NewMessage.intent = ""
      BY DEF NewMessage
    <3>3. QED
      BY <3>1, <3>2
  <2>2. ASSUME NEW n \in Messages, NEW row, work' = [work EXCEPT ![n] = row]
        PROVE  n = m /\ row.intent = "support" /\ row.ticket = work'[m].ticket
    BY <1>1, <2>1, <2>2
  <2>3. work' # work
    BY <1>1, <2>1
  <2>4. ASSUME NEW n \in Messages, Apply(n)
        PROVE  FALSE
    <3>1. n # m
      BY <1>1, <2>4 DEF Apply
    <3>2. PICK t : work' = [work EXCEPT ![n] = Finished(work[n].session, t)]
      BY <2>4 DEF Apply, ApplyChitchat, ApplyFaq, ApplyCase, Finish
    <3>3. QED
      BY <2>2, <3>1, <3>2
  <2>5. ASSUME NEW n \in Messages, Resume(n)
        PROVE  FALSE
    <3>1. n # m
      BY <1>1, <2>5 DEF Resume
    <3>2. PICK row : work' = [work EXCEPT ![n] = row]
      BY <2>5 DEF Resume
    <3>3. QED
      BY <2>2, <3>1, <3>2
  <2>6. ~\E t, to : TicketMoves(t, to)
    BY <2>3 DEF TicketMoves
  <2>7. PICK n \in Messages, s \in Sessions :
          \/ \E c \in Contents : ReceiveInRequesterFlow(n, s, c)
          \/ \E c \in OperatorCommands : ReceiveFromOperator(n, s, c)
          \/ \E order \in ApproverCommands, t \in 1..MaxTickets, closes \in BOOLEAN :
                ReceiveFromApprover(n, s, order, t, closes)
    BY <1>1, <2>3, <2>4, <2>5, <2>6 DEF WorkflowNext, workflowVars
  <2>8. ASSUME NEW t, Deterministic(n, s, t)
        PROVE  FALSE
    <3>1. Finished(s, t).intent = ""
      BY DEF Finished, NewMessage
    <3>2. work' = [work EXCEPT ![n] = Finished(s, t)]
      BY <2>8 DEF Deterministic
    <3>3. Finished(s, t).intent = "support"
      BY <2>2, <3>2
    <3>4. QED
      BY <3>1, <3>3
  <2>9. ASSUME NEW kind, NEW intent, NEW t, NEW created, Prepare(n, s, kind, intent, t, created)
        PROVE  intent = "support" /\ work'[m].ticket = t
    <3> DEFINE row == [stage |-> "prepared", session |-> s, kind |-> kind, intent |-> intent,
                       ticket |-> t, created |-> created]
    <3>1. work' = [work EXCEPT ![n] = row] /\ row.intent = intent /\ row.ticket = t
      BY <2>9 DEF Prepare
    <3> HIDE DEF row
    <3>2. QED
      BY <2>2, <3>1
  <2>10. PICK c \in Contents : PrepareRequester(n, s, c)
    BY <2>7, <2>8 DEF ReceiveInRequesterFlow, ReceiveFromOperator, ReceiveFromApprover, Command
  <2>11. ~HandleConfirmation(n, s, c) /\ ~Clarify(n, s, c) /\ ~TellProgress(n, s, c)
    BY <2>8 DEF HandleConfirmation, Clarify, TellProgress
  <2>12. ~(\E grounded : PrepareFaq(n, s, grounded)) /\ ~\E kind : PrepareChitchat(n, s, kind)
    BY <2>9 DEF PrepareFaq, PrepareChitchat
  <2>13. ~\E llm : PrepareOther(n, s, llm)
    BY <2>8, <2>12 DEF PrepareOther
  <2>14. GoesToSupport(s, c) /\ (OpenCase(n, s, c) \/ ContinueCase(n, s, c))
    BY <2>10, <2>11, <2>12, <2>13 DEF PrepareRequester, PrepareSupport
  <2>15. CASE OpenCase(n, s, c)
    <3>1. work'[m].ticket = Len(cases')
      BY <2>9, <2>15 DEF OpenCase
    <3>2. Len(cases') = Len(cases) + 1
      BY <2>1, <2>15, SessionUser, CreateEffect DEF OpenCase
    <3>3. Len(cases') \notin DOMAIN cases
      BY <2>1, <3>2, CasesRange
    <3>4. QED
      BY <1>1, <3>1, <3>3
  <2>16. CASE ContinueCase(n, s, c)
    <3>1. work'[m].ticket = Resolution(c.names, s).ticket /\ Resolution(c.names, s).ticket # 0
      BY <2>9, <2>16 DEF ContinueCase
    <3>2. QED
      BY <2>1, <2>14, <3>1, ReportedIsOpen
  <2>17. QED
    BY <2>14, <2>15, <2>16
<1>2. WInv /\ [WorkflowNext]_workflowVars => [\A m \in Messages : OnOpen(m)]_workflowVars
  BY <1>1
<1>3. QED
  BY <1>2, WInvInvariant, PTL DEF WorkflowSpec, ReportNotOnClosed

-----------------------------------------------------------------------------
(* The workflow keeps what the desk promises                                 *)

CasesBounded == DOMAIN cases \subseteq 1..MaxTickets

\* Who wrote the message and which ticket it is about, after it was handled.
LEMMA HandledIsTaken ==
    ASSUME WInv, NEW m \in Messages, NEW s \in Sessions, NEW w, Handled(m, s, w)
    PROVE  /\ Author' = [Author EXCEPT ![m] = {s}]
           /\ About' = [About EXCEPT ![m] = {w.ticket} \ {0}]
           /\ Done' = IF w.stage = "done" THEN Done \cup {m} ELSE Done \ {m}
<1>1. /\ work' = [work EXCEPT ![m] = w] /\ work \in [Messages -> WorkRecord]
      /\ w.stage # "new" /\ w.session = s
  BY DEF Handled, WInv, ShapesOK
<1>2. work'[m] = w /\ \A n \in Messages : n # m => work'[n] = work[n]
  BY <1>1
<1>3. QED
  BY <1>1, <1>2 DEF Author, About, Done

LEMMA OpenedIs ==
    ASSUME NEW n \in Messages
    PROVE  \A c, a : <<c, a>> \in Opened[n] <=>
             c \in DOMAIN cases /\ cases[c].cause = n /\ a = OpenedFrom(c)
BY DEF Opened, OpenedFrom

LEMMA KeptOpened ==
    ASSUME CasesKept
    PROVE  Opened' = Opened
<1> DEFINE Mine(n) == {o \in DOMAIN cases : cases[o].cause = n}
<1>1. ASSUME NEW n \in Messages PROVE Opened'[n] = Opened[n]
  <2>1. Mine(n) = {o \in DOMAIN cases' : cases'[o].cause = n}
    BY DEF CasesKept
  <2>2. \A t \in Mine(n) : OpenedFrom(t)' = OpenedFrom(t)
    BY DEF CasesKept, OpenedFrom
  <2>3. /\ Opened[n] = {<<t, OpenedFrom(t)>> : t \in Mine(n)}
        /\ Opened'[n] = {<<t, OpenedFrom(t)'>> : t \in Mine(n)}
    BY <2>1 DEF Opened, OpenedFrom
  <2> HIDE DEF Mine
  <2>4. QED
    BY <2>2, <2>3
<1>2. QED
  BY <1>1 DEF Opened

\* The new ticket is one nobody has, and the first of its message.
LEMMA OpeningIsOpen ==
    ASSUME WInv, CasesBounded, NEW m \in Messages, NEW s \in Sessions, CaseOpened(m, s), MayOpen(m)
    PROVE  Promise!Open(m, s) /\ CasesBounded'
<1> DEFINE c == Len(cases) + 1
<1>1. cases \in Seq(CaseRecord) /\ Len(cases) \in Nat /\ DOMAIN cases = 1..Len(cases)
  BY CasesRange DEF WInv, ShapesOK
<1>2. c \in 1..MaxTickets /\ c \notin DOMAIN cases
  BY <1>1, WorkflowAssumption DEF CaseOpened
<1>3. \A t \in DOMAIN cases : cases[t].cause # m
  BY DEF WInv, CausesInv
<1>4. Opened[m] = {}
  BY <1>3 DEF Opened
<1>5. \A n \in Messages : \A o : <<c, o>> \notin Opened[n]
  BY <1>2, OpenedIs
<1>6. /\ DOMAIN cases' = DOMAIN cases \cup {c} /\ s = <<cases'[c].user, cases'[c].source>> /\ cases'[c].cause = m
      /\ \A t \in DOMAIN cases : cases'[t] = cases[t]
  BY DEF CaseOpened
<1> HIDE DEF c
<1>7. ASSUME NEW n \in Messages, n # m PROVE Opened'[n] = Opened[n]
  <2>1. {o \in DOMAIN cases' : cases'[o].cause = n} = {o \in DOMAIN cases : cases[o].cause = n}
    BY <1>2, <1>6, <1>7
  <2>2. QED
    BY <1>6, <2>1 DEF Opened
<1>8. Opened'[m] = {<<c, s>>}
  <2>1. {o \in DOMAIN cases' : cases'[o].cause = m} = {c}
    BY <1>3, <1>6
  <2>2. Opened'[m] = {<<t, <<cases'[t].user, cases'[t].source>>>> :
                          t \in {o \in DOMAIN cases' : cases'[o].cause = m}}
    BY DEF Opened
  <2>3. Opened'[m] = {<<t, <<cases'[t].user, cases'[t].source>>>> : t \in {c}}
    BY <2>1, <2>2
  <2>4. QED
    BY <1>6, <2>3
<1>9. Opened' = [Opened EXCEPT ![m] = {<<c, s>>}]
  BY <1>7, <1>8 DEF Opened
<1>10. CasesBounded'
  BY <1>2, <1>6 DEF CasesBounded
<1>11. QED
  BY <1>2, <1>4, <1>5, <1>9, <1>10 DEF Promise!Open, Promise!Taken

\* A user's tickets are those that were opened for a message of the user.
LEMMA OwnIsCaseOf ==
    ASSUME ShapesOK', CausesInv', CasesBounded', NEW u \in Users, NEW t \in Own(u)'
    PROVE  t \in Promise!CasesOf(u)'
<1>1. t \in DOMAIN cases' /\ t \in 1..MaxTickets /\ cases'[t].user = u
  BY DEF Own, CasesBounded
<1>2. cases'[t].cause \in Messages
  <2>1. cases' \in Seq(CaseRecord)
    BY DEF ShapesOK
  <2>2. cases'[t] \in CaseRecord
    BY <1>1, <2>1
  <2>3. QED
    BY <2>2 DEF CaseRecord
<1>3. PICK n \in Messages, a \in Sessions : n = cases'[t].cause /\ a = OpenedFrom(t)' /\ a[1] = u
  BY <1>1, <1>2 DEF CausesInv, OpenedFrom
<1>4. <<t, a>> \in Opened'[n]
  BY <1>1, <1>3 DEF Opened, OpenedFrom
<1>5. QED
  BY <1>1, <1>3, <1>4 DEF Promise!CasesOf

LEMMA HandledIsHandle ==
    ASSUME WInv, WInv', CasesBounded, NEW m \in Messages, NEW s \in Sessions, NEW w, Handled(m, s, w)
    PROVE  Promise!Handle(m, s) /\ CasesBounded'
<1>1. s[1] \in Users
  BY SessionUser
<1>2. (Promise!Open(m, s) \/ UNCHANGED Opened) /\ CasesBounded'
  <2>1. CASE CasesKept
    BY <2>1, KeptOpened DEF CasesKept, CasesBounded
  <2>2. CASE CaseOpened(m, s) /\ MayOpen(m)
    BY <1>1, <2>2, OpeningIsOpen
  <2>3. QED
    BY <2>1, <2>2 DEF Handled
<1>3. About' = [About EXCEPT ![m] = {w.ticket} \ {0}]
  BY HandledIsTaken
<1>4. Promise!Concern(m, s[1])
  <2>1. CASE w.ticket = 0
    BY <1>3, <2>1 DEF Promise!Concern
  <2>2. CASE w.ticket # 0
    <3>1. w.ticket \in Own(s[1])'
      BY <2>2 DEF Handled
    <3>2. w.ticket \in Promise!CasesOf(s[1])'
      BY <1>1, <1>2, <3>1, OwnIsCaseOf DEF WInv
    <3>3. {w.ticket} \ {0} = {w.ticket}
      BY <2>2
    <3>4. w.ticket \in 1..MaxTickets
      BY <1>2, <3>1 DEF Own, CasesBounded
    <3>5. QED
      BY <1>3, <3>2, <3>3, <3>4 DEF Promise!Concern
  <2>3. QED
    BY <2>1, <2>2
<1>5. QED
  BY <1>2, <1>4 DEF Promise!Handle

\* What the tables say of a message without an answer is what the promise allows.
LEMMA UnheardIsUnanswerable ==
    ASSUME ShapesOK', CausesInv', NEW m \in Messages, work'[m].stage = "done", Unheard(work[m])'
    PROVE  Promise!Unanswerable(m)'
<1>1. CASE work'[m].session[2] \in Disabled
  <2>1. Author'[m] = {work'[m].session} /\ work'[m].session \in Sessions
    BY DEF Author, ShapesOK, NewMessage
  <2>2. QED
    BY <1>1, <2>1 DEF Promise!Unanswerable
<1>2. CASE work'[m].ticket \in FromDisabled'
  <2>1. PICK t : t = work'[m].ticket /\ t \in DOMAIN cases' /\ cases'[t].source \in Disabled
    BY <1>2 DEF FromDisabled
  <2>2. t # 0 /\ cases'[t].cause \in Messages
    <3>1. cases' \in Seq(CaseRecord) /\ DOMAIN cases' = 1..Len(cases')
      BY DEF ShapesOK
    <3>2. cases'[t] \in CaseRecord /\ t # 0
      BY <2>1, <3>1
    <3>3. QED
      BY <3>2 DEF CaseRecord
  <2>3. t \in About'[m]
    BY <2>1, <2>2 DEF About
  <2>4. PICK n \in Messages, a \in Sessions :
            n = cases'[t].cause /\ a = <<cases'[t].user, cases'[t].source>> /\ a[2] \in Disabled
    BY <2>1, <2>2 DEF CausesInv, OpenedFrom
  <2>5. <<t, a>> \in Opened'[n]
    BY <2>1, <2>4 DEF Opened
  <2>6. QED
    BY <2>3, <2>4, <2>5 DEF Promise!Unanswerable
<1>3. QED
  BY <1>1, <1>2 DEF Unheard

\* A message that becomes done is answered then, and was not before.
LEMMA HandledIsAnswer ==
    ASSUME WInv, WInv', NEW m \in Messages, NEW s \in Sessions, NEW w, Handled(m, s, w),
           work[m].stage # "done", w.stage = "done"
    PROVE  Promise!Answer(m)
<1>1. work' = [work EXCEPT ![m] = w] /\ work \in [Messages -> WorkRecord] /\ work'[m].stage = "done"
  BY DEF Handled, WInv, ShapesOK
<1>2. RepliesTo(m) = {}
  BY DEF WInv, RepliesInv, RepliesTo
<1>3. AnswerCount[m] = 0
  BY <1>2, FS_EmptySet DEF AnswerCount, RepliesTo
<1>4. Done' = Done \cup {m}
  BY HandledIsTaken
<1>5. PICK event, target : Answer(m, event, target) /\ Targeted(w, target)'
  BY DEF Handled
<1>6. CASE replies' = replies
  <2>1. m \in WithoutId \/ Promise!Unanswerable(m)'
    <3>1. SUFFICES ASSUME m \notin WithoutId PROVE Promise!Unanswerable(m)'
      OBVIOUS
    <3>2. (\E r : RepliesTo(m)' = {r}) \/ Unheard(work[m])'
      BY <1>1, <3>1 DEF WInv, RepliesInv
    <3>3. RepliesTo(m)' = {}
      BY <1>2, <1>6 DEF RepliesTo
    <3>4. ShapesOK' /\ CausesInv' /\ Unheard(work[m])'
      BY <3>2, <3>3 DEF WInv
    <3>5. QED
      BY <1>1, <3>4, UnheardIsUnanswerable
  <2>2. AnswerCount' = AnswerCount
    BY <1>6 DEF AnswerCount
  <2>3. QED
    BY <1>3, <1>4, <2>1, <2>2 DEF Promise!Answer
<1>7. ASSUME NEW to, target = {to}, replies' # replies
      PROVE  Promise!Answer(m)
  <2> DEFINE new == [event |-> event, to |-> to, of |-> m]
  <2>1. replies' = replies \cup {new}
    BY <1>5, <1>7, AnswerAdds
  <2>2. RepliesTo(m)' = {new} /\ \A n \in Messages : n # m => RepliesTo(n)' = RepliesTo(n)
    BY <1>2, <2>1 DEF RepliesTo
  <2> HIDE DEF new
  <2>3. Cardinality(RepliesTo(m)') = 1
    BY <2>2, FS_Singleton
  <2>4. AnswerCount' = [AnswerCount EXCEPT ![m] = 1]
    BY <2>2, <2>3 DEF AnswerCount, RepliesTo
  <2>5. QED
    BY <1>3, <1>4, <2>4 DEF Promise!Answer
<1>8. target = {} => replies' = replies
  BY <1>5, AnswerAdds
<1>9. QED
  BY <1>5, <1>6, <1>7, <1>8 DEF Targeted

LEMMA ReceiveIsTake ==
    ASSUME WInv, WInv', CasesBounded, NEW m \in Messages, NEW s \in Sessions, NEW w, Handled(m, s, w),
           work[m].stage = "new"
    PROVE  Promise!Take(m, s)
<1>1. Author[m] = {} /\ m \notin Done
  BY DEF Author, Done
<1>2. Author' = [Author EXCEPT ![m] = {s}]
  BY HandledIsTaken
<1>3. Promise!Handle(m, s)
  BY HandledIsHandle
<1>4. CASE w.stage = "done"
  BY <1>1, <1>2, <1>3, <1>4, HandledIsAnswer DEF Promise!Take
<1>5. CASE w.stage = "prepared"
  <2>1. Done' = Done
    BY <1>1, <1>5, HandledIsTaken
  <2>2. AnswerCount' = AnswerCount
    BY <1>5 DEF Handled, AnswerCount
  <2>3. QED
    BY <1>1, <1>2, <1>3, <2>1, <2>2 DEF Promise!Take
<1>6. QED
  BY <1>4, <1>5 DEF Handled

LEMMA ApplyIsFinish ==
    ASSUME WInv, WInv', CasesBounded, NEW m \in Messages, Apply(m)
    PROVE  CasesBounded' /\ \E a \in Sessions : Promise!Finish(m, a)
<1>1. PICK s, w : s \in Sessions /\ s = work[m].session /\ Handled(m, s, w)
  BY ApplyHandles
<1>2. work[m].stage = "prepared"
  BY DEF Apply
<1>3. PICK t : work' = [work EXCEPT ![m] = Finished(s, t)]
  BY <1>1 DEF Apply, ApplyChitchat, ApplyFaq, ApplyCase, Finish
<1>4. w.stage = "done"
  <2>1. work \in [Messages -> WorkRecord] /\ work' = [work EXCEPT ![m] = w]
    BY <1>1 DEF WInv, ShapesOK, Handled
  <2>2. w = Finished(s, t)
    BY <1>3, <2>1
  <2>3. QED
    BY <2>2 DEF Finished, NewMessage
<1>5. Author[m] = {s} /\ m \notin Done
  BY <1>1, <1>2 DEF Author, Done
<1>6. Author' = Author
  <2>1. Author' = [Author EXCEPT ![m] = {s}] /\ Author = [n \in Messages |-> Author[n]]
    BY <1>1, HandledIsTaken DEF Author
  <2>2. QED
    BY <1>5, <2>1
<1>7. Promise!Handle(m, s) /\ CasesBounded'
  BY <1>1, HandledIsHandle
<1>8. Promise!Answer(m)
  BY <1>1, <1>2, <1>4, HandledIsAnswer
<1>9. QED
  BY <1>1, <1>5, <1>6, <1>7, <1>8 DEF Promise!Finish

\* resume() and moves by others change nothing of it.
LEMMA ResumeIsNothing ==
    ASSUME WInv, NEW m \in Messages, Resume(m)
    PROVE  UNCHANGED Promise!vars /\ UNCHANGED cases
<1>1. /\ work \in [Messages -> WorkRecord]
      /\ work' = [work EXCEPT ![m] = [work[m] EXCEPT !.created = FALSE]]
      /\ UNCHANGED <<cases, replies>>
  BY DEF Resume, WInv, ShapesOK
<1>2. ASSUME NEW n \in Messages
      PROVE  /\ work'[n].stage = work[n].stage /\ work'[n].session = work[n].session
             /\ work'[n].ticket = work[n].ticket
  BY <1>1 DEF WorkRecord
<1>3. UNCHANGED <<Author, About, Done>>
  BY <1>2 DEF Author, About, Done
<1>4. UNCHANGED <<Opened, AnswerCount>>
  BY <1>1 DEF Opened, AnswerCount
<1>5. QED
  BY <1>1, <1>3, <1>4 DEF Promise!vars

LEMMA MovesAreNothing ==
    ASSUME WInv, CasesBounded, NEW t, NEW to \in CaseStatus, TicketMoves(t, to)
    PROVE  UNCHANGED Promise!vars /\ CasesBounded'
<1>1. CasesKept
  BY MoveEffect DEF TicketMoves, Exists, Move, WInv
<1>2. UNCHANGED <<work, replies>>
  BY DEF TicketMoves
<1>3. UNCHANGED <<Author, About, Done, AnswerCount>>
  BY <1>2 DEF Author, About, Done, AnswerCount
<1>4. QED
  BY <1>1, <1>3, KeptOpened DEF Promise!vars, CasesKept, CasesBounded

LEMMA IntakeStep ==
    ASSUME WInv, WInv', CasesBounded, [WorkflowNext]_workflowVars
    PROVE  CasesBounded' /\ [Promise!Next]_Promise!vars
<1>1. ASSUME NEW m \in Messages, NEW s \in Sessions, NextIn(m),
             \/ \E c \in Contents : ReceiveInRequesterFlow(m, s, c)
             \/ \E c \in OperatorCommands : ReceiveFromOperator(m, s, c)
             \/ \E order \in ApproverCommands, t \in 1..MaxTickets, closes \in BOOLEAN :
                  ReceiveFromApprover(m, s, order, t, closes)
      PROVE  CasesBounded' /\ [Promise!Next]_Promise!vars
  <2>1. work[m].stage = "new"
    BY <1>1 DEF NextIn
  <2>2. PICK w : Handled(m, s, w)
    BY <1>1, <2>1, ReceiveHandles
  <2>3. Promise!Take(m, s) /\ CasesBounded'
    BY <2>1, <2>2, ReceiveIsTake, HandledIsHandle
  <2>4. QED
    BY <2>3 DEF Promise!Next
<1>2. ASSUME NEW m \in Messages, Apply(m)
      PROVE  CasesBounded' /\ [Promise!Next]_Promise!vars
  BY <1>2, ApplyIsFinish DEF Promise!Next
<1>3. ASSUME NEW m \in Messages, Resume(m)
      PROVE  CasesBounded' /\ [Promise!Next]_Promise!vars
  BY <1>3, ResumeIsNothing DEF CasesBounded
<1>4. ASSUME NEW t, NEW to \in {"IN_PROGRESS", "RESOLVED", "CLOSED"}, TicketMoves(t, to)
      PROVE  CasesBounded' /\ [Promise!Next]_Promise!vars
  BY <1>4, MovesAreNothing DEF CaseStatus
<1>5. CASE UNCHANGED workflowVars
  <2>1. UNCHANGED Promise!vars
    BY <1>5 DEF workflowVars, Promise!vars, Author, Opened, About, Done, AnswerCount
  <2>2. QED
    BY <1>5, <2>1 DEF workflowVars, CasesBounded
<1>6. QED
  BY <1>1, <1>2, <1>3, <1>4, <1>5 DEF WorkflowNext

\* prepare(), the agent run, apply() and any number of resume() between them are a
\* taking and a finishing of the message, for any users, sessions and texts, and
\* whatever the model comes back with.
THEOREM RefinesIntake == WorkflowSpec => ImplementsIntake
<1>1. WorkflowInit => CasesBounded /\ Promise!Init
  <2> SUFFICES ASSUME WorkflowInit PROVE CasesBounded /\ Promise!Init
    OBVIOUS
  <2>1. /\ DOMAIN cases = {} /\ replies = {}
        /\ \A m \in Messages : work[m].stage = "new" /\ work[m].ticket = 0
    <3>1. NewMessage.stage = "new" /\ NewMessage.ticket = 0
      BY DEF NewMessage
    <3>2. QED
      BY <3>1 DEF WorkflowInit
  <2>2. Author = [m \in Messages |-> {}] /\ About = [m \in Messages |-> {}] /\ Done = {}
    BY <2>1 DEF Author, About, Done
  <2>3. Opened = [m \in Messages |-> {}]
    BY <2>1 DEF Opened
  <2>4. AnswerCount = [m \in Messages |-> 0]
    BY <2>1, FS_EmptySet DEF AnswerCount
  <2>5. QED
    BY <2>1, <2>2, <2>3, <2>4 DEF CasesBounded, Promise!Init
<1>2. WInv /\ WInv' /\ CasesBounded /\ [WorkflowNext]_workflowVars => CasesBounded' /\ [Promise!Next]_Promise!vars
  BY IntakeStep
<1>3. QED
  BY <1>1, <1>2, WInvInvariant, PTL DEF WorkflowSpec, ImplementsIntake, Promise!Spec

-----------------------------------------------------------------------------
(* An agent run: values                                                      *)

Tools       == AllowedTools \cup {"close_ticket", "none"}
ToolRecords == [tool : Tools, ok : BOOLEAN]
ProposalRecords ==
    [action : {"ESCALATE", "FORCE_CLOSE", "DELETE", "none"}, ticket : {"none", "context", "elsewhere"},
     reason : BOOLEAN]
Decisions   == [action : Actions \cup {"none"}, refs : SUBSET {"context", "elsewhere"},
                proposal : ProposalRecords]

\* Whatever a decision is, it cites the context and proposes for its ticket.
SoundAdvice(d) ==
    /\ d.refs \subseteq {"context"}
    /\ d.proposal # NoProposal =>
        d.proposal.ticket = "context" /\ d.proposal.action \in {"ESCALATE", "FORCE_CLOSE"}

LEMMA NoProposalIs == NoProposal \in ProposalRecords
  <1>1. FALSE \in BOOLEAN
    OBVIOUS
  <1> QED BY <1>1 DEF NoProposal, ProposalRecords

LEMMA UndecidedIs == Undecided \in Decisions /\ SoundAdvice(Undecided)
  BY NoProposalIs DEF Undecided, Decisions, Decision, SoundAdvice

LEMMA DecisionIs ==
    ASSUME NEW action \in Actions, NEW refs \in SUBSET {"context"},
           NEW p \in ProposalRecords,
           p # NoProposal => p.ticket = "context" /\ p.action \in {"ESCALATE", "FORCE_CLOSE"}
    PROVE  /\ Decision(action, refs, p) \in Decisions /\ SoundAdvice(Decision(action, refs, p))
           /\ Decision(action, refs, p) # Undecided /\ Decision(action, refs, p).action = action
  <1>1. Decision(action, refs, p) \in Decisions /\ Decision(action, refs, p).action = action
    BY DEF Decision, Decisions
  <1>2. SoundAdvice(Decision(action, refs, p))
    BY DEF Decision, SoundAdvice
  <1>3. Undecided.action = "none" /\ action # "none"
    BY DEF Undecided, Decision, Actions
  <1> QED BY <1>1, <1>2, <1>3

\* A proposal that is kept is one that can be approved, for the ticket of the context.
LEMMA SanitizedIs ==
    ASSUME NEW p \in Proposals
    PROVE  LET kept == SanitizedProposal(p) IN
           /\ kept \in ProposalRecords
           /\ kept # NoProposal => kept.ticket = "context" /\ kept.action \in {"ESCALATE", "FORCE_CLOSE"}
  <1>1. p \in ProposalRecords
    BY NoProposalIs DEF Proposals, ProposalRecords
  <1>2. CASE SanitizedProposal(p) = NoProposal
    BY <1>2, NoProposalIs
  <1>3. CASE SanitizedProposal(p) = [p EXCEPT !.ticket = "context"] /\ p.action \in {"ESCALATE", "FORCE_CLOSE"}
    BY <1>1, <1>3 DEF ProposalRecords
  <1> QED BY <1>2, <1>3 DEF SanitizedProposal

\* What validation makes of an answer: nothing, or a decision that fits the intent.
LEMMA AnswerFits ==
    ASSUME NEW intent \in Intents, NEW d \in Answers(intent), d # Undecided
    PROVE  d \in Decisions /\ SoundAdvice(d) /\ d.action \in IntentActions(intent)
  <1>1. PICK complete \in BOOLEAN, action \in Actions, refs \in {{}, {"context", "elsewhere"}}, p \in Proposals :
            d = Validated(intent, complete, action, refs, p)
    BY DEF Answers
  <1>2. Acceptable(intent, complete, action) /\ d = Decision(action, refs \ {"elsewhere"}, SanitizedProposal(p))
    BY <1>1 DEF Validated
  <1>3. PICK kept : kept = SanitizedProposal(p)
    OBVIOUS
  <1>4. /\ kept \in ProposalRecords
        /\ kept # NoProposal => kept.ticket = "context" /\ kept.action \in {"ESCALATE", "FORCE_CLOSE"}
    BY <1>3, SanitizedIs
  <1>5. PICK cited \in SUBSET {"context"} : cited = refs \ {"elsewhere"}
    OBVIOUS
  <1>6. d = Decision(action, cited, kept)
    BY <1>2, <1>3, <1>5
  <1>7. action \in IntentActions(intent)
    BY <1>2 DEF Acceptable
  <1>8. Decision(action, cited, kept) \in Decisions /\ SoundAdvice(Decision(action, cited, kept))
        /\ Decision(action, cited, kept).action = action
    BY <1>4, DecisionIs
  <1> QED BY <1>6, <1>7, <1>8

-----------------------------------------------------------------------------
(* One run of the agent                                                      *)

AgentShapes ==
    /\ request \in [intent : Intents \cup {"none"}, guarded : BOOLEAN, clients : SUBSET (DOMAIN ProviderNames)]
    /\ at \in {"idle", "asking", "tool", "returned", "raised"}
    /\ at # "idle" => request.intent \in Intents
    /\ steps \in 0..MaxAgentSteps
    /\ tries \in 0..TriesOfRound
    /\ httpCalls \in Nat
    /\ asked \in Requests
    /\ toolCalls \in Seq(ToolRecords)
    /\ decision \in Decisions
    /\ fallback \in {"", "no_llm", "prompt_error", "llm_error", "invalid_decision"}

\* Requests so far: a run that asks has whole rounds behind it, and the tries of
\* this one; any other run has whole rounds.
RequestsCounted ==
    /\ at = "idle" => steps = 0 /\ httpCalls = 0
    /\ at # "idle" => steps >= 1
    /\ at \in {"idle", "tool"} => tries = 0
    /\ at = "asking" => httpCalls <= (steps - 1) * TriesOfRound + tries
    /\ httpCalls <= steps * TriesOfRound

\* A run that is about to call a tool has a call left, and none of those it made
\* left the whitelist of the message.
ToolsCounted ==
    /\ at = "idle" => toolCalls = <<>>
    /\ Len(toolCalls) <= MaxToolCalls
    /\ at = "tool" => Len(toolCalls) < MaxToolCalls
    /\ \A k \in DOMAIN toolCalls : toolCalls[k].ok => Whitelisted(toolCalls[k].tool)

\* The decision is always sound; it fits the intent unless the rules made it.
DecisionFits ==
    /\ SoundAdvice(decision)
    /\ at \in {"idle", "asking", "tool"} => fallback = ""
    /\ at \in {"tool", "returned"} =>
        /\ decision # Undecided
        /\ fallback = "" => decision.action \in IntentActions(request.intent) /\ httpCalls > 0

AgentInv == AgentShapes /\ RequestsCounted /\ ToolsCounted /\ DecisionFits

LEMMA TriesType ==
    ASSUME NEW clients \in SUBSET (DOMAIN ProviderNames)
    PROVE  Cardinality(clients) * (MaxRetries + 1) \in Nat
  <1>1. IsFiniteSet(DOMAIN ProviderNames)
    <2>1. DOMAIN ProviderNames = 1..Len(ProviderNames) /\ Len(ProviderNames) \in Nat
      BY AgentAssumption
    <2> QED BY <2>1, FS_Interval
  <1>2. Cardinality(clients) \in Nat
    BY <1>1, FS_Subset, FS_CardinalityType
  <1>3. PICK c \in Nat, m \in Nat : c = Cardinality(clients) /\ m = MaxRetries + 1
    BY <1>2, AgentAssumption
  <1>4. c * m \in Nat
    OBVIOUS
  <1> QED BY <1>3, <1>4

LEMMA Rounds ==
    ASSUME NEW n \in Nat, NEW s \in Nat, NEW r \in Nat
    PROVE  /\ s * r \in Nat /\ (s - 1) * r + r = s * r
           /\ (s + 1) * r = s * r + r /\ ((s + 1) - 1) * r = s * r
           /\ s <= n => s * r <= n * r
  <1>1. s * r \in Nat /\ (s - 1) * r = s * r - r /\ (s + 1) * r = s * r + r
    OBVIOUS
  <1>2. (s + 1) - 1 = s
    OBVIOUS
  <1>3. ASSUME s <= n PROVE s * r <= n * r
    <2>1. PICK k \in Nat : n = s + k
      BY <1>3
    <2>2. n * r = s * r + k * r /\ k * r \in Nat
      BY <2>1
    <2> QED BY <1>1, <2>2
  <1> QED BY <1>1, <1>2, <1>3

LEMMA Bounds == MaxAgentSteps \in Nat /\ MaxAgentSteps >= 1 /\ MaxToolCalls \in Nat
  BY AgentAssumption

LEMMA NoCalls ==
    ASSUME NEW calls, calls = <<>>
    PROVE  calls \in Seq(ToolRecords) /\ Len(calls) = 0 /\ \A k : k \notin DOMAIN calls
  <1>1. <<>> \in Seq(ToolRecords) /\ Len(<<>>) = 0
    OBVIOUS
  <1>2. DOMAIN calls = 1..0
    BY <1>1
  <1> QED BY <1>1, <1>2

LEMMA AgentStarts == AgentInit => AgentInv
  <1> SUFFICES ASSUME AgentInit PROVE AgentInv
    OBVIOUS
  <1>1. /\ request = [intent |-> "none", guarded |-> FALSE, clients |-> {}]
        /\ request \in [intent : Intents \cup {"none"}, guarded : BOOLEAN, clients : SUBSET (DOMAIN ProviderNames)]
    BY DEF AgentInit
  <1>2. TriesOfRound \in Nat
    BY <1>1, TriesType DEF TriesOfRound
  <1>3. NoTool \in Requests
    BY DEF Requests
  <1>4. /\ at = "idle" /\ asked = NoTool /\ decision = Undecided /\ fallback = ""
    BY DEF AgentInit
  <1>5. /\ steps = 0 /\ tries = 0 /\ httpCalls = 0
    BY DEF AgentInit
  <1>6. steps \in 0..MaxAgentSteps /\ tries \in 0..TriesOfRound /\ httpCalls \in Nat
    BY <1>2, <1>5, Bounds
  <1>7. toolCalls \in Seq(ToolRecords) /\ Len(toolCalls) = 0 /\ (\A k : k \notin DOMAIN toolCalls)
        /\ toolCalls = <<>>
    <2>1. toolCalls = <<>>
      BY DEF AgentInit
    <2> QED BY <2>1, NoCalls, Zenon
  <1>8. AgentShapes
    BY <1>1, <1>3, <1>4, <1>6, <1>7, UndecidedIs DEF AgentShapes
  <1>9. RequestsCounted
    <2>1. steps * TriesOfRound = 0
      BY <1>2, <1>5
    <2>2. httpCalls <= steps * TriesOfRound
      BY <1>5, <2>1
    <2> QED BY <1>4, <1>5, <2>2 DEF RequestsCounted
  <1>10. ToolsCounted
    <2>1. Len(toolCalls) <= MaxToolCalls
      BY <1>7, Bounds
    <2>2. at # "tool"
      BY <1>4
    <2> QED BY <1>7, <2>1, <2>2, Zenon DEF ToolsCounted
  <1>11. DecisionFits
    BY <1>4, UndecidedIs DEF DecisionFits
  <1> QED BY <1>8, <1>9, <1>10, <1>11 DEF AgentInv

\* The types of a state, and what a step that leaves the request alone keeps.
LEMMA AgentTypes ==
    ASSUME AgentInv
    PROVE  /\ TriesOfRound \in Nat /\ tries \in Nat /\ steps \in Nat /\ httpCalls \in Nat
           /\ Len(toolCalls) \in Nat /\ MaxAgentSteps \in Nat /\ MaxToolCalls \in Nat
  <1>1. PICK clients \in SUBSET (DOMAIN ProviderNames) : clients = request.clients
    BY DEF AgentInv, AgentShapes
  <1>2. TriesOfRound \in Nat
    BY <1>1, TriesType DEF TriesOfRound
  <1>3. steps \in 0..MaxAgentSteps /\ tries \in 0..TriesOfRound /\ httpCalls \in Nat /\ toolCalls \in Seq(ToolRecords)
    BY DEF AgentInv, AgentShapes
  <1>4. PICK r \in Nat : r = TriesOfRound
    BY <1>2
  <1> QED BY <1>3, <1>4, Bounds

\* A run that falls back on the rules, after so many requests in this round.
LEMMA FallsBack ==
    ASSUME AgentInv, at = "asking",
           NEW reason \in {"no_llm", "prompt_error", "llm_error", "invalid_decision"}, FallBack(reason),
           httpCalls' \in Nat, tries' \in 0..TriesOfRound, httpCalls' <= steps * TriesOfRound
    PROVE  AgentInv'
  <1>1. /\ request' = request /\ steps' = steps /\ asked' = asked /\ toolCalls' = toolCalls
        /\ at' = "returned" /\ fallback' = reason
    BY DEF FallBack
  <1>2. PICK action \in {"triage", "assign_operator"} :
            decision' = Decision(CASE request.intent = "no_answer"  -> "assign_operator"
                                   [] request.intent = "faq_answer" -> "faq_answer"
                                   [] OTHER                         -> action, {"context"}, NoProposal)
    BY DEF FallBack
  <1>3. PICK chosen \in Actions : decision' = Decision(chosen, {"context"}, NoProposal)
    <2>1. PICK chosen : chosen = CASE request.intent = "no_answer"  -> "assign_operator"
                                   [] request.intent = "faq_answer" -> "faq_answer"
                                   [] OTHER                         -> action
      OBVIOUS
    <2>2. chosen \in Actions
      BY <2>1 DEF Actions
    <2> QED BY <1>2, <2>1, <2>2
  <1>4. decision' \in Decisions /\ SoundAdvice(decision)' /\ decision' # Undecided
    BY <1>3, DecisionIs, NoProposalIs DEF SoundAdvice
  <1>5. TriesOfRound' = TriesOfRound
    BY <1>1 DEF TriesOfRound
  <1>6. AgentShapes'
    BY <1>1, <1>4, <1>5 DEF AgentInv, AgentShapes
  <1>7. RequestsCounted'
    BY <1>1, <1>5 DEF AgentInv, RequestsCounted
  <1>8. ToolsCounted'
    BY <1>1 DEF AgentInv, ToolsCounted, Whitelisted
  <1>9. DecisionFits'
    BY <1>1, <1>4 DEF DecisionFits
  <1> QED BY <1>6, <1>7, <1>8, <1>9 DEF AgentInv

LEMMA RoundSafe ==
    ASSUME AgentInv, at = "asking", NEW d \in Answers(request.intent), NEW asks \in Requests, Round(d, asks)
    PROVE  AgentInv'
  <1>1. /\ httpCalls' = httpCalls + 1 /\ tries' = 0 /\ tries < TriesOfRound
        /\ httpCalls' \in Nat /\ httpCalls' > 0 /\ tries' \in 0..TriesOfRound
        /\ httpCalls' <= steps * TriesOfRound
    <2>1. httpCalls' = httpCalls + 1 /\ tries' = 0 /\ tries < TriesOfRound
      BY DEF Round, Answered
    <2>2. httpCalls <= (steps - 1) * TriesOfRound + tries
      BY DEF AgentInv, RequestsCounted
    <2>3. PICK s \in Nat, r \in Nat : s = steps /\ r = TriesOfRound
      BY AgentTypes
    <2>4. (s - 1) * r + r = s * r
      BY Rounds
    <2>5. (s - 1) * r \in Int /\ s * r \in Int
      OBVIOUS
    <2> QED BY <2>1, <2>2, <2>3, <2>4, <2>5, AgentTypes
  <1>2. CASE d = Undecided
    BY <1>1, <1>2, FallsBack DEF Round
  <1>3. CASE d # Undecided
    <2>1. /\ decision' = d
          /\ at' = IF asks # NoTool /\ Len(toolCalls) < MaxToolCalls THEN "tool" ELSE "returned"
          /\ asked' = IF at' = "tool" THEN asks ELSE NoTool
          /\ request' = request /\ steps' = steps /\ toolCalls' = toolCalls /\ fallback' = fallback
      BY <1>3 DEF Round
    <2>2. request.intent \in Intents
      BY DEF AgentInv, AgentShapes
    <2>3. d \in Decisions /\ SoundAdvice(d) /\ d.action \in IntentActions(request.intent)
      BY <1>3, <2>2, AnswerFits
    <2>4. TriesOfRound' = TriesOfRound
      BY <2>1 DEF TriesOfRound
    <2>5. asked' \in Requests /\ at' \in {"tool", "returned"} /\ (at' = "tool" => Len(toolCalls) < MaxToolCalls)
      BY <2>1 DEF Requests
    <2>6. AgentShapes'
      BY <1>1, <2>1, <2>3, <2>4, <2>5 DEF AgentInv, AgentShapes
    <2>7. RequestsCounted'
      BY <1>1, <2>1, <2>4, <2>5 DEF AgentInv, RequestsCounted
    <2>8. ToolsCounted'
      BY <2>1, <2>5 DEF AgentInv, ToolsCounted, Whitelisted
    <2>9. DecisionFits'
      BY <1>1, <1>3, <2>1, <2>3, <2>5 DEF AgentInv, DecisionFits, SoundAdvice
    <2> QED BY <2>6, <2>7, <2>8, <2>9 DEF AgentInv
  <1> QED BY <1>2, <1>3

LEMMA CallToolSafe ==
    ASSUME AgentInv, NEW raises \in BOOLEAN, CallTool(raises)
    PROVE  AgentInv'
  <1>1. PICK ok \in BOOLEAN :
            /\ ok <=> Whitelisted(asked.tool) /\ asked.wellFormed
            /\ toolCalls' = Append(toolCalls, [tool |-> asked.tool, ok |-> ok])
            /\ at' = IF raises THEN "raised" ELSE IF ok /\ steps < MaxAgentSteps THEN "asking" ELSE "returned"
            /\ steps' = IF at' = "asking" THEN steps + 1 ELSE steps
    BY DEF CallTool
  <1>2. /\ at = "tool"
        /\ request' = request /\ tries' = tries /\ httpCalls' = httpCalls
        /\ asked' = asked /\ decision' = decision /\ fallback' = fallback
    BY DEF CallTool, askVars
  <1>3. TriesOfRound' = TriesOfRound
    BY <1>2 DEF TriesOfRound
  <1>4. [tool |-> asked.tool, ok |-> ok] \in ToolRecords
    <2>1. asked.tool \in {"none", "search_knowledge", "contact_lookup", "close_ticket"}
      <3>1. asked \in Requests
        BY DEF AgentInv, AgentShapes
      <3>2. asked = NoTool \/ asked \in [tool : {"search_knowledge", "contact_lookup", "close_ticket"}, wellFormed : BOOLEAN]
        BY <3>1 DEF Requests
      <3> QED BY <3>2 DEF NoTool
    <2>2. asked.tool \in Tools
      BY <2>1 DEF Tools, AllowedTools
    <2> QED BY <2>2 DEF ToolRecords
  <1>5. /\ toolCalls \in Seq(ToolRecords)
        /\ toolCalls' \in Seq(ToolRecords) /\ Len(toolCalls') = Len(toolCalls) + 1
        /\ \A k \in DOMAIN toolCalls' :
                toolCalls'[k] = IF k = Len(toolCalls) + 1 THEN [tool |-> asked.tool, ok |-> ok] ELSE toolCalls[k]
        /\ \A k \in DOMAIN toolCalls' : k # Len(toolCalls) + 1 => k \in DOMAIN toolCalls
    <2>1. toolCalls \in Seq(ToolRecords)
      BY DEF AgentInv, AgentShapes
    <2> QED BY <1>1, <1>4, <2>1
  <1>6. at' \in {"raised", "asking", "returned"} /\ (at' = "asking" => steps < MaxAgentSteps)
    BY <1>1
  <1>7. AgentShapes'
    <2>1. steps' \in 0..MaxAgentSteps
      <3>1. steps \in 0..MaxAgentSteps
        BY DEF AgentInv, AgentShapes
      <3> QED BY <1>1, <1>6, <3>1, AgentTypes
    <2>2. request.intent \in Intents
      BY <1>2 DEF AgentInv, AgentShapes
    <2> QED BY <1>2, <1>3, <1>5, <1>6, <2>1, <2>2 DEF AgentInv, AgentShapes
  <1>8. RequestsCounted'
    <2>1. tries = 0 /\ httpCalls <= steps * TriesOfRound /\ steps >= 1
      BY <1>2 DEF AgentInv, RequestsCounted
    <2>2. PICK s \in Nat, r \in Nat : s = steps /\ r = TriesOfRound
      BY AgentTypes
    <2>3. s * r \in Nat /\ ((s + 1) - 1) * r = s * r /\ (s + 1) * r = s * r + r
      BY Rounds
    <2>4. CASE at' = "asking"
      <3>1. steps' = s + 1
        BY <1>1, <2>2, <2>4
      <3>2. httpCalls' <= (steps' - 1) * TriesOfRound' + tries'
        BY <1>2, <1>3, <2>1, <2>2, <2>3, <3>1, AgentTypes
      <3>3. httpCalls' <= steps' * TriesOfRound'
        BY <1>2, <1>3, <2>1, <2>2, <2>3, <3>1, AgentTypes
      <3> QED BY <2>1, <2>2, <2>4, <3>1, <3>2, <3>3 DEF RequestsCounted
    <2>5. CASE at' # "asking"
      BY <1>1, <1>2, <1>3, <1>6, <2>1, <2>5 DEF RequestsCounted
    <2> QED BY <2>4, <2>5
  <1>9. ToolsCounted'
    <2>1. Len(toolCalls') <= MaxToolCalls
      BY <1>2, <1>5, AgentTypes DEF AgentInv, ToolsCounted
    <2>2. ASSUME NEW k \in DOMAIN toolCalls', toolCalls'[k].ok
          PROVE  toolCalls'[k].tool \in AllowedTools \cap ToolWhitelist(request.intent, request.guarded)
      <3>1. CASE k = Len(toolCalls) + 1
        BY <1>1, <1>5, <2>2, <3>1 DEF Whitelisted
      <3>2. CASE k # Len(toolCalls) + 1
        BY <1>5, <2>2, <3>2 DEF AgentInv, ToolsCounted, Whitelisted
      <3> QED BY <3>1, <3>2
    <2> QED BY <1>2, <1>6, <2>1, <2>2 DEF ToolsCounted, Whitelisted
  <1>10. DecisionFits'
    BY <1>2, <1>6 DEF AgentInv, DecisionFits, SoundAdvice
  <1> QED BY <1>7, <1>8, <1>9, <1>10 DEF AgentInv

LEMMA AgentInductive == AgentInv /\ [AgentNext]_agentVars => AgentInv'
  <1> SUFFICES ASSUME AgentInv, [AgentNext]_agentVars PROVE AgentInv'
    OBVIOUS
  <1>1. ASSUME NEW intent \in Intents, NEW guarded \in BOOLEAN, NEW configured \in SUBSET Range(ProviderNames),
               StartRun(intent, guarded, configured)
        PROVE  AgentInv'
    <2>1. PICK clients \in SUBSET (DOMAIN ProviderNames) :
              request' = [intent |-> intent, guarded |-> guarded, clients |-> clients]
      BY <1>1 DEF StartRun, Clients
    <2>2. /\ at = "idle" /\ at' = "asking" /\ asked' = asked /\ toolCalls' = toolCalls
          /\ decision' = decision /\ fallback' = fallback
      BY <1>1 DEF StartRun
    <2>3. toolCalls = <<>> /\ fallback = ""
      BY <2>2 DEF AgentInv, ToolsCounted, DecisionFits
    <2>10. steps' = 1 /\ tries' = 0 /\ httpCalls' = 0
      BY <1>1, <2>2 DEF StartRun, askVars, AgentInv, RequestsCounted
    <2>4. /\ request' \in [intent : Intents \cup {"none"}, guarded : BOOLEAN, clients : SUBSET (DOMAIN ProviderNames)]
          /\ request'.intent \in Intents /\ TriesOfRound' = Cardinality(clients) * (MaxRetries + 1)
      BY <2>1 DEF TriesOfRound
    <2>5. PICK r \in Nat : r = TriesOfRound'
      BY <2>4, TriesType
    <2>6. AgentShapes'
      <3>1. steps' \in 0..MaxAgentSteps /\ tries' \in 0..TriesOfRound'
        BY <2>5, <2>10, Bounds
      <3>2. httpCalls' \in Nat
        BY <2>10
      <3> QED BY <2>2, <2>4, <3>1, <3>2 DEF AgentInv, AgentShapes
    <2>7. RequestsCounted'
      <3>1. (steps' - 1) * r = 0 /\ steps' * r = r
        BY <2>10
      <3>2. (steps' - 1) * TriesOfRound' = 0 /\ steps' * TriesOfRound' = r
        BY <2>5, <3>1, Zenon
      <3>3. httpCalls' <= (steps' - 1) * TriesOfRound' + tries' /\ httpCalls' <= steps' * TriesOfRound'
        BY <2>10, <3>2
      <3> QED BY <2>2, <2>10, <3>3 DEF RequestsCounted
    <2>8. ToolsCounted'
      <3>1. Len(toolCalls') = 0 /\ \A k : k \notin DOMAIN toolCalls'
        BY <2>2, <2>3, NoCalls, Zenon
      <3> QED BY <2>2, <3>1, Bounds DEF ToolsCounted
    <2>9. DecisionFits'
      BY <2>2, <2>3 DEF AgentInv, DecisionFits, SoundAdvice
    <2> QED BY <2>6, <2>7, <2>8, <2>9 DEF AgentInv
  <1>2. ASSUME at = "asking" PROVE httpCalls <= steps * TriesOfRound /\ tries \in 0..TriesOfRound /\ httpCalls \in Nat
    BY <1>2 DEF AgentInv, AgentShapes, RequestsCounted
  <1>3. CASE NoModel \/ PromptFails \/ AllClientsFailed
    BY <1>2, <1>3, FallsBack DEF NoModel, PromptFails, AllClientsFailed, Asking, askVars
  <1>4. ASSUME at = "asking", tries < TriesOfRound
        PROVE  /\ httpCalls + 1 <= steps * TriesOfRound
               /\ httpCalls + 1 <= (steps - 1) * TriesOfRound + (tries + 1)
    <2>1. httpCalls <= (steps - 1) * TriesOfRound + tries
      BY <1>4 DEF AgentInv, RequestsCounted
    <2>2. PICK s \in Nat, r \in Nat : s = steps /\ r = TriesOfRound
      BY AgentTypes
    <2>3. (s - 1) * r + r = s * r
      BY Rounds
    <2>4. (s - 1) * r \in Int /\ s * r \in Int
      OBVIOUS
    <2> QED BY <1>4, <2>1, <2>2, <2>3, <2>4, AgentTypes
  <1>5. CASE ModelFails
    <2>1. /\ at = "asking" /\ tries < TriesOfRound /\ tries' = tries + 1 /\ httpCalls' = httpCalls + 1
          /\ request' = request /\ at' = at /\ steps' = steps /\ asked' = asked /\ toolCalls' = toolCalls
          /\ decision' = decision /\ fallback' = fallback
      BY <1>5 DEF ModelFails
    <2>2. TriesOfRound' = TriesOfRound
      BY <2>1 DEF TriesOfRound
    <2>3. AgentShapes'
      <3>1. tries' \in 0..TriesOfRound /\ httpCalls' \in Nat
        BY <2>1, AgentTypes
      <3> QED BY <2>1, <2>2, <3>1 DEF AgentInv, AgentShapes
    <2>4. RequestsCounted'
      BY <1>4, <2>1, <2>2 DEF AgentInv, RequestsCounted
    <2>5. ToolsCounted'
      BY <2>1 DEF AgentInv, ToolsCounted, Whitelisted
    <2>6. DecisionFits'
      BY <2>1 DEF AgentInv, DecisionFits, SoundAdvice
    <2> QED BY <2>3, <2>4, <2>5, <2>6 DEF AgentInv
  <1>6. CASE NoJson
    <2>1. /\ at = "asking" /\ tries < TriesOfRound /\ httpCalls' = httpCalls + 1 /\ tries' = 0
          /\ FallBack("llm_error")
      BY <1>6 DEF NoJson, Answered
    <2>2. httpCalls' \in Nat /\ tries' \in 0..TriesOfRound /\ httpCalls' <= steps * TriesOfRound
      BY <1>4, <2>1, AgentTypes
    <2> QED BY <2>1, <2>2, FallsBack
  <1>7. ASSUME at = "asking", NEW d \in Answers(request.intent), NEW asks \in Requests, Round(d, asks)
        PROVE  AgentInv'
    BY <1>7, RoundSafe
  <1>8. ASSUME NEW raises \in BOOLEAN, CallTool(raises) PROVE AgentInv'
    BY <1>8, CallToolSafe
  <1>9. CASE UNCHANGED agentVars
    <2>1. /\ request' = request /\ at' = at /\ steps' = steps /\ tries' = tries /\ httpCalls' = httpCalls
          /\ asked' = asked /\ toolCalls' = toolCalls /\ decision' = decision /\ fallback' = fallback
      BY <1>9 DEF agentVars
    <2>2. TriesOfRound' = TriesOfRound
      BY <2>1 DEF TriesOfRound
    <2>3. AgentShapes'
      BY <2>1, <2>2 DEF AgentInv, AgentShapes
    <2>4. RequestsCounted'
      BY <2>1, <2>2 DEF AgentInv, RequestsCounted
    <2>5. ToolsCounted'
      BY <2>1 DEF AgentInv, ToolsCounted, Whitelisted
    <2>6. DecisionFits'
      BY <2>1 DEF AgentInv, DecisionFits, SoundAdvice
    <2> QED BY <2>3, <2>4, <2>5, <2>6 DEF AgentInv
  <1>10. CASE AgentNext
    <2>1. CASE \E intent \in Intents, guarded \in BOOLEAN, configured \in SUBSET Range(ProviderNames) :
                  StartRun(intent, guarded, configured)
      BY <1>1, <2>1, Zenon
    <2>2. CASE at = "asking" /\ \E d \in Answers(request.intent), asks \in Requests : Round(d, asks)
      BY <1>7, <2>2, Zenon
    <2>3. CASE \E raises \in BOOLEAN : CallTool(raises)
      BY <1>8, <2>3, Zenon
    <2>4. CASE NoModel \/ PromptFails \/ ModelFails \/ AllClientsFailed \/ NoJson
      BY <1>3, <1>5, <1>6, <2>4, Zenon
    <2> QED BY <1>10, <2>1, <2>2, <2>3, <2>4 DEF AgentNext
  <1> QED BY <1>9, <1>10

LEMMA AgentAlways == AgentSpec => []AgentInv
  BY AgentStarts, AgentInductive, PTL DEF AgentSpec

\* The rounds, tries and requests of a run stay within their types.
THEOREM AgentTypeCorrect == AgentSpec => []AgentTypeOK
  <1>1. AgentInv => AgentTypeOK
    BY DEF AgentInv, AgentShapes, AgentTypeOK, Decisions
  <1> QED BY <1>1, AgentAlways, PTL

\* For any bounds, providers and retries, and whatever the model answers in each
\* round: a run of SupportAgent reads only what the whitelist of its message
\* allows, asks the providers a bounded number of times, and returns advice that
\* fits the intent and the context or is the rules' and marked so.
THEOREM RunStaysInBoundsHolds == AgentSpec => []RunStaysInBounds
  <1> SUFFICES ASSUME AgentInv PROVE RunStaysInBounds
    BY AgentAlways, PTL
  <1>1. ReadsWithinBounds
    BY DEF AgentInv, ToolsCounted, ReadsWithinBounds, Whitelisted, ToolWhitelist
  <1>2. AsksWithinBounds
    <2>1. PICK n \in Nat, s \in Nat, r \in Nat : n = MaxAgentSteps /\ s = steps /\ r = TriesOfRound
      BY AgentTypes
    <2>2. s <= n /\ httpCalls <= s * r
      <3>1. steps \in 0..MaxAgentSteps /\ httpCalls <= steps * TriesOfRound
        BY DEF AgentInv, AgentShapes, RequestsCounted
      <3> QED BY <2>1, <3>1
    <2>3. s * r <= n * r /\ s * r \in Nat /\ n * r \in Nat
      BY <2>2, Rounds
    <2>4. httpCalls <= n * r
      BY <2>2, <2>3, AgentTypes
    <2> QED BY <2>1, <2>4 DEF AsksWithinBounds
  <1>3. AdviceFits
    BY DEF AgentInv, DecisionFits, SoundAdvice, AdviceFits
  <1> QED BY <1>1, <1>2, <1>3 DEF RunStaysInBounds
=============================================================================
