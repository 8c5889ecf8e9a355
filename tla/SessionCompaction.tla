-------------------------- MODULE SessionCompaction --------------------------
(***************************************************************************)
(* The rolling summary of a session (app/application/session_compactor.py) *)
(* and the context built from it (app/application/context_builder.py).     *)
(*                                                                         *)
(* Every message of a session, of the user or of the assistant, is added   *)
(* by SupportWorkflow._record_reply, which then runs maybe_compact() in    *)
(* the same transaction.  When the tail after the last cut is longer than  *)
(* Threshold, everything before a user message near its end is replaced by *)
(* a summary, and the context the agent is given from then on is that      *)
(* summary and the last messages after the cut.  A message is its place in *)
(* the session, a summary the set of user messages it tells of.            *)
(***************************************************************************)
EXTENDS Integers, Sequences, SequencesExt

CONSTANTS
    Threshold,      \* COMPACTION_THRESHOLD (12)
    KeepRecent,     \* KEEP_RECENT (6)
    RecentLimit,    \* _RECENT_LIMIT of the context builder (6)
    Summarizers,    \* who may write the summary: "deterministic", "llm"
    MaxTurns        \* bound on the messages of the session

ASSUME CompactionAssumption ==
    /\ Threshold \in Nat /\ KeepRecent \in Nat \ {0} /\ KeepRecent <= Threshold
    /\ RecentLimit \in Nat /\ MaxTurns \in Nat
    /\ Summarizers \subseteq {"deterministic", "llm"}

VARIABLES
    speakers,          \* speakers[i]: who wrote the i-th message, "user" or "assistant"
    summary,        \* user messages the latest summary tells of
    firstKept,      \* first_kept_message_id of the latest compaction, 0 before one
    compacted       \* every message a compaction has replaced

compactionVars == <<speakers, summary, firstKept, compacted>>

CompactionInit ==
    /\ speakers = <<>>
    /\ summary = {}
    /\ firstKept = 0
    /\ compacted = {}

-----------------------------------------------------------------------------
\* MessageRepository.list_after: what lies after the anchor, the anchor itself
\* not included.
ListAfter(anchor) == {i \in DOMAIN speakers : i > anchor}

\* MessageRepository.recent: the last `limit` of them.
Recent(anchor, limit) == {i \in ListAfter(anchor) : i > Len(speakers) - limit}

\* ContextBuilder.build: what an agent run is told of the session's past.
Context == [history |-> summary, window |-> Recent(firstKept, RecentLimit)]

\* maybe_compact: how many messages of the tail are replaced.  The message
\* after them is the user's, the last such one that leaves KeepRecent messages;
\* 0 when the tail is short or has no such message.
Cut(tail) ==
    IF Len(tail) <= Threshold THEN 0
    ELSE SelectLastInSubSeq(tail, 1, Len(tail) - KeepRecent + 1,
                            LAMBDA r : r = "user") - 1

\* Mutant: the summary of this compaction alone.
SummarizeAfresh(replaced, by) == {i \in replaced : speakers[i] = "user"}

\* SessionCompactor._summarize: the deterministic summary starts with the one
\* before and adds a line for every user message; the LLM is given the replaced
\* messages only.
Summarize(replaced, by) ==
    {i \in replaced : speakers[i] = "user"} \cup (IF by = "deterministic" THEN summary ELSE {})

\* A compaction: the messages before the cut are replaced by the summary.
MaybeCompact(anchor, tail, by) ==
    LET cut      == Cut(tail)
        replaced == anchor + 1 .. anchor + cut
    IN  IF cut > 0
        THEN /\ summary' = Summarize(replaced, by)
             /\ firstKept' = anchor + cut + 1
             /\ compacted' = compacted \cup replaced
        ELSE UNCHANGED <<summary, firstKept, compacted>>

\* SupportWorkflow._record_reply: a message is added and the tail looked at,
\* under the connection lock of the transaction.  A session begins with its
\* user; an LLM that fails leaves the summary to the deterministic one.
RecordReply(role, by) ==
    /\ Len(speakers) < MaxTurns
    /\ speakers = <<>> => role = "user"
    /\ speakers' = Append(speakers, role)
    /\ MaybeCompact(firstKept, SubSeq(speakers', firstKept + 1, Len(speakers')), by)

CompactionNext ==
    \E role \in {"user", "assistant"}, by \in Summarizers : RecordReply(role, by)

CompactionSpec == CompactionInit /\ [][CompactionNext]_compactionVars

-----------------------------------------------------------------------------
CompactionTypeOK ==
    /\ speakers \in Seq({"user", "assistant"}) /\ Len(speakers) <= MaxTurns
    /\ firstKept \in {0} \cup DOMAIN speakers
    /\ summary \subseteq DOMAIN speakers
    /\ compacted \subseteq DOMAIN speakers

\* Whatever a user asked for in a message that a compaction replaced, the
\* summary the next agent run is given still tells of it, however many
\* compactions came after.
SummaryKeepsRequests ==
    {i \in compacted : speakers[i] = "user"} \subseteq Context.history

\* "Compacted history is replaced by the session's rolling summary and must not
\* re-enter the window": the model is never given a message both ways.
NothingTwice == compacted \cap Context.window = {}

\* What an agent run is told of the session's past: nothing that was compacted is
\* lost, and nothing is told twice.
ContextTellsHistory == SummaryKeepsRequests /\ NothingTwice

\* "The recent messages from first_kept_message_id on are kept as they are": no
\* request of the user is out of the summary and beyond the reach of the
\* window and of the compactions to come.
NothingForgotten ==
    \A i \in DOMAIN speakers :
        speakers[i] = "user" => i \in summary \cup ListAfter(firstKept)
=============================================================================
