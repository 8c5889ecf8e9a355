---------------------------- MODULE LegacyIngress ----------------------------
(***************************************************************************)
(* IngressService._process_legacy (app/application/ingress_service.py): the*)
(* path of an ingress built with a downstream callable.  The key of the    *)
(* message is claimed in the transaction downstream runs in; if that fails *)
(* the key is deleted in another one, when other threads may have come in  *)
(* between.                                                                *)
(***************************************************************************)
EXTENDS Channels

CONSTANTS
    LegacyThreads,
    Posts,              \* payloads, but for the event that brings them
    EventsOf,           \* [Posts -> events a post may be brought by]
    MaxCallbacks        \* bound on the callbacks

ASSUME LegacyAssumption ==
    /\ MaxCallbacks \in Nat
    /\ Posts \subseteq Payloads
    /\ \A p \in Posts : EventsOf[p] \subseteq Int /\ EventsOf[p] # {}

VARIABLES
    processed,          \* processed_messages: the keys
    releasing,          \* [LegacyThreads -> the key its failed call is going to delete]
    callbacks,          \* callbacks so far
    handled, failures,  \* [Posts -> how often downstream returned, and raised]
    duplicates          \* posts whose sender was told of a duplicate

legacyVars == <<processed, releasing, callbacks, handled, failures, duplicates>>

LegacyInit ==
    /\ processed = {}
    /\ releasing = [t \in LegacyThreads |-> NoKey]
    /\ callbacks = 0
    /\ handled = [p \in Posts |-> 0]
    /\ failures = [p \in Posts |-> 0]
    /\ duplicates = {}

KeyOf(p, event) ==
    IdempotencyKey([p EXCEPT !.event = event], callbacks)

Arrives(t) == callbacks < MaxCallbacks /\ releasing[t] = NoKey /\ callbacks' = callbacks + 1

\* A message without a key is never a duplicate.
KnownKey(key) == key # NoKey /\ key \in processed

LegacyDuplicate(t, p, event) ==
    /\ Arrives(t) /\ KnownKey(KeyOf(p, event))
    /\ duplicates' = duplicates \cup {p}
    /\ UNCHANGED <<processed, releasing, handled, failures>>

\* The claim and downstream commit together.
LegacyProcess(t, p, event) ==
    LET key == KeyOf(p, event) IN
    /\ Arrives(t) /\ ~KnownKey(key)
    /\ processed' = IF key = NoKey THEN processed ELSE processed \cup {key}
    /\ handled' = [handled EXCEPT ![p] = @ + 1]
    /\ UNCHANGED <<releasing, failures, duplicates>>

\* Downstream raises and takes the claim back with it.
LegacyFails(t, p, event) ==
    LET key == KeyOf(p, event) IN
    /\ Arrives(t) /\ ~KnownKey(key)
    /\ failures' = [failures EXCEPT ![p] = @ + 1]
    /\ releasing' = [releasing EXCEPT ![t] = key]
    /\ UNCHANGED <<processed, handled, duplicates>>

\* _release_key: whoever holds the key by now.  It may fail, and is not reported.
ReleaseKey(t, ok) ==
    /\ releasing[t] # NoKey
    /\ processed' = IF ok THEN processed \ {releasing[t]} ELSE processed
    /\ releasing' = [releasing EXCEPT ![t] = NoKey]
    /\ UNCHANGED <<callbacks, handled, failures, duplicates>>

LegacyNext ==
    \E t \in LegacyThreads :
        \/ \E p \in Posts : \E event \in EventsOf[p] :
            LegacyDuplicate(t, p, event) \/ LegacyProcess(t, p, event) \/ LegacyFails(t, p, event)
        \/ \E ok \in BOOLEAN : ReleaseKey(t, ok)

LegacySpec == LegacyInit /\ [][LegacyNext]_legacyVars

-----------------------------------------------------------------------------
LegacyTypeOK ==
    /\ callbacks \in 0..MaxCallbacks
    /\ \A p \in Posts : handled[p] + failures[p] <= callbacks
    /\ duplicates \subseteq Posts

\* The posts that have a key, the same whenever they come.
KnownAgain ==
    {p \in Posts : \A event \in EventsOf[p] :
        LET key(fresh) == IdempotencyKey([p EXCEPT !.event = event], fresh)
        IN  key(0) = key(1) /\ key(0) # NoKey}

\* A message that can be known again is processed once, and again only for a
\* failure whose clean-up took the claim of another thread; and who is told of a
\* duplicate had this very message processed, not another one of the same key.
EachMessageOnce ==
    \A p \in Posts :
        /\ p \in KnownAgain => handled[p] <= 1 + failures[p]
        /\ p \in duplicates => handled[p] > 0
=============================================================================
