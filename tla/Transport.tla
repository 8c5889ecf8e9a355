------------------------------- MODULE Transport -------------------------------
(***************************************************************************)
(* The outbound clients of WeCom and Feishu (app/adapters/outbound.py) over*)
(* their transports (transports.py): how deliver() gets a token, posts and *)
(* reads the answer.  The client of a channel is shared by the threads     *)
(* that dispatch, without a lock.                                          *)
(***************************************************************************)
EXTENDS Integers, FiniteSets

CONSTANTS
    Senders,            \* threads that deliver
    NetworkEnabled,     \* REAL_CHANNEL_NETWORK
    MaxTokens,          \* bound on the tokens a platform issues
    MaxPosts            \* bound on the messages a thread delivers

ASSUME TransportAssumption ==
    NetworkEnabled \in BOOLEAN /\ MaxTokens \in Nat \ {0} /\ MaxPosts \in Nat

VARIABLES
    current,            \* the number of the token the platform takes now
    cached, lifetime,   \* WeComOutboundClient: _token, 0 for none, and whether it has a lifetime
    sender,             \* [Senders -> where its deliver() is]
    wire,               \* messages that went out on the network, by token
    results             \* what the last deliver() to end said and what became of its message

transportVars == <<current, cached, lifetime, sender, wire, results>>

Simulated == 0
AtRest    == [stage |-> "rest", channel |-> "", token |-> 0, posts |-> 0]

TransportInit ==
    /\ current = 1
    /\ cached = 0 /\ lifetime = FALSE
    /\ sender = [t \in Senders |-> AtRest]
    /\ wire = {}
    /\ results = {}

Continues(t, stage, token) == sender' = [sender EXCEPT ![t].stage = stage, ![t].token = token]
Returns(t, told, outcome) ==
    /\ results' = {[told |-> told, outcome |-> outcome]}
    /\ sender' = [sender EXCEPT ![t] = [AtRest EXCEPT !.posts = sender[t].posts]]

\* Without a token nothing is sent, unless nothing goes out anyway.
GoesOn(t, token) ==
    IF token = Simulated /\ NetworkEnabled THEN Returns(t, "TOKEN_FETCH_FAILED", "not sent")
    ELSE Continues(t, "post", token) /\ UNCHANGED results

\* deliver(): WeCom sends with the token it has kept, for however long; Feishu
\* fetches one for each message.
BeginDelivery(t, channel) ==
    /\ sender[t].stage = "rest" /\ sender[t].posts < MaxPosts
    /\ sender' = [sender EXCEPT ![t] =
                    [stage   |-> IF channel = "wecom" /\ cached # 0 /\ lifetime THEN "post" ELSE "token",
                     channel |-> channel,
                     token   |-> IF channel = "wecom" /\ cached # 0 /\ lifetime THEN cached ELSE 0,
                     posts   |-> @.posts + 1]]
    /\ UNCHANGED <<current, cached, lifetime, wire, results>>

\* _get_access_token and _fetch_tenant_token: there are no credentials to ask with,
\* the platform gives a token or none, or the call raises, which leaves deliver().
\* WeCom's client keeps what it was given, none included.
Fetched == {"unset", "token", "none", "raised"}

FetchToken(t, got) ==
    LET token == IF got = "token" THEN current ELSE 0
        keeps == sender[t].channel = "wecom" /\ got \in {"token", "none"}
    IN  /\ sender[t].stage = "token"
        /\ got # "unset" => NetworkEnabled
        /\ cached' = IF keeps THEN token ELSE cached
        /\ \/ got = "raised" /\ Returns(t, "raised", "not sent")
           \/ got # "raised" /\ ~keeps /\ GoesOn(t, token)
           \/ keeps /\ Continues(t, "keep", token) /\ UNCHANGED results
        /\ UNCHANGED <<current, lifetime, wire>>

\* The lifetime is written after the token, and the token read again after that,
\* with other threads about.
KeepLifetime(t) ==
    /\ sender[t].stage = "keep"
    /\ lifetime' = TRUE
    /\ GoesOn(t, cached)
    /\ UNCHANGED <<current, cached, wire>>

\* Mutant: any answer is a delivery.
AcceptsAny(code) == TRUE

\* A code in the answer, errcode of WeCom and code of Feishu, is a failure.
Accepts(code) == code = 0

\* HttpTransport records and answers; RealHttpTransport asks the platform, which
\* takes a message with its current token unless it has an error of its own.  A
\* body without a code counts as a success, whatever the status of HTTP, and a
\* refusal may have one: it is a silent one.
Post(t, refuses, coded, lost) ==
    LET token   == sender[t].token
        outcome == IF ~NetworkEnabled \/ (token = current /\ ~refuses) THEN "taken"
                   ELSE IF coded THEN "refused" ELSE "silently refused"
        code    == IF outcome = "refused" THEN 1 ELSE 0
    IN  /\ sender[t].stage = "post"
        /\ refuses \/ lost => NetworkEnabled
        /\ wire' = IF NetworkEnabled THEN wire \cup {token} ELSE wire
        /\ Returns(t, IF lost THEN "TRANSPORT_ERROR" ELSE IF Accepts(code) THEN "SENT" ELSE "REFUSED",
                   outcome)
        /\ UNCHANGED <<current, cached, lifetime>>

\* The platform's token expires.
Expire ==
    /\ NetworkEnabled /\ current < MaxTokens
    /\ current' = current + 1
    /\ UNCHANGED <<cached, lifetime, sender, wire, results>>

TransportNext ==
    \/ \E t \in Senders :
        \/ \E channel \in {"wecom", "feishu"} : BeginDelivery(t, channel)
        \/ \E got \in Fetched : FetchToken(t, got)
        \/ KeepLifetime(t)
        \/ \E refuses, coded, lost \in BOOLEAN : Post(t, refuses, coded, lost)
    \/ Expire

TransportSpec == TransportInit /\ [][TransportNext]_transportVars

-----------------------------------------------------------------------------
TransportTypeOK ==
    /\ current \in 1..MaxTokens /\ cached \in 0..current /\ lifetime \in BOOLEAN
    /\ \A t \in Senders : sender[t].posts \in 0..MaxPosts

\* Although tokens expire and threads share them, what deliver() says is what
\* became of the message: SENT of one the platform took or refused silently, and
\* of one it took nothing else, unless the answer was lost; so that a retry of a
\* failed delivery repeats no message that arrived, but for a lost answer.  The
\* simulated token never goes out on the network.
ResultTellsOutcome ==
    /\ \A r \in results :
        /\ r.told = "SENT" => r.outcome \in {"taken", "silently refused"}
        /\ r.outcome = "taken" => r.told \in {"SENT", "TRANSPORT_ERROR"}
    /\ Simulated \notin wire
=============================================================================
