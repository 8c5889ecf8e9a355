------------------------------ MODULE EdgeProofs ------------------------------
(***************************************************************************)
(* Theorems about the edges of the process: a callback that comes in by    *)
(* the path of a downstream callable (LegacyIngress over the keys of       *)
(* Channels), a message that goes out by the clients of WeCom and Feishu   *)
(* (Transport), and requests and chat streams on their way through the     *)
(* process (Gateway).                                                      *)
(***************************************************************************)
EXTENDS Gateway, LegacyIngress, Transport, FiniteSetTheorems, TLAPS

-----------------------------------------------------------------------------
(* Outbound transports                                                       *)

Stages   == {"rest", "token", "keep", "post"}
SenderOf == [stage : Stages, channel : {"", "wecom", "feishu"}, token : Nat, posts : 0..MaxPosts]

\* The states of the outbound clients.
TransportShapes ==
    /\ current \in 1..MaxTokens /\ cached \in 0..current /\ lifetime \in BOOLEAN
    /\ sender \in [Senders -> SenderOf]

\* On the network a message is only posted with a token.
PostsWithToken ==
    NetworkEnabled => \A t \in Senders : sender[t].stage = "post" => sender[t].token # Simulated

SimulatedStays == Simulated \notin wire

TransportInv == TransportShapes /\ PostsWithToken /\ SimulatedStays

\* The ways a thread's place changes.
LEMMA ComesToRest ==
    ASSUME NEW n \in 0..MaxPosts
    PROVE  LET rest == [AtRest EXCEPT !.posts = n] IN rest \in SenderOf /\ rest.stage = "rest"
  BY TransportAssumption DEF SenderOf, Stages, AtRest

LEMMA RestsAtFirst == AtRest \in SenderOf /\ AtRest.stage = "rest"
  <1>1. 0 \in 0..MaxPosts
    BY TransportAssumption
  <1> QED BY <1>1 DEF SenderOf, Stages, AtRest

LEMMA TransportStarts == TransportInit => TransportInv
  <1> SUFFICES ASSUME TransportInit PROVE TransportInv
    OBVIOUS
  <1>1. current \in 1..MaxTokens /\ cached \in 0..current
    BY TransportAssumption DEF TransportInit
  <1>3. lifetime \in BOOLEAN
    BY DEF TransportInit
  <1>2. sender \in [Senders -> SenderOf] /\ \A t \in Senders : sender[t].stage # "post"
    BY RestsAtFirst DEF TransportInit
  <1> QED BY <1>1, <1>2, <1>3
       DEF TransportInit, TransportInv, TransportShapes, PostsWithToken, SimulatedStays

\* A thread that comes to rest, and one that goes on, with a token if it is to
\* go out on the network.
LEMMA ReturnsSafely ==
    ASSUME TransportInv, NEW t \in Senders, NEW told, NEW outcome, Returns(t, told, outcome)
    PROVE  /\ sender' \in [Senders -> SenderOf]
           /\ NetworkEnabled => \A u \in Senders : sender'[u].stage = "post" => sender'[u].token # Simulated
  <1> DEFINE rest == [AtRest EXCEPT !.posts = sender[t].posts]
  <1>1. sender' = [sender EXCEPT ![t] = rest]
    BY DEF Returns
  <1>2. rest \in SenderOf /\ rest.stage = "rest"
    <2>1. sender[t].posts \in 0..MaxPosts
      BY DEF TransportInv, TransportShapes, SenderOf
    <2> QED BY <2>1, ComesToRest
  <1> HIDE DEF rest
  <1> QED BY <1>1, <1>2 DEF TransportInv, TransportShapes, PostsWithToken

LEMMA ContinuesSafely ==
    ASSUME TransportInv, NEW t \in Senders, NEW stage \in Stages, NEW token \in Nat, Continues(t, stage, token),
           stage = "post" /\ NetworkEnabled => token # Simulated
    PROVE  /\ sender' \in [Senders -> SenderOf]
           /\ NetworkEnabled => \A u \in Senders : sender'[u].stage = "post" => sender'[u].token # Simulated
  <1>1. PICK x \in SenderOf : x = sender[t]
    BY DEF TransportInv, TransportShapes
  <1>2. [x EXCEPT !.stage = stage, !.token = token] \in SenderOf
    BY DEF SenderOf
  <1>3. /\ [x EXCEPT !.stage = stage, !.token = token].stage = stage
        /\ [x EXCEPT !.stage = stage, !.token = token].token = token
    BY DEF SenderOf
  <1>4. sender' = [sender EXCEPT ![t] = [x EXCEPT !.stage = stage, !.token = token]]
    BY <1>1 DEF Continues, TransportInv, TransportShapes
  <1> DEFINE next == [x EXCEPT !.stage = stage, !.token = token]
  <1>5. sender' = [sender EXCEPT ![t] = next] /\ next \in SenderOf /\ next.stage = stage /\ next.token = token
    BY <1>2, <1>3, <1>4
  <1> HIDE DEF next
  <1> QED BY <1>5 DEF TransportInv, TransportShapes, PostsWithToken

LEMMA GoesOnSafely ==
    ASSUME TransportInv, NEW t \in Senders, NEW token \in Nat, GoesOn(t, token)
    PROVE  /\ sender' \in [Senders -> SenderOf]
           /\ NetworkEnabled => \A u \in Senders : sender'[u].stage = "post" => sender'[u].token # Simulated
  BY ReturnsSafely, ContinuesSafely DEF GoesOn, Stages

LEMMA TransportInductive == TransportInv /\ [TransportNext]_transportVars => TransportInv'
  <1> SUFFICES ASSUME TransportInv, [TransportNext]_transportVars PROVE TransportInv'
    OBVIOUS
  <1> USE TransportAssumption
  <1>0. /\ current \in 1..MaxTokens /\ cached \in 0..current /\ lifetime \in BOOLEAN
        /\ sender \in [Senders -> SenderOf]
        /\ current \in Nat /\ cached \in Nat
    BY DEF TransportInv, TransportShapes
  <1>1. ASSUME NEW t \in Senders, NEW channel \in {"wecom", "feishu"}, BeginDelivery(t, channel)
        PROVE  TransportInv'
    <2> DEFINE next == [stage   |-> IF channel = "wecom" /\ cached # 0 /\ lifetime THEN "post" ELSE "token",
                        channel |-> channel,
                        token   |-> IF channel = "wecom" /\ cached # 0 /\ lifetime THEN cached ELSE 0,
                        posts   |-> sender[t].posts + 1]
    <2>1. sender' = [sender EXCEPT ![t] = next]
      BY <1>1 DEF BeginDelivery
    <2>2. sender[t].posts \in 0..MaxPosts /\ sender[t].posts < MaxPosts
      BY <1>0, <1>1 DEF BeginDelivery, SenderOf
    <2>3. next \in SenderOf /\ (next.stage = "post" => next.token # Simulated)
      <3>1. sender[t].posts + 1 \in 0..MaxPosts
        BY <2>2
      <3>2. CASE channel = "wecom" /\ cached # 0 /\ lifetime
        BY <1>0, <3>1, <3>2 DEF SenderOf, Stages, Simulated
      <3>3. CASE ~(channel = "wecom" /\ cached # 0 /\ lifetime)
        BY <1>0, <3>1, <3>3 DEF SenderOf, Stages, Simulated
      <3> QED BY <3>2, <3>3
    <2> HIDE DEF next
    <2> QED BY <1>0, <1>1, <2>1, <2>3
         DEF BeginDelivery, TransportInv, TransportShapes, PostsWithToken, SimulatedStays
  <1>2. ASSUME NEW t \in Senders, NEW got \in Fetched, FetchToken(t, got) PROVE TransportInv'
    <2> DEFINE token == IF got = "token" THEN current ELSE 0
    <2>1. token \in Nat /\ cached' \in 0..current
      <3>1. token = current \/ token = 0
        OBVIOUS
      <3>2. cached' = token \/ cached' = cached
        BY <1>2 DEF FetchToken
      <3> HIDE DEF token
      <3> QED BY <1>0, <3>1, <3>2
    <2>2. CASE Returns(t, "raised", "not sent")
      BY <1>0, <1>2, <2>1, <2>2, ReturnsSafely
      DEF FetchToken, TransportInv, TransportShapes, PostsWithToken, SimulatedStays
    <2>3. CASE GoesOn(t, token)
      <3> HIDE DEF token
      <3> QED BY <1>0, <1>2, <2>1, <2>3, GoesOnSafely
           DEF FetchToken, TransportInv, TransportShapes, PostsWithToken, SimulatedStays
    <2>4. CASE Continues(t, "keep", token)
      <3> HIDE DEF token
      <3> QED BY <1>0, <1>2, <2>1, <2>4, ContinuesSafely
           DEF FetchToken, TransportInv, TransportShapes, PostsWithToken, SimulatedStays, Stages
    <2> QED BY <1>2, <2>2, <2>3, <2>4 DEF FetchToken
  <1>3. ASSUME NEW t \in Senders, KeepLifetime(t) PROVE TransportInv'
    BY <1>0, <1>3, GoesOnSafely
    DEF KeepLifetime, TransportInv, TransportShapes, PostsWithToken, SimulatedStays
  <1>4. ASSUME NEW t \in Senders, NEW refuses \in BOOLEAN, NEW coded \in BOOLEAN, NEW lost \in BOOLEAN,
               Post(t, refuses, coded, lost)
        PROVE  TransportInv'
    <2>1. PICK told, outcome : Returns(t, told, outcome)
      BY <1>4 DEF Post
    <2>2. Simulated \notin wire'
      BY <1>0, <1>4 DEF Post, TransportInv, PostsWithToken, SimulatedStays
    <2> QED BY <1>0, <1>4, <2>1, <2>2, ReturnsSafely
         DEF Post, TransportInv, TransportShapes, PostsWithToken, SimulatedStays
  <1>5. CASE Expire
    BY <1>0, <1>5 DEF Expire, TransportInv, TransportShapes, PostsWithToken, SimulatedStays
  <1>6. CASE UNCHANGED transportVars
    BY <1>6 DEF transportVars, TransportInv, TransportShapes, PostsWithToken, SimulatedStays
  <1> QED BY <1>1, <1>2, <1>3, <1>4, <1>5, <1>6 DEF TransportNext

LEMMA TransportAlways == TransportSpec => []TransportInv
  BY TransportStarts, TransportInductive, PTL DEF TransportSpec

\* Tokens, the cache WeCom's client keeps and the threads that deliver stay well
\* formed: a cached token is none or one the platform has issued.
THEOREM TransportTypeCorrect == TransportSpec => []TransportTypeOK
  <1>1. TransportInv => TransportTypeOK
    BY DEF TransportInv, TransportShapes, TransportTypeOK, SenderOf
  <1> QED BY <1>1, TransportAlways, PTL

\* What deliver() may say of a message, by what became of it.
Tells(told, outcome) ==
    /\ told = "SENT" => outcome \in {"taken", "silently refused"}
    /\ outcome = "taken" => told \in {"SENT", "TRANSPORT_ERROR"}

\* deliver() says what became of the message, whatever tokens expire, are refused
\* or lost between the threads, for any number of either: SENT of one that was
\* taken, or refused by an answer whose body has no code, which is all that
\* adapters/outbound.py reads; nothing but SENT or a transport error of one that
\* was taken.  The simulated token never reaches the network.
THEOREM ResultTellsOutcomeHolds == TransportSpec => []ResultTellsOutcome
  <1> DEFINE Told == \A r \in results : Tells(r.told, r.outcome)
  <1>1. TransportInit => TransportInv /\ Told
    BY TransportStarts DEF TransportInit
  <1>2. TransportInv /\ Told /\ [TransportNext]_transportVars => TransportInv' /\ Told'
    <2> SUFFICES ASSUME TransportInv, Told, [TransportNext]_transportVars PROVE TransportInv' /\ Told'
      OBVIOUS
    <2>1. TransportInv'
      BY TransportInductive
    <2>2. ASSUME NEW t \in Senders, NEW told, NEW outcome, Returns(t, told, outcome), Tells(told, outcome)
          PROVE  Told'
      BY <2>2 DEF Returns
    <2>3. ASSUME NEW t \in Senders, NEW token, GoesOn(t, token) PROVE Told'
      <3>1. Tells("TOKEN_FETCH_FAILED", "not sent")
        BY DEF Tells
      <3> QED BY <2>2, <2>3, <3>1 DEF GoesOn
    <2>4. ASSUME NEW t \in Senders, NEW channel \in {"wecom", "feishu"}, BeginDelivery(t, channel)
          PROVE  Told'
      BY <2>4 DEF BeginDelivery
    <2>5. ASSUME NEW t \in Senders, NEW got \in Fetched, FetchToken(t, got) PROVE Told'
      <3>1. Tells("raised", "not sent")
        BY DEF Tells
      <3> QED BY <2>5, <2>2, <2>3, <3>1 DEF FetchToken
    <2>6. ASSUME NEW t \in Senders, KeepLifetime(t) PROVE Told'
      BY <2>6, <2>3 DEF KeepLifetime
    <2>7. ASSUME NEW t \in Senders, NEW refuses \in BOOLEAN, NEW coded \in BOOLEAN, NEW lost \in BOOLEAN,
                 Post(t, refuses, coded, lost)
          PROVE  Told'
      <3>1. PICK outcome : outcome = IF ~NetworkEnabled \/ (sender[t].token = current /\ ~refuses) THEN "taken"
                                     ELSE IF coded THEN "refused" ELSE "silently refused"
        OBVIOUS
      <3>2. PICK told : told = IF lost THEN "TRANSPORT_ERROR"
                               ELSE IF Accepts(IF outcome = "refused" THEN 1 ELSE 0) THEN "SENT" ELSE "REFUSED"
        OBVIOUS
      <3>3. Returns(t, told, outcome)
        BY <2>7, <3>1, <3>2, Zenon DEF Post
      <3>4. outcome \in {"taken", "refused", "silently refused"}
        BY <3>1
      <3>5. told = "SENT" => outcome # "refused"
        BY <3>2 DEF Accepts
      <3>6. outcome = "taken" => told \in {"SENT", "TRANSPORT_ERROR"}
        BY <3>2 DEF Accepts
      <3>7. Tells(told, outcome)
        BY <3>4, <3>5, <3>6 DEF Tells
      <3> QED BY <3>3, <3>7, <2>2
    <2>8. ASSUME UNCHANGED results PROVE Told'
      BY <2>8
    <2> HIDE DEF Told
    <2> QED BY <2>1, <2>4, <2>5, <2>6, <2>7, <2>8 DEF TransportNext, Expire, transportVars
  <1>3. TransportInv /\ Told => ResultTellsOutcome
    BY DEF TransportInv, SimulatedStays, Tells, ResultTellsOutcome
  <1> QED BY <1>1, <1>2, <1>3, PTL DEF TransportSpec

-----------------------------------------------------------------------------
(* One-phase ingress                                                         *)

KeyAt(p, event, n) == IdempotencyKey([p EXCEPT !.event = event], n)

\* A call of the API without an id: its key is made up when it comes.
MadeUp(p) == p.channel = "api" /\ p.id = 0

\* What the channels promise of the payloads.  A message without an id of its own
\* is redelivered with the event that brought it, and payloads that are known by
\* the same key, made up ones aside, are the same message.
OneEventWithoutId ==
    \A p \in Posts : p.id = 0 => \A e, f \in EventsOf[p] : e = f

KeysTellApart ==
    \A p, q \in Posts : \A e \in EventsOf[p], f \in EventsOf[q] :
        KeyAt(p, e, 0) # NoKey /\ KeyAt(p, e, 0) = KeyAt(q, f, 1) => p = q

\* The key of a post that can be known again.
OwnKey(p) == KeyAt(p, CHOOSE e \in EventsOf[p] : TRUE, 0)

LegacyShapes ==
    /\ releasing = [t \in LegacyThreads |-> releasing[t]]
    /\ callbacks \in 0..MaxCallbacks
    /\ handled \in [Posts -> Nat]
    /\ failures \in [Posts -> Nat]
    /\ duplicates \subseteq Posts

\* A key that is claimed is that of a post that came and was handled.
ClaimedByHandled ==
    \A key \in processed : \E q \in Posts : \E e \in EventsOf[q], n \in 0..callbacks-1 :
        key = KeyAt(q, e, n) /\ handled[q] > 0

\* The threads about to take back a claim on the key, and whether it is claimed.
Clearing(key)  == {t \in LegacyThreads : releasing[t] = key}
Claims(key)    == IF key \in processed THEN 1 ELSE 0

\* Each time a post is handled there is a claim for it, or a failure of that post
\* whose clean-up took the claim and is over.
ClaimsAccounted ==
    \A p \in KnownAgain :
        /\ IsFiniteSet(Clearing(OwnKey(p)))
        /\ handled[p] + Cardinality(Clearing(OwnKey(p))) <= Claims(OwnKey(p)) + failures[p]

DuplicatesHandled == \A p \in duplicates : handled[p] > 0

LegacyInv == LegacyShapes /\ ClaimedByHandled /\ ClaimsAccounted /\ DuplicatesHandled

\* What a payload is told by does not depend on the event put into it.
LEMMA Fields ==
    ASSUME NEW p \in Posts, NEW e
    PROVE  LET q == [p EXCEPT !.event = e] IN
           /\ q.channel = p.channel /\ q.id = p.id /\ q.event = e /\ q.time = p.time /\ q.user = p.user
           /\ p.channel \in {"wecom", "feishu", "api"} /\ p.id \in Nat
  BY LegacyAssumption DEF Payloads

\* The key of a payload, field by field.
LEMMA KeyIs ==
    ASSUME NEW p \in Posts, NEW e, NEW n
    PROVE  /\ p.channel = "feishu" =>
                KeyAt(p, e, n) = IF p.id # 0 THEN <<"feishu", p.id>> ELSE IF e # 0 THEN <<"feishu", e>> ELSE NoKey
           /\ p.channel = "wecom" =>
                KeyAt(p, e, n) = IF p.id # 0 THEN <<"wecom", p.id>>
                                 ELSE IF p.user # "" /\ p.time # 0 THEN <<"wecom", p.user, p.time>> ELSE NoKey
           /\ p.channel = "api" => KeyAt(p, e, n) = IF p.id # 0 THEN <<"api", p.id>> ELSE <<"api", "auto", n>>
           /\ p.channel \in {"wecom", "feishu", "api"}
  <1> DEFINE q == [p EXCEPT !.event = e]
  <1>1. /\ q.channel = p.channel /\ q.id = p.id /\ q.event = e /\ q.time = p.time /\ q.user = p.user
        /\ p.channel \in {"wecom", "feishu", "api"} /\ p.id \in Nat
    BY Fields
  <1>2. KeyAt(p, e, n) = IdempotencyKey(q, n)
    BY DEF KeyAt
  <1> HIDE DEF q
  <1>3. CASE p.channel = "feishu"
    <2>1. IdempotencyKey(q, n) = FeishuKey(q)
      BY <1>1, <1>3 DEF IdempotencyKey
    <2>2. FeishuKey(q) = IF p.id # 0 THEN <<"feishu", p.id>> ELSE IF e # 0 THEN <<"feishu", e>> ELSE NoKey
      BY <1>1 DEF FeishuKey
    <2> QED BY <1>2, <1>3, <2>1, <2>2
  <1>4. CASE p.channel = "wecom"
    <2>1. IdempotencyKey(q, n) = WeComKey(q)
      BY <1>1, <1>4 DEF IdempotencyKey
    <2>2. WeComKey(q) = IF p.id # 0 THEN <<"wecom", p.id>>
                        ELSE IF p.user # "" /\ p.time # 0 THEN <<"wecom", p.user, p.time>> ELSE NoKey
      BY <1>1 DEF WeComKey
    <2> QED BY <1>2, <1>4, <2>1, <2>2
  <1>5. CASE p.channel = "api"
    <2>1. IdempotencyKey(q, n) = ApiKey(q, n)
      BY <1>1, <1>5 DEF IdempotencyKey
    <2>2. ApiKey(q, n) = IF p.id # 0 THEN <<"api", p.id>> ELSE <<"api", "auto", n>>
      BY <1>1 DEF ApiKey
    <2> QED BY <1>2, <1>5, <2>1, <2>2
  <1> QED BY <1>1, <1>3, <1>4, <1>5

\* Only a made up key depends on when the payload comes, and it is nobody else's.
LEMMA KeyStays ==
    ASSUME NEW p \in Posts, NEW e, NEW m, NEW n, ~MadeUp(p)
    PROVE  KeyAt(p, e, m) = KeyAt(p, e, n)
  BY KeyIs DEF MadeUp

LEMMA MadeUpIs ==
    ASSUME NEW p \in Posts, NEW e, NEW n, MadeUp(p)
    PROVE  KeyAt(p, e, n) = <<"api", "auto", n>>
  BY KeyIs DEF MadeUp

LEMMA MadeUpApart ==
    ASSUME NEW p \in Posts, NEW e, NEW m, ~MadeUp(p), NEW q \in Posts, NEW f, NEW n, MadeUp(q)
    PROVE  KeyAt(p, e, m) # KeyAt(q, f, n)
  <1>1. KeyAt(q, f, n) = <<"api", "auto", n>>
    BY MadeUpIs
  <1>2. KeyAt(p, e, m) \in {NoKey, <<"api", p.id>>, <<"feishu", p.id>>, <<"feishu", e>>, <<"wecom", p.id>>,
                            <<"wecom", p.user, p.time>>}
    <2>1. CASE p.channel = "feishu"
      BY <2>1, KeyIs
    <2>2. CASE p.channel = "wecom"
      BY <2>2, KeyIs
    <2>3. CASE p.channel = "api"
      BY <2>3, KeyIs DEF MadeUp
    <2> QED BY <2>1, <2>2, <2>3, KeyIs
  <1>3. ASSUME NEW x, NEW y PROVE <<x, y>> # <<"api", "auto", n>>
    <2>1. Len(<<x, y>>) = 2 /\ Len(<<"api", "auto", n>>) = 3
      OBVIOUS
    <2> QED BY <2>1
  <1>4. NoKey # <<"api", "auto", n>>
    BY DEF NoKey
  <1>5. <<"wecom", p.user, p.time>> # <<"api", "auto", n>>
    OBVIOUS
  <1> QED BY <1>1, <1>2, <1>3, <1>4, <1>5

LEMMA SameKeySamePost ==
    ASSUME KeysTellApart,
           NEW p \in Posts, NEW e \in EventsOf[p], NEW m \in Nat,
           NEW q \in Posts, NEW f \in EventsOf[q], NEW n \in Nat,
           KeyAt(p, e, m) = KeyAt(q, f, n), KeyAt(p, e, m) # NoKey,
           ~MadeUp(p) \/ m # n
    PROVE  p = q
  <1>1. CASE ~MadeUp(p) /\ ~MadeUp(q)
    BY <1>1, KeyStays DEF KeysTellApart
  <1>2. CASE MadeUp(p) /\ MadeUp(q)
    <2>1. <<"api", "auto", m>> = <<"api", "auto", n>>
      BY <1>2, MadeUpIs
    <2>2. m = n
      BY <2>1
    <2> QED BY <1>2, <2>2
  <1> QED BY <1>1, <1>2, MadeUpApart

LEMMA OwnKeyIs ==
    ASSUME OneEventWithoutId, NEW p \in KnownAgain, NEW e \in EventsOf[p], NEW n
    PROVE  ~MadeUp(p) /\ KeyAt(p, e, n) = OwnKey(p) /\ OwnKey(p) # NoKey
  <1>1. p \in Posts /\ KeyAt(p, e, 0) = KeyAt(p, e, 1) /\ KeyAt(p, e, 0) # NoKey
    BY DEF KnownAgain, KeyAt
  <1>2. ~MadeUp(p)
    <2> SUFFICES ASSUME MadeUp(p) PROVE FALSE
      OBVIOUS
    <2>1. <<"api", "auto", 0>> = <<"api", "auto", 1>>
      BY <1>1, MadeUpIs
    <2> QED BY <2>1
  <1>3. (CHOOSE f \in EventsOf[p] : TRUE) \in EventsOf[p]
    BY <1>1, LegacyAssumption
  <1>4. PICK f \in EventsOf[p] : f = CHOOSE g \in EventsOf[p] : TRUE
    BY <1>3
  <1>5. OwnKey(p) = KeyAt(p, f, 0)
    BY <1>4 DEF OwnKey
  <1>6. KeyAt(p, e, 0) = KeyAt(p, f, 0)
    <2>1. CASE p.id = 0
      BY <1>1, <2>1 DEF OneEventWithoutId
    <2>2. CASE p.id # 0
      <3>1. p \in Posts
        BY <1>1
      <3>2. CASE p.channel = "feishu"
        BY <2>2, <3>1, <3>2, KeyIs
      <3>3. CASE p.channel = "wecom"
        BY <2>2, <3>1, <3>3, KeyIs
      <3>4. CASE p.channel = "api"
        BY <2>2, <3>1, <3>4, KeyIs
      <3> QED BY <3>1, <3>2, <3>3, <3>4, Fields
    <2> QED BY <2>1, <2>2
  <1> QED BY <1>1, <1>2, <1>5, <1>6, KeyStays

\* A post that can be known again has its key whenever it comes, and no other post has it.
LEMMA OwnKeyAlone ==
    ASSUME OneEventWithoutId, KeysTellApart, NEW p \in KnownAgain,
           NEW q \in Posts, NEW e \in EventsOf[q], NEW n \in Nat
    PROVE  /\ p \in Posts /\ OwnKey(p) # NoKey
           /\ KeyAt(q, e, n) = OwnKey(p) <=> q = p
  <1>1. p \in Posts
    BY DEF KnownAgain
  <1>2. PICK f \in EventsOf[p] : TRUE
    BY <1>1, LegacyAssumption
  <1>3. ~MadeUp(p) /\ KeyAt(p, f, 0) = OwnKey(p) /\ OwnKey(p) # NoKey
    BY <1>2, OwnKeyIs
  <1>4. CASE q = p
    BY <1>1, <1>3, <1>4, OwnKeyIs
  <1>5. ASSUME KeyAt(q, e, n) = OwnKey(p) PROVE q = p
    BY <1>1, <1>2, <1>3, <1>5, SameKeySamePost
  <1> QED BY <1>1, <1>3, <1>4, <1>5

LEMMA LegacyStarts ==
    ASSUME OneEventWithoutId, KeysTellApart
    PROVE  LegacyInit => LegacyInv
  <1> SUFFICES ASSUME LegacyInit PROVE LegacyInv
    OBVIOUS
  <1>1. LegacyShapes
    BY LegacyAssumption DEF LegacyInit, LegacyShapes
  <1>2. ClaimedByHandled /\ DuplicatesHandled
    BY DEF LegacyInit, ClaimedByHandled, DuplicatesHandled
  <1>3. ClaimsAccounted
    <2> SUFFICES ASSUME NEW p \in KnownAgain
                 PROVE  /\ IsFiniteSet(Clearing(OwnKey(p)))
                        /\ handled[p] + Cardinality(Clearing(OwnKey(p))) <= Claims(OwnKey(p)) + failures[p]
      BY DEF ClaimsAccounted
    <2>1. p \in Posts /\ EventsOf[p] # {}
      BY LegacyAssumption DEF KnownAgain
    <2>2. OwnKey(p) # NoKey
      BY <2>1, OwnKeyIs
    <2>3. Clearing(OwnKey(p)) = {}
      BY <2>2 DEF Clearing, LegacyInit
    <2>4. handled[p] = 0 /\ failures[p] = 0
      BY <2>1 DEF LegacyInit
    <2>5. Claims(OwnKey(p)) \in Nat
      BY DEF Claims
    <2> QED BY <2>3, <2>4, <2>5, FS_EmptySet
  <1> QED BY <1>1, <1>2, <1>3 DEF LegacyInv

LEMMA LegacyInductive ==
    ASSUME OneEventWithoutId, KeysTellApart
    PROVE  LegacyInv /\ [LegacyNext]_legacyVars => LegacyInv'
  <1> SUFFICES ASSUME LegacyInv, [LegacyNext]_legacyVars PROVE LegacyInv'
    OBVIOUS
  <1>0. /\ releasing = [t \in LegacyThreads |-> releasing[t]]
        /\ callbacks \in Nat /\ callbacks \in 0..MaxCallbacks
        /\ handled \in [Posts -> Nat] /\ failures \in [Posts -> Nat] /\ duplicates \subseteq Posts
    BY LegacyAssumption DEF LegacyInv, LegacyShapes
  \* What is accounted for a post, while its threads and claims stay or change together.
  <1>1. \A p \in KnownAgain :
            /\ IsFiniteSet(Clearing(OwnKey(p))) /\ Cardinality(Clearing(OwnKey(p))) \in Nat
            /\ handled[p] + Cardinality(Clearing(OwnKey(p))) <= Claims(OwnKey(p)) + failures[p]
            /\ handled[p] \in Nat /\ failures[p] \in Nat
    BY <1>0, FS_CardinalityType DEF LegacyInv, ClaimsAccounted, KnownAgain
  <1>2. \A key : Claims(key) \in {0, 1}
    BY DEF Claims
  <1>3. ASSUME NEW t \in LegacyThreads, NEW q \in Posts, NEW e \in EventsOf[q], LegacyDuplicate(t, q, e)
        PROVE  LegacyInv'
    <2>1. LegacyShapes'
      BY <1>0, <1>3, LegacyAssumption DEF LegacyDuplicate, Arrives, LegacyShapes
    <2>2. ClaimedByHandled'
      <3>1. callbacks' = callbacks + 1 /\ processed' = processed /\ handled' = handled
        BY <1>3 DEF LegacyDuplicate, Arrives
      <3> QED BY <1>0, <3>1 DEF LegacyInv, ClaimedByHandled
    <2>3. ClaimsAccounted'
      BY <1>1, <1>3 DEF LegacyDuplicate, ClaimsAccounted, Clearing, Claims
    <2>4. DuplicatesHandled'
      <3>1. PICK key \in processed : key = KeyAt(q, e, callbacks) /\ key # NoKey
        BY <1>3 DEF LegacyDuplicate, KnownKey, KeyOf, KeyAt
      <3>2. PICK r \in Posts : \E f \in EventsOf[r], n \in 0..callbacks-1 :
                key = KeyAt(r, f, n) /\ handled[r] > 0
        BY <3>1 DEF LegacyInv, ClaimedByHandled
      <3>3. PICK f \in EventsOf[r], n \in 0..callbacks-1 : key = KeyAt(r, f, n) /\ handled[r] > 0
        BY <3>2
      <3>4. PICK m \in Nat : m = callbacks
        BY <1>0
      <3>5. n \in Nat /\ m # n
        BY <3>4
      <3>6. KeyAt(q, e, m) = key
        BY <3>1, <3>4, Zenon
      <3>7. KeyAt(q, e, m) = KeyAt(r, f, n) /\ KeyAt(q, e, m) # NoKey
        BY <3>1, <3>3, <3>6, Zenon
      <3>8. q = r
        BY <3>5, <3>7, SameKeySamePost
      <3> QED BY <1>3, <3>3, <3>8 DEF LegacyDuplicate, LegacyInv, DuplicatesHandled
    <2> QED BY <2>1, <2>2, <2>3, <2>4 DEF LegacyInv
  <1>4. ASSUME NEW t \in LegacyThreads, NEW q \in Posts, NEW e \in EventsOf[q], LegacyProcess(t, q, e)
        PROVE  LegacyInv'
    <2>1. PICK key : key = KeyAt(q, e, callbacks)
      OBVIOUS
    <2>2. /\ callbacks' = callbacks + 1 /\ callbacks' \in 0..MaxCallbacks
          /\ processed' = IF key = NoKey THEN processed ELSE processed \cup {key}
          /\ handled' = [handled EXCEPT ![q] = @ + 1]
          /\ UNCHANGED <<releasing, failures, duplicates>>
          /\ key # NoKey => key \notin processed
      BY <1>0, <1>4, <2>1, LegacyAssumption DEF LegacyProcess, Arrives, KnownKey, KeyOf, KeyAt
    <2>3. LegacyShapes'
      BY <1>0, <2>2 DEF LegacyShapes
    <2>4. \A p \in Posts : handled'[p] = IF p = q THEN handled[p] + 1 ELSE handled[p]
      BY <1>0, <2>2
    <2>5. ClaimedByHandled'
      <3>1. ASSUME NEW k \in processed
            PROVE  \E r \in Posts : \E f \in EventsOf[r], n \in 0..callbacks'-1 : k = KeyAt(r, f, n) /\ handled'[r] > 0
        <4>1. PICK r \in Posts : \E f \in EventsOf[r], n \in 0..callbacks-1 : k = KeyAt(r, f, n) /\ handled[r] > 0
          BY <3>1 DEF LegacyInv, ClaimedByHandled
        <4>2. handled[r] \in Nat /\ handled'[r] \in Nat /\ handled'[r] >= handled[r]
          BY <1>0, <2>4
        <4>3. \A n \in 0..callbacks-1 : n \in 0..callbacks'-1
          BY <1>0, <2>2
        <4> QED BY <4>1, <4>2, <4>3
      <3>2. callbacks \in 0..callbacks'-1 /\ handled'[q] > 0
        BY <1>0, <2>2, <2>4
      <3>3. \E r \in Posts : \E f \in EventsOf[r], n \in 0..callbacks'-1 : key = KeyAt(r, f, n) /\ handled'[r] > 0
        BY <2>1, <3>2
      <3> QED BY <2>2, <3>1, <3>3 DEF ClaimedByHandled
    <2>6. ClaimsAccounted'
      <3> SUFFICES ASSUME NEW p \in KnownAgain
                   PROVE  /\ IsFiniteSet(Clearing(OwnKey(p))')
                          /\ handled'[p] + Cardinality(Clearing(OwnKey(p))') <= Claims(OwnKey(p))' + failures'[p]
        BY DEF ClaimsAccounted
      <3>1. p \in Posts /\ OwnKey(p) # NoKey /\ (key = OwnKey(p) <=> q = p)
        BY <1>0, <2>1, OwnKeyAlone
      <3>2. Clearing(OwnKey(p))' = Clearing(OwnKey(p))
        BY <2>2 DEF Clearing
      <3>3. IF p = q THEN Claims(OwnKey(p)) = 0 /\ Claims(OwnKey(p))' = 1
            ELSE Claims(OwnKey(p))' = Claims(OwnKey(p))
        BY <2>2, <3>1 DEF Claims
      <3> QED BY <1>1, <1>2, <2>2, <2>4, <3>1, <3>2, <3>3
    <2>7. DuplicatesHandled'
      BY <1>0, <2>2, <2>4 DEF LegacyInv, DuplicatesHandled
    <2> QED BY <2>3, <2>5, <2>6, <2>7 DEF LegacyInv
  <1>5. ASSUME NEW t \in LegacyThreads, NEW q \in Posts, NEW e \in EventsOf[q], LegacyFails(t, q, e)
        PROVE  LegacyInv'
    <2>1. PICK key : key = KeyAt(q, e, callbacks)
      OBVIOUS
    <2>2. /\ callbacks' = callbacks + 1 /\ callbacks' \in 0..MaxCallbacks
          /\ failures' = [failures EXCEPT ![q] = @ + 1]
          /\ releasing' = [releasing EXCEPT ![t] = key]
          /\ releasing[t] = NoKey
          /\ UNCHANGED <<processed, handled, duplicates>>
      BY <1>0, <1>5, <2>1, LegacyAssumption DEF LegacyFails, Arrives, KeyOf, KeyAt
    <2>3. LegacyShapes'
      BY <1>0, <2>2 DEF LegacyShapes
    <2>4. \A p \in Posts : failures'[p] = IF p = q THEN failures[p] + 1 ELSE failures[p]
      BY <1>0, <2>2
    <2>5. ClaimedByHandled'
      <3>1. \A n \in 0..callbacks-1 : n \in 0..callbacks'-1
        BY <1>0, <2>2
      <3> QED BY <2>2, <3>1 DEF LegacyInv, ClaimedByHandled
    <2>6. ClaimsAccounted'
      <3> SUFFICES ASSUME NEW p \in KnownAgain
                   PROVE  /\ IsFiniteSet(Clearing(OwnKey(p))')
                          /\ handled'[p] + Cardinality(Clearing(OwnKey(p))') <= Claims(OwnKey(p))' + failures'[p]
        BY DEF ClaimsAccounted
      <3>1. p \in Posts /\ OwnKey(p) # NoKey /\ (key = OwnKey(p) <=> q = p)
        BY <1>0, <2>1, OwnKeyAlone
      <3>2. \A u \in LegacyThreads : releasing'[u] = IF u = t THEN key ELSE releasing[u]
        BY <1>0, <2>2
      <3>3. Claims(OwnKey(p))' = Claims(OwnKey(p))
        BY <2>2 DEF Claims
      <3>4. CASE p = q
        <4>1. Clearing(OwnKey(p))' = Clearing(OwnKey(p)) \cup {t} /\ t \notin Clearing(OwnKey(p))
          BY <2>2, <3>1, <3>2, <3>4 DEF Clearing
        <4>2. /\ IsFiniteSet(Clearing(OwnKey(p))')
              /\ Cardinality(Clearing(OwnKey(p))') = Cardinality(Clearing(OwnKey(p))) + 1
          BY <1>1, <4>1, FS_AddElement
        <4> QED BY <1>1, <1>2, <2>2, <2>4, <3>1, <3>3, <3>4, <4>2
      <3>5. CASE p # q
        <4>1. Clearing(OwnKey(p))' = Clearing(OwnKey(p))
          BY <2>2, <3>1, <3>2, <3>5 DEF Clearing
        <4> QED BY <1>1, <2>2, <2>4, <3>1, <3>3, <3>5, <4>1
      <3> QED BY <3>4, <3>5
    <2>7. DuplicatesHandled'
      BY <2>2 DEF LegacyInv, DuplicatesHandled
    <2> QED BY <2>3, <2>5, <2>6, <2>7 DEF LegacyInv
  <1>6. ASSUME NEW t \in LegacyThreads, NEW ok \in BOOLEAN, ReleaseKey(t, ok)
        PROVE  LegacyInv'
    <2>1. PICK key : key = releasing[t]
      OBVIOUS
    <2>2. /\ key # NoKey
          /\ processed' = processed \/ processed' = processed \ {key}
          /\ releasing' = [releasing EXCEPT ![t] = NoKey]
          /\ UNCHANGED <<callbacks, handled, failures, duplicates>>
      BY <1>6, <2>1 DEF ReleaseKey
    <2>3. LegacyShapes'
      BY <1>0, <2>2 DEF LegacyShapes
    <2>4. ClaimedByHandled' /\ DuplicatesHandled'
      BY <2>2 DEF LegacyInv, ClaimedByHandled, DuplicatesHandled
    <2>5. ClaimsAccounted'
      <3> SUFFICES ASSUME NEW p \in KnownAgain
                   PROVE  /\ IsFiniteSet(Clearing(OwnKey(p))')
                          /\ handled'[p] + Cardinality(Clearing(OwnKey(p))') <= Claims(OwnKey(p))' + failures'[p]
        BY DEF ClaimsAccounted
      <3>1. OwnKey(p) # NoKey
        <4>1. p \in Posts /\ EventsOf[p] # {}
          BY LegacyAssumption DEF KnownAgain
        <4> QED BY <4>1, OwnKeyIs
      <3>2. \A u \in LegacyThreads : releasing'[u] = IF u = t THEN NoKey ELSE releasing[u]
        BY <1>0, <2>2
      <3>3. CASE OwnKey(p) = key
        <4>1. Clearing(OwnKey(p))' = Clearing(OwnKey(p)) \ {t} /\ t \in Clearing(OwnKey(p))
          BY <2>1, <3>1, <3>2, <3>3 DEF Clearing
        <4>2. /\ IsFiniteSet(Clearing(OwnKey(p))')
              /\ Cardinality(Clearing(OwnKey(p))') = Cardinality(Clearing(OwnKey(p))) - 1
          BY <1>1, <4>1, FS_RemoveElement
        <4>3. Claims(OwnKey(p))' \in {0, 1}
          BY DEF Claims
        <4> QED BY <1>1, <1>2, <2>2, <4>2, <4>3
      <3>4. CASE OwnKey(p) # key
        <4>1. Clearing(OwnKey(p))' = Clearing(OwnKey(p))
          BY <2>1, <3>1, <3>2, <3>4 DEF Clearing
        <4>2. Claims(OwnKey(p))' = Claims(OwnKey(p))
          BY <2>2, <3>4 DEF Claims
        <4> QED BY <1>1, <2>2, <4>1, <4>2
      <3> QED BY <3>3, <3>4
    <2> QED BY <2>3, <2>4, <2>5 DEF LegacyInv
  <1>7. CASE UNCHANGED legacyVars
    BY <1>7 DEF legacyVars, LegacyInv, LegacyShapes, ClaimedByHandled, ClaimsAccounted, DuplicatesHandled,
                Clearing, Claims
  <1> QED BY <1>3, <1>4, <1>5, <1>6, <1>7 DEF LegacyNext

\* A message that comes again is processed again only for a failure of its own, and
\* told to be a duplicate only when it was processed itself: for any threads,
\* payloads and events whose ids tell messages apart, although a failed call takes
\* its claim back in a second transaction (IngressService._process_legacy).
THEOREM EachMessageOnceHolds ==
    ASSUME OneEventWithoutId, KeysTellApart
    PROVE  LegacySpec => []EachMessageOnce
  <1>1. LegacyInv => EachMessageOnce
    <2> SUFFICES ASSUME LegacyInv, NEW p \in Posts
                 PROVE  /\ p \in KnownAgain => handled[p] <= 1 + failures[p]
                        /\ p \in duplicates => handled[p] > 0
      BY DEF EachMessageOnce
    <2>1. ASSUME p \in KnownAgain PROVE handled[p] <= 1 + failures[p]
      <3>1. /\ handled[p] \in Nat /\ failures[p] \in Nat
            /\ Cardinality(Clearing(OwnKey(p))) \in Nat
            /\ handled[p] + Cardinality(Clearing(OwnKey(p))) <= Claims(OwnKey(p)) + failures[p]
        BY <2>1, FS_CardinalityType DEF LegacyInv, LegacyShapes, ClaimsAccounted
      <3>2. Claims(OwnKey(p)) \in {0, 1}
        BY DEF Claims
      <3> QED BY <3>1, <3>2
    <2> QED BY <2>1 DEF LegacyInv, DuplicatesHandled
  <1> QED BY <1>1, LegacyStarts, LegacyInductive, PTL DEF LegacySpec

\* How often a message was handled or failed, by the callbacks there were.
LegacyCounted ==
    /\ callbacks \in 0..MaxCallbacks /\ duplicates \subseteq Posts
    /\ handled \in [Posts -> Nat] /\ failures \in [Posts -> Nat]
    /\ \A p \in Posts : handled[p] + failures[p] <= callbacks

\* Every callback is counted once: as handled, as failed or as a duplicate.
THEOREM LegacyTypeCorrect == LegacySpec => []LegacyTypeOK
  <1>1. LegacyInit => LegacyCounted
    BY LegacyAssumption DEF LegacyInit, LegacyCounted
  <1>2. LegacyCounted /\ [LegacyNext]_legacyVars => LegacyCounted'
    <2>1. SUFFICES ASSUME LegacyCounted, LegacyNext PROVE LegacyCounted'
      <3>1. ASSUME LegacyCounted, UNCHANGED legacyVars PROVE LegacyCounted'
        BY <3>1 DEF LegacyCounted, legacyVars
      <3> QED BY <3>1
    <2>2. MaxCallbacks \in Nat /\ callbacks \in Nat
      BY <2>1, LegacyAssumption DEF LegacyCounted
    <2>3. ASSUME NEW t \in LegacyThreads, NEW p \in Posts, NEW e \in EventsOf[p], LegacyDuplicate(t, p, e)
          PROVE  LegacyCounted'
      BY <2>1, <2>2, <2>3 DEF LegacyCounted, LegacyDuplicate, Arrives
    <2>4. ASSUME NEW t \in LegacyThreads, NEW p \in Posts, NEW e \in EventsOf[p], LegacyProcess(t, p, e)
          PROVE  LegacyCounted'
      BY <2>1, <2>2, <2>4 DEF LegacyCounted, LegacyProcess, Arrives
    <2>5. ASSUME NEW t \in LegacyThreads, NEW p \in Posts, NEW e \in EventsOf[p], LegacyFails(t, p, e)
          PROVE  LegacyCounted'
      BY <2>1, <2>2, <2>5 DEF LegacyCounted, LegacyFails, Arrives
    <2>6. ASSUME NEW t \in LegacyThreads, NEW ok \in BOOLEAN, ReleaseKey(t, ok) PROVE LegacyCounted'
      BY <2>1, <2>6 DEF LegacyCounted, ReleaseKey
    <2> QED BY <2>1, <2>3, <2>4, <2>5, <2>6 DEF LegacyNext
  <1>3. LegacyCounted => LegacyTypeOK
    BY DEF LegacyCounted, LegacyTypeOK
  <1> QED BY <1>1, <1>2, <1>3, PTL DEF LegacySpec

-----------------------------------------------------------------------------
(* The chat stream                                                           *)

\* What the pipeline may report, what may be on its way to the loop, how a stream
\* may end, and what the client may be sent.
Events   == {"received", "prepared", "completed", "agent_started", "agent_completed"}
OnTheWay == Events \cup {Sentinel}
Verdicts == {"done", "error"}
Shown    == Events \cup Verdicts

\* What the worker reported (e), what is on its way to the loop (q) and what was
\* sent (s): nothing is lost, repeated or out of order.  Behind it all come as many
\* ends as there were, `ends`, which are sent as the verdict on the worker.
Line(ends, verdict, e, q, s) ==
    /\ Len(s) + Len(q) = Len(e) + ends
    /\ \A i \in 1..Len(s) : s[i] = IF i <= Len(e) THEN e[i] ELSE verdict
    /\ \A i \in 1..Len(q) : q[i] = IF Len(s) + i <= Len(e) THEN e[Len(s) + i] ELSE Sentinel

LEMMA SentinelIsNoEvent == Sentinel \notin Events
  BY DEF Events, Sentinel

LEMMA NatsFromZero == \A n \in Nat : 0 <= n
  OBVIOUS

LEMMA NothingReported == <<>> \in Seq(Events)
  OBVIOUS

LEMMA SentinelAdded == ASSUME NEW q \in Seq(OnTheWay) PROVE Append(q, Sentinel) \in Seq(OnTheWay)
  <1>1. Sentinel \in OnTheWay
    BY DEF OnTheWay
  <1> QED BY <1>1

LEMMA LineBegins == ASSUME NEW v PROVE Line(0, v, <<>>, <<>>, <<>>)
  BY DEF Line

\* The worker ends, in whatever way.
LEMMA LineEnds ==
    ASSUME NEW e \in Seq(Events), NEW q \in Seq(OnTheWay), NEW s \in Seq(Shown), NEW v, NEW w, Line(0, v, e, q, s)
    PROVE  Line(1, w, e, Append(q, Sentinel), s)
  <1>1. /\ Len(q) \in Nat /\ Len(e) \in Nat /\ Len(s) \in Nat /\ Len(s) + Len(q) = Len(e)
    BY DEF Line
  <1>2. PICK q2 : q2 = Append(q, Sentinel)
    OBVIOUS
  <1>3. /\ Len(q2) = Len(q) + 1
        /\ q2[Len(q) + 1] = Sentinel /\ \A i \in 1..Len(q) : q2[i] = q[i]
    BY <1>2
  <1>4. ASSUME NEW i \in 1..Len(s) PROVE s[i] = IF i <= Len(e) THEN e[i] ELSE w
    <2>1. i <= Len(e)
      BY <1>1
    <2> QED BY <2>1 DEF Line
  <1>5. ASSUME NEW i \in 1..Len(q2) PROVE q2[i] = IF Len(s) + i <= Len(e) THEN e[Len(s) + i] ELSE Sentinel
    <2>1. CASE i \in 1..Len(q)
      BY <1>3, <2>1 DEF Line
    <2>2. CASE i = Len(q) + 1
      <3>1. ~(Len(s) + i <= Len(e))
        BY <1>1, <2>2
      <3> QED BY <1>3, <2>2, <3>1
    <2> QED BY <1>1, <1>3, <2>1, <2>2
  <1>6. Len(s) + Len(q2) = Len(e) + 1
    <2>1. Len(q2) = Len(q) + 1
      BY <1>3
    <2> QED BY <1>1, <2>1
  <1> QED BY <1>2, <1>4, <1>5, <1>6 DEF Line

\* The worker reports an event.
LEMMA LineGrows ==
    ASSUME NEW e \in Seq(Events), NEW q \in Seq(OnTheWay), NEW s \in Seq(Shown), NEW v,
           Line(0, v, e, q, s), NEW x \in Events
    PROVE  Line(0, v, Append(e, x), Append(q, x), s)
  <1>1. /\ Len(q) \in Nat /\ Len(e) \in Nat /\ Len(s) \in Nat /\ Len(s) + Len(q) = Len(e)
    BY DEF Line
  <1>3. PICK q2 : q2 = Append(q, x)
    OBVIOUS
  <1>4. PICK e2 : e2 = Append(e, x)
    OBVIOUS
  <1>5. Len(q2) = Len(q) + 1 /\ q2[Len(q) + 1] = x /\ \A i \in 1..Len(q) : q2[i] = q[i]
    BY <1>3
  <1>6. Len(e2) = Len(e) + 1 /\ e2[Len(e) + 1] = x /\ \A i \in 1..Len(e) : e2[i] = e[i]
    BY <1>4
  <1>7. ASSUME NEW i \in 1..Len(s) PROVE s[i] = IF i <= Len(e2) THEN e2[i] ELSE v
    <2>1. i \in 1..Len(e) /\ i <= Len(e) /\ i <= Len(e2)
      BY <1>1, <1>6
    <2> QED BY <1>6, <2>1 DEF Line
  <1>8. ASSUME NEW i \in 1..Len(q2) PROVE q2[i] = IF Len(s) + i <= Len(e2) THEN e2[Len(s) + i] ELSE Sentinel
    <2>1. CASE i \in 1..Len(q)
      <3>1. Len(s) + i \in 1..Len(e) /\ Len(s) + i <= Len(e) /\ Len(s) + i <= Len(e2)
        BY <1>1, <1>6, <2>1
      <3> QED BY <1>5, <1>6, <2>1, <3>1 DEF Line
    <2>2. CASE i = Len(q) + 1
      <3>1. Len(s) + i = Len(e) + 1 /\ Len(s) + i <= Len(e2)
        BY <1>1, <1>6, <2>2
      <3> QED BY <1>5, <1>6, <2>2, <3>1
    <2> QED BY <1>1, <1>5, <2>1, <2>2
  <1>9. Len(s) + Len(q2) = Len(e2) + 0
    <2>1. Len(q2) = Len(q) + 1 /\ Len(e2) = Len(e) + 1
      BY <1>5, <1>6
    <2>2. Len(s) + (Len(q) + 1) = (Len(e) + 1) + 0
      BY <1>1
    <2> QED BY <2>1, <2>2, Zenon
  <1> QED BY <1>3, <1>4, <1>7, <1>8, <1>9 DEF Line

\* The loop sends the next of what is on its way, an event or how the worker ended.
LEMMA LineMoves ==
    ASSUME NEW e \in Seq(Events), NEW q \in Seq(OnTheWay), NEW s \in Seq(Shown), NEW v \in Verdicts,
           NEW n \in Nat, Line(n, v, e, q, s), q # <<>>,
           NEW x, x = IF Head(q) # Sentinel THEN Head(q) ELSE v
    PROVE  x \in Shown /\ Line(n, v, e, Tail(q), Append(s, x))
  <1>1. /\ Len(q) \in Nat \ {0} /\ Len(e) \in Nat /\ Len(s) \in Nat /\ Len(s) + Len(q) = Len(e) + n
    BY DEF Line
  <1>2. PICK q2 : q2 = Tail(q)
    OBVIOUS
  <1>3. /\ q2 \in Seq(OnTheWay) /\ Len(q2) = Len(q) - 1
        /\ \A i \in 1..Len(q2) : q2[i] = q[i + 1]
        /\ Head(q) = q[1]
    BY <1>1, <1>2
  <1>5. x = IF Len(s) + 1 <= Len(e) THEN e[Len(s) + 1] ELSE v
    <2>1. 1 \in 1..Len(q)
      BY <1>1
    <2>2. q[1] = IF Len(s) + 1 <= Len(e) THEN e[Len(s) + 1] ELSE Sentinel
      BY <2>1 DEF Line
    <2>3. ASSUME Len(s) + 1 <= Len(e) PROVE e[Len(s) + 1] # Sentinel
      <3>1. e[Len(s) + 1] \in Events
        BY <1>1, <2>3
      <3> QED BY <3>1, SentinelIsNoEvent
    <2> QED BY <1>3, <2>2, <2>3
  <1>6. x \in Shown
    <2>1. Len(s) + 1 <= Len(e) => e[Len(s) + 1] \in Events
      BY <1>1
    <2> QED BY <1>5, <2>1 DEF Shown
  <1>7. PICK s2 : s2 = Append(s, x)
    OBVIOUS
  <1>8. Len(s2) = Len(s) + 1 /\ s2[Len(s) + 1] = x /\ \A i \in 1..Len(s) : s2[i] = s[i]
    BY <1>6, <1>7
  <1>9. ASSUME NEW i \in 1..Len(s2) PROVE s2[i] = IF i <= Len(e) THEN e[i] ELSE v
    <2>1. CASE i \in 1..Len(s)
      BY <1>8, <2>1 DEF Line
    <2>2. CASE i = Len(s) + 1
      BY <1>5, <1>8, <2>2
    <2> QED BY <1>1, <1>8, <2>1, <2>2
  <1>10. ASSUME NEW i \in 1..Len(q2) PROVE q2[i] = IF Len(s2) + i <= Len(e) THEN e[Len(s2) + i] ELSE Sentinel
    <2>1. i + 1 \in 1..Len(q) /\ Len(s) + (i + 1) = Len(s2) + i
      BY <1>1, <1>3, <1>8
    <2>2. q[i + 1] = IF Len(s) + (i + 1) <= Len(e) THEN e[Len(s) + (i + 1)] ELSE Sentinel
      BY <2>1 DEF Line
    <2> QED BY <1>3, <2>1, <2>2
  <1>11. Len(s2) + Len(q2) = Len(e) + n
    <2>1. Len(q2) = Len(q) - 1 /\ Len(s2) = Len(s) + 1
      BY <1>3, <1>8
    <2> QED BY <1>1, <2>1
  <1> QED BY <1>2, <1>6, <1>7, <1>9, <1>10, <1>11 DEF Line

-----------------------------------------------------------------------------
(* Calls                                                                     *)

CallStages  == {"new", "services", "building", "built", "half", "served", "reading", "processing", "running", "over"}
CallShapes  == [stage : CallStages, conn : Nat, path : Seq(Events), result : {"", "returned", "raised"},
                chore : BOOLEAN]
\* Only a call that is over has a result.
CallRecords == {call \in CallShapes : call.stage # "over" => call.result = ""}

\* A call that has its services, or failed to build them: it builds no more.
Past(call) == call.stage \notin {"new", "services", "building"}

\* How the stream ends, by how its worker did.
Verdict(result) == IF result = "returned" THEN "done" ELSE "error"
EndsOf(call)    == IF call.result = "" THEN 0 ELSE 1

StreamTold(call, e, q, s) == Line(EndsOf(call), Verdict(call.result), e, q, s)

GatewayShapes ==
    /\ started \in BOOLEAN /\ opened \in Nat /\ ingress \in 0..opened /\ ops \in 0..opened
    /\ loop \in Calls \cup {NoCall} /\ (loop # NoCall => KindOf[loop] = "webhook")
    /\ calls \in [Calls -> CallRecords] /\ \A c \in Calls : calls[c].conn <= opened
    /\ queue \in [Calls -> Seq(OnTheWay)] /\ emitted \in [Calls -> Seq(Events)] /\ sent \in [Calls -> Seq(Shown)]

StreamsTold == \A c \in Calls : KindOf[c] = "stream" => StreamTold(calls[c], emitted[c], queue[c], sent[c])

Builders == {c \in Calls : Past(calls[c])}

\* The startup event opens a connection, and so does each call at most.
ConnectionsCounted == opened <= (IF started THEN 1 ELSE 0) + Cardinality(Builders)

GatewayInv == GatewayShapes /\ StreamsTold /\ (IsFiniteSet(Calls) => ConnectionsCounted)

-----------------------------------------------------------------------------
(* One step of a call                                                        *)

\* What the step does to the connections, c being `call` after it.
Opens(c, call) ==
    \/ opened' = opened
    \/ opened' = opened + 1 /\ ~Past(calls[c]) /\ Past(call)

\* The call is another, with its stream told as before, and has opened a
\* connection if it was about to.
Turns(c) ==
    \E call \in CallRecords, e \in Seq(Events), q \in Seq(OnTheWay), s \in Seq(Shown) :
        /\ calls' = [calls EXCEPT ![c] = call]
        /\ emitted' = [emitted EXCEPT ![c] = e] /\ queue' = [queue EXCEPT ![c] = q] /\ sent' = [sent EXCEPT ![c] = s]
        /\ KindOf[c] = "stream" => StreamTold(call, e, q, s)
        /\ call.conn <= opened' /\ (Past(calls[c]) => Past(call)) /\ Opens(c, call)

HostMoves ==
    /\ started' = started /\ opened' \in Nat /\ opened' >= opened
    /\ ingress' \in 0..opened' /\ ops' \in 0..opened'
    /\ loop' \in Calls \cup {NoCall} /\ (loop' # NoCall => KindOf[loop'] = "webhook")

LEMMA CallIs ==
    ASSUME GatewayShapes, NEW c \in Calls
    PROVE  /\ calls[c] \in CallRecords /\ calls[c].conn \in Nat /\ calls[c].conn <= opened
           /\ calls[c].path \in Seq(Events)
           /\ emitted[c] \in Seq(Events) /\ queue[c] \in Seq(OnTheWay) /\ sent[c] \in Seq(Shown)
           /\ opened \in Nat
  <1>1. /\ calls[c] \in CallRecords /\ calls[c].conn <= opened /\ opened \in Nat
        /\ emitted[c] \in Seq(Events) /\ queue[c] \in Seq(OnTheWay) /\ sent[c] \in Seq(Shown)
    BY DEF GatewayShapes
  <1>2. calls[c].conn \in Nat /\ calls[c].path \in Seq(Events)
    BY <1>1 DEF CallRecords, CallShapes
  <1> QED BY <1>1, <1>2

LEMMA TurnsKeeps ==
    ASSUME GatewayInv, NEW c \in Calls, Turns(c), HostMoves
    PROVE  GatewayInv'
  <1>0. GatewayShapes /\ StreamsTold /\ (IsFiniteSet(Calls) => ConnectionsCounted)
    BY DEF GatewayInv
  <1>1. PICK call \in CallRecords, e \in Seq(Events), q \in Seq(OnTheWay), s \in Seq(Shown) :
            /\ calls' = [calls EXCEPT ![c] = call]
            /\ emitted' = [emitted EXCEPT ![c] = e] /\ queue' = [queue EXCEPT ![c] = q] /\ sent' = [sent EXCEPT ![c] = s]
            /\ KindOf[c] = "stream" => StreamTold(call, e, q, s)
            /\ call.conn <= opened' /\ (Past(calls[c]) => Past(call)) /\ Opens(c, call)
    BY DEF Turns
  <1>2. /\ calls \in [Calls -> CallRecords] /\ queue \in [Calls -> Seq(OnTheWay)]
        /\ emitted \in [Calls -> Seq(Events)] /\ sent \in [Calls -> Seq(Shown)]
    BY <1>0 DEF GatewayShapes
  <1>3. /\ calls' \in [Calls -> CallRecords] /\ queue' \in [Calls -> Seq(OnTheWay)]
        /\ emitted' \in [Calls -> Seq(Events)] /\ sent' \in [Calls -> Seq(Shown)]
    BY <1>1, <1>2
  <1>4. \A d \in Calls : \/ d = c /\ calls'[d] = call /\ emitted'[d] = e /\ queue'[d] = q /\ sent'[d] = s
                         \/ d # c /\ calls'[d] = calls[d] /\ emitted'[d] = emitted[d]
                               /\ queue'[d] = queue[d] /\ sent'[d] = sent[d]
    BY <1>1, <1>2
  <1>5. \A d \in Calls : calls'[d].conn <= opened'
    <2>1. ASSUME NEW d \in Calls PROVE calls'[d].conn <= opened'
      <3>1. CASE d = c
        BY <1>1, <1>4, <3>1
      <3>2. CASE d # c
        <4>1. calls'[d].conn = calls[d].conn
          BY <1>4, <3>2
        <4>2. calls[d].conn \in Nat /\ calls[d].conn <= opened /\ opened \in Nat
          BY <1>0, CallIs
        <4>3. opened' \in Nat /\ opened' >= opened
          BY DEF HostMoves
        <4> QED BY <4>1, <4>2, <4>3
      <3> QED BY <3>1, <3>2
    <2> QED BY <2>1
  <1>6. GatewayShapes'
    <2>1. started' \in BOOLEAN
      BY <1>0 DEF HostMoves, GatewayShapes
    <2> QED BY <1>3, <1>5, <2>1 DEF GatewayShapes, HostMoves
  <1>7. StreamsTold'
    <2>1. ASSUME NEW d \in Calls, KindOf[d] = "stream"
          PROVE  StreamTold(calls'[d], emitted'[d], queue'[d], sent'[d])
      <3>1. CASE d = c
        BY <1>1, <1>4, <2>1, <3>1, Zenon
      <3>2. CASE d # c
        <4>1. StreamTold(calls[d], emitted[d], queue[d], sent[d])
          BY <1>0, <2>1 DEF StreamsTold
        <4> QED BY <1>4, <3>2, <4>1, Zenon
      <3> QED BY <3>1, <3>2
    <2> QED BY <2>1 DEF StreamsTold
  <1>8. ASSUME IsFiniteSet(Calls) PROVE ConnectionsCounted'
    <2>1. PICK old, new : old = Builders /\ new = Builders'
      OBVIOUS
    <2>2. IsFiniteSet(old) /\ IsFiniteSet(new) /\ Cardinality(old) \in Nat /\ Cardinality(new) \in Nat
      <3>1. old \in SUBSET Calls /\ new \in SUBSET Calls
        BY <2>1 DEF Builders
      <3> QED BY <1>8, <3>1, FS_Subset, FS_CardinalityType
    <2>3. old \subseteq new
      BY <1>1, <1>4, <2>1 DEF Builders
    <2>4. Cardinality(old) <= Cardinality(new)
      BY <2>2, <2>3, FS_Subset
    <2>5. PICK base \in Nat : base = IF started THEN 1 ELSE 0
      OBVIOUS
    <2>6. opened <= base + Cardinality(old) /\ opened \in Nat
      BY <1>0, <1>8, <2>1, <2>5 DEF ConnectionsCounted, GatewayShapes
    <2>7. started' = started
      BY DEF HostMoves
    <2>8. CASE opened' = opened
      <3>1. opened' <= base + Cardinality(new)
        BY <2>2, <2>4, <2>6, <2>8
      <3> QED BY <2>1, <2>5, <2>7, <3>1 DEF ConnectionsCounted
    <2>9. CASE opened' = opened + 1 /\ ~Past(calls[c]) /\ Past(call)
      <3>1. c \notin old /\ c \in new
        BY <1>4, <2>1, <2>9 DEF Builders
      <3>2. Cardinality(old \cup {c}) = Cardinality(old) + 1 /\ IsFiniteSet(old \cup {c})
        BY <2>2, <3>1, FS_AddElement
      <3>3. Cardinality(old \cup {c}) <= Cardinality(new)
        BY <2>2, <2>3, <3>1, FS_Subset
      <3>4. opened' <= base + Cardinality(new)
        BY <2>2, <2>6, <2>9, <3>2, <3>3
      <3> QED BY <2>1, <2>5, <2>7, <3>4 DEF ConnectionsCounted
    <2> QED BY <1>1, <2>8, <2>9 DEF Opens
  <1> QED BY <1>6, <1>7, <1>8 DEF GatewayInv

\* A call changes and its stream does not.
LEMMA TurnsQuietly ==
    ASSUME GatewayInv, NEW c \in Calls, NEW call \in CallRecords, calls' = [calls EXCEPT ![c] = call],
           UNCHANGED Streams,
           call.result = calls[c].result,
           call.conn <= opened', Past(calls[c]) => Past(call), Opens(c, call)
    PROVE  Turns(c)
  <1>1. /\ queue \in [Calls -> Seq(OnTheWay)] /\ emitted \in [Calls -> Seq(Events)] /\ sent \in [Calls -> Seq(Shown)]
        /\ queue' = queue /\ emitted' = emitted /\ sent' = sent
    BY DEF GatewayInv, GatewayShapes, Streams
  <1>2. /\ queue' = [queue EXCEPT ![c] = queue[c]] /\ emitted' = [emitted EXCEPT ![c] = emitted[c]]
        /\ sent' = [sent EXCEPT ![c] = sent[c]]
    BY <1>1
  <1>3. /\ emitted[c] \in Seq(Events) /\ queue[c] \in Seq(OnTheWay) /\ sent[c] \in Seq(Shown)
    BY <1>1
  <1>4. KindOf[c] = "stream" => StreamTold(call, emitted[c], queue[c], sent[c])
    <2>1. SUFFICES ASSUME KindOf[c] = "stream" PROVE StreamTold(call, emitted[c], queue[c], sent[c])
      OBVIOUS
    <2>2. StreamTold(calls[c], emitted[c], queue[c], sent[c])
      BY <2>1 DEF GatewayInv, StreamsTold
    <2>3. EndsOf(call) = EndsOf(calls[c])
      BY DEF EndsOf
    <2> QED BY <2>2, <2>3 DEF StreamTold
  <1> QED BY <1>2, <1>3, <1>4 DEF Turns

\* A call goes from one stage to another, before its end.
LEMMA StageTurns ==
    ASSUME GatewayInv, NEW c \in Calls, NEW stage \in CallStages \ {"over"}, Goes(c, stage),
           UNCHANGED Streams, opened' = opened, calls[c].stage # "over",
           Past(calls[c]) => stage \notin {"new", "services", "building"}
    PROVE  Turns(c)
  <1>1. calls[c] \in CallRecords /\ calls[c].conn <= opened /\ calls \in [Calls -> CallRecords]
    BY CallIs DEF GatewayInv, GatewayShapes
  <1>2. PICK call : call = [calls[c] EXCEPT !.stage = stage]
    OBVIOUS
  <1>3. /\ call \in CallRecords /\ call.stage = stage /\ call.result = calls[c].result /\ call.conn = calls[c].conn
    BY <1>1, <1>2 DEF CallRecords, CallShapes
  <1>4. calls' = [calls EXCEPT ![c] = call]
    BY <1>1, <1>2 DEF Goes
  <1>5. (Past(calls[c]) => Past(call)) /\ call.conn <= opened'
    BY <1>1, <1>3 DEF Past
  <1>7. Opens(c, call)
    BY DEF Opens
  <1>8. call \in CallRecords /\ call.result = calls[c].result
    BY <1>3, Zenon
  <1>9. call.conn <= opened'
    BY <1>5, Zenon
  <1>10. Past(calls[c]) => Past(call)
    BY <1>5, Zenon
  <1> QED BY <1>4, <1>7, <1>8, <1>9, <1>10, TurnsQuietly

\* A call ends: its stream is told so, behind everything reported.
LEMMA EndsTurns ==
    ASSUME GatewayInv, NEW c \in Calls, NEW result \in {"returned", "raised"}, NEW chore \in BOOLEAN,
           Ends(c, result, chore), calls[c].stage # "over", opened' \in Nat,
           \A call : Past(call) => Opens(c, call)
    PROVE  Turns(c) /\ loop' \in Calls \cup {NoCall} /\ (loop' # NoCall => KindOf[loop'] = "webhook")
  <1>1. /\ emitted[c] \in Seq(Events) /\ queue[c] \in Seq(OnTheWay) /\ sent[c] \in Seq(Shown)
        /\ queue \in [Calls -> Seq(OnTheWay)] /\ emitted \in [Calls -> Seq(Events)] /\ sent \in [Calls -> Seq(Shown)]
        /\ loop \in Calls \cup {NoCall} /\ (loop # NoCall => KindOf[loop] = "webhook")
    BY DEF GatewayInv, GatewayShapes
  <1>2. PICK r \in {"", "returned", "raised"} : r = IF KindOf[c] = "stream" THEN result ELSE ""
    OBVIOUS
  <1>3. PICK call : call = [NewCall EXCEPT !.stage = "over", !.result = r, !.chore = chore]
    OBVIOUS
  <1>4. call \in CallRecords /\ call.stage = "over" /\ call.result = r /\ call.conn = 0
    <2>1. call = [stage |-> "over", conn |-> 0, path |-> <<>>, result |-> r, chore |-> chore]
      <3>1. CASE chore = TRUE
        BY <1>3, <3>1 DEF NewCall
      <3>2. CASE chore = FALSE
        BY <1>3, <3>2 DEF NewCall
      <3> QED BY <3>1, <3>2
    <2>2. "over" \in CallStages /\ 0 \in Nat
      BY DEF CallStages
    <2>4. <<>> \in Seq(Events)
      BY NothingReported, Zenon
    <2>3. call \in CallShapes
      BY <2>1, <2>2, <2>4, Zenon DEF CallShapes
    <2> QED BY <2>1, <2>3 DEF CallRecords
  <1>5. calls' = [calls EXCEPT ![c] = call]
    BY <1>2, <1>3 DEF Ends
  <1>6. emitted' = emitted /\ sent' = sent
    BY DEF Ends
  <1>7. emitted' = [emitted EXCEPT ![c] = emitted[c]] /\ sent' = [sent EXCEPT ![c] = sent[c]]
    BY <1>1, <1>6
  <1>8. Past(call) /\ call.conn <= opened' /\ Opens(c, call)
    <2>1. Past(call)
      BY <1>4 DEF Past
    <2>2. 0 <= opened'
      BY NatsFromZero, Zenon
    <2>3. call.conn = 0
      BY <1>4, Zenon
    <2> QED BY <2>1, <2>2, <2>3, Zenon
  <1>9. loop' \in Calls \cup {NoCall} /\ (loop' # NoCall => KindOf[loop'] = "webhook")
    <2>1. loop' = NoCall \/ loop' = loop
      BY DEF Ends, Frees
    <2> QED BY <1>1, <2>1
  <1>10. CASE KindOf[c] = "stream"
    <2>1. PICK q : q = Append(queue[c], Sentinel)
      OBVIOUS
    <2>2. q \in Seq(OnTheWay)
      BY <1>1, <2>1, SentinelAdded, Zenon
    <2>3. queue' = [queue EXCEPT ![c] = q]
      BY <1>10, <2>1 DEF Ends, TellLoop
    <2>4. StreamTold(calls[c], emitted[c], queue[c], sent[c])
      BY <1>10 DEF GatewayInv, StreamsTold
    <2>5. Line(0, Verdict(calls[c].result), emitted[c], queue[c], sent[c])
      <3>1. calls[c].result = ""
        BY CallIs DEF CallRecords, GatewayInv
      <3> QED BY <2>4, <3>1 DEF StreamTold, EndsOf
    <2>6. Line(1, Verdict(r), emitted[c], q, sent[c])
      BY <1>1, <2>1, <2>5, LineEnds
    <2>7. EndsOf(call) = 1
      BY <1>2, <1>4, <1>10 DEF EndsOf
    <2>8. StreamTold(call, emitted[c], q, sent[c])
      BY <1>4, <2>6, <2>7 DEF StreamTold
    <2> QED BY <1>1, <1>4, <1>5, <1>7, <1>8, <1>9, <2>2, <2>3, <2>8 DEF Turns
  <1>11. CASE KindOf[c] # "stream"
    <2>1. queue' = queue
      BY <1>11 DEF Ends, TellLoop
    <2>2. queue' = [queue EXCEPT ![c] = queue[c]]
      BY <1>1, <2>1
    <2> QED BY <1>1, <1>4, <1>5, <1>7, <1>8, <1>9, <1>11, <2>2 DEF Turns
  <1> QED BY <1>10, <1>11

\* The startup and the loop stand as they are.
LEMMA HostStands ==
    ASSUME GatewayInv, UNCHANGED State,
           loop' \in Calls \cup {NoCall}, loop' # NoCall => KindOf[loop'] = "webhook"
    PROVE  HostMoves /\ opened' = opened
  BY DEF GatewayInv, GatewayShapes, State, HostMoves

LEMMA LoopIs ==
    ASSUME GatewayInv, NEW c \in Calls, Holds(c) \/ Frees(c) \/ UNCHANGED loop
    PROVE  loop' \in Calls \cup {NoCall} /\ (loop' # NoCall => KindOf[loop'] = "webhook")
  <1>1. loop \in Calls \cup {NoCall} /\ (loop # NoCall => KindOf[loop] = "webhook")
    BY DEF GatewayInv, GatewayShapes
  <1>2. loop' = loop \/ loop' = NoCall \/ (loop' = c /\ KindOf[c] = "webhook")
    BY DEF Holds, Frees
  <1> QED BY <1>1, <1>2

-----------------------------------------------------------------------------
(* The actions                                                               *)

\* A call that goes from one stage to another keeps the invariant.
LEMMA StageKeeps ==
    ASSUME GatewayInv, NEW c \in Calls, NEW stage \in CallStages \ {"over"}, Goes(c, stage),
           UNCHANGED Streams, calls[c].stage # "over",
           Past(calls[c]) => stage \notin {"new", "services", "building"}, HostMoves, opened' = opened
    PROVE  GatewayInv'
  BY StageTurns, TurnsKeeps

LEMMA ServicesKeeps == ASSUME GatewayInv, NEW c \in Calls, Services(c) PROVE GatewayInv'
  <1>1. loop' \in Calls \cup {NoCall} /\ (loop' # NoCall => KindOf[loop'] = "webhook")
    BY LoopIs DEF Services
  <1>2. HostMoves /\ opened' = opened
    BY <1>1, HostStands DEF Services
  <1>3. calls[c].stage # "over" /\ ~Past(calls[c]) /\ UNCHANGED Streams
    BY DEF Services, Past
  <1>4. PICK stage \in CallStages \ {"over"} : Goes(c, stage)
    BY DEF Services, CallStages
  <1> QED BY <1>2, <1>3, <1>4, StageKeeps

LEMMA ArriveKeeps == ASSUME GatewayInv, NEW c \in Calls, Arrive(c) PROVE GatewayInv'
  <1>1. loop' \in Calls \cup {NoCall} /\ (loop' # NoCall => KindOf[loop'] = "webhook")
    BY LoopIs DEF Arrive
  <1>2. HostMoves /\ opened' = opened
    BY <1>1, HostStands DEF Arrive
  <1>3. calls[c].stage # "over" /\ ~Past(calls[c]) /\ UNCHANGED Streams
    BY DEF Arrive, Past
  <1>4. PICK stage \in CallStages \ {"over"} : Goes(c, stage)
    BY DEF Arrive, CallStages
  <1> QED BY <1>2, <1>3, <1>4, StageKeeps

LEMMA ReadBodyKeeps == ASSUME GatewayInv, NEW c \in Calls, ReadBody(c) PROVE GatewayInv'
  <1>1. loop' \in Calls \cup {NoCall} /\ (loop' # NoCall => KindOf[loop'] = "webhook")
    BY LoopIs DEF ReadBody
  <1>2. HostMoves /\ opened' = opened
    BY <1>1, HostStands DEF ReadBody
  <1>3. calls[c].stage # "over" /\ UNCHANGED Streams /\ Goes(c, "reading")
    BY DEF ReadBody
  <1>4. "reading" \in CallStages \ {"over"} /\ "reading" \notin {"new", "services", "building"}
    BY DEF CallStages
  <1> QED BY <1>2, <1>3, <1>4, StageKeeps

LEMMA ProcessKeeps == ASSUME GatewayInv, NEW c \in Calls, Process(c) PROVE GatewayInv'
  <1>1. loop' \in Calls \cup {NoCall} /\ (loop' # NoCall => KindOf[loop'] = "webhook")
    BY LoopIs DEF Process
  <1>2. HostMoves /\ opened' = opened
    BY <1>1, HostStands DEF Process
  <1>3. calls[c].stage # "over" /\ UNCHANGED Streams /\ Goes(c, "processing")
    BY DEF Process
  <1>4. "processing" \in CallStages \ {"over"} /\ "processing" \notin {"new", "services", "building"}
    BY DEF CallStages
  <1> QED BY <1>2, <1>3, <1>4, StageKeeps

LEMMA SetIngressKeeps == ASSUME GatewayInv, NEW c \in Calls, SetIngress(c) PROVE GatewayInv'
  <1>1. loop' \in Calls \cup {NoCall} /\ (loop' # NoCall => KindOf[loop'] = "webhook")
    BY LoopIs DEF SetIngress
  <1>2. HostMoves /\ opened' = opened
    <2>1. calls[c].conn \in 0..opened /\ opened \in Nat /\ ops \in 0..opened
      BY CallIs DEF GatewayInv, GatewayShapes
    <2> QED BY <1>1, <2>1 DEF SetIngress, HostMoves
  <1>3. calls[c].stage # "over" /\ UNCHANGED Streams /\ Goes(c, "half")
    BY DEF SetIngress
  <1>4. "half" \in CallStages \ {"over"} /\ "half" \notin {"new", "services", "building"}
    BY DEF CallStages
  <1> QED BY <1>2, <1>3, <1>4, StageKeeps

\* A call that ends keeps the invariant, if the host stands.
LEMMA EndKeeps ==
    ASSUME GatewayInv, NEW c \in Calls, NEW result \in {"returned", "raised"}, NEW chore \in BOOLEAN,
           Ends(c, result, chore), calls[c].stage # "over", UNCHANGED State
    PROVE  GatewayInv'
  <1>1. opened' = opened /\ opened' \in Nat
    BY DEF State, GatewayInv, GatewayShapes
  <1>2. \A call : Past(call) => Opens(c, call)
    BY <1>1 DEF Opens
  <1>3. Turns(c) /\ loop' \in Calls \cup {NoCall} /\ (loop' # NoCall => KindOf[loop'] = "webhook")
    BY <1>1, <1>2, EndsTurns
  <1>4. HostMoves
    BY <1>3, HostStands
  <1> QED BY <1>3, <1>4, TurnsKeeps

LEMMA ResultIs == \A status : Result(status) \in {"returned", "raised"}
  BY DEF Result

LEMMA WebhookKeeps ==
    ASSUME GatewayInv, NEW c \in Calls, NEW reply \in WebhookReplies, Webhook(c, reply) PROVE GatewayInv'
  <1>1. reply.dispatches \in BOOLEAN
    <2>1. ASSUME NEW channel, NEW b, NEW outcome PROVE WebhookReply(channel, b, outcome).dispatches \in BOOLEAN
      BY DEF WebhookReply, Reply
    <2> QED BY <2>1 DEF WebhookReplies
  <1>2. Ends(c, Result(reply.status), reply.dispatches) /\ calls[c].stage # "over" /\ UNCHANGED State
    BY DEF Webhook
  <1> QED BY <1>1, <1>2, ResultIs, EndKeeps

LEMMA RestKeeps == ASSUME GatewayInv, NEW c \in Calls, NEW status, Rest(c, status) PROVE GatewayInv'
  <1>1. PICK answer : Ends(c, Result(answer), Result(answer) = "returned")
    BY DEF Rest
  <1>2. calls[c].stage # "over" /\ UNCHANGED State
    BY DEF Rest
  <1>3. (Result(answer) = "returned") \in BOOLEAN
    OBVIOUS
  <1> QED BY <1>1, <1>2, <1>3, ResultIs, EndKeeps

LEMMA RunEndsKeeps == ASSUME GatewayInv, NEW c \in Calls, RunReturns(c) \/ RunRaises(c) PROVE GatewayInv'
  <1>1. PICK result \in {"returned", "raised"} : Ends(c, result, FALSE)
    BY DEF RunReturns, RunRaises
  <1>2. calls[c].stage # "over" /\ UNCHANGED State
    BY DEF RunReturns, RunRaises
  <1>3. FALSE \in BOOLEAN
    OBVIOUS
  <1> QED BY <1>1, <1>2, <1>3, EndKeeps

LEMMA BuildKeeps == ASSUME GatewayInv, NEW c \in Calls, NEW ok \in BOOLEAN, Build(c, ok) PROVE GatewayInv'
  <1>1. /\ calls[c] \in CallRecords /\ opened \in Nat /\ calls \in [Calls -> CallRecords]
        /\ ingress \in 0..opened /\ ops \in 0..opened /\ loop \in Calls \cup {NoCall}
        /\ (loop # NoCall => KindOf[loop] = "webhook")
    BY CallIs DEF GatewayInv, GatewayShapes
  <1>2. /\ opened' = opened + 1 /\ opened' \in Nat /\ opened' >= opened
        /\ ingress' \in 0..opened' /\ ops' \in 0..opened' /\ started' = started
    BY <1>1 DEF Build
  <1>3. calls[c].stage # "over" /\ ~Past(calls[c])
    BY DEF Build, Past
  <1>4. \A call : Past(call) => Opens(c, call)
    BY <1>2, <1>3 DEF Opens
  <1>5. Turns(c) /\ loop' \in Calls \cup {NoCall} /\ (loop' # NoCall => KindOf[loop'] = "webhook")
    <2>1. CASE ok = TRUE
      <3>1. UNCHANGED loop /\ UNCHANGED Streams
        BY <2>1 DEF Build
      <3>2. PICK call : call = [calls[c] EXCEPT !.stage = "built", !.conn = opened']
        OBVIOUS
      <3>3. call \in CallRecords /\ call.stage = "built" /\ call.result = calls[c].result /\ call.conn = opened'
        BY <1>1, <1>2, <1>3, <3>2 DEF CallRecords, CallShapes, CallStages
      <3>4. calls' = [calls EXCEPT ![c] = call]
        BY <1>1, <2>1, <3>2 DEF Build
      <3>5. Past(call)
        BY <3>3 DEF Past
      <3>6. call.conn <= opened' /\ call.result = calls[c].result /\ call \in CallRecords
        BY <1>2, <3>3
      <3>7. Turns(c)
        BY <1>3, <1>4, <3>1, <3>4, <3>5, <3>6, TurnsQuietly
      <3> QED BY <1>1, <3>1, <3>7
    <2>2. CASE ok = FALSE
      <3>1. Ends(c, "raised", FALSE)
        BY <2>2 DEF Build
      <3>2. "raised" \in {"returned", "raised"} /\ FALSE \in BOOLEAN
        OBVIOUS
      <3> QED BY <1>2, <1>3, <1>4, <3>1, <3>2, EndsTurns
    <2> QED BY <2>1, <2>2
  <1>6. HostMoves
    BY <1>2, <1>5 DEF HostMoves
  <1> QED BY <1>5, <1>6, TurnsKeeps

LEMMA SetOpsKeeps == ASSUME GatewayInv, NEW c \in Calls, NEW ok \in BOOLEAN, SetOps(c, ok) PROVE GatewayInv'
  <1>1. /\ calls[c] \in CallRecords /\ opened \in Nat /\ calls \in [Calls -> CallRecords]
        /\ ingress \in 0..opened /\ ops \in 0..opened /\ calls[c].conn \in 0..opened
        /\ loop \in Calls \cup {NoCall} /\ (loop # NoCall => KindOf[loop] = "webhook")
    BY CallIs DEF GatewayInv, GatewayShapes
  <1>2. started' = started /\ opened' = opened /\ ingress' = ingress
    BY DEF SetOps
  <1>3. calls[c].stage # "over"
    BY DEF SetOps
  <1>4. \A call : Opens(c, call)
    BY <1>2 DEF Opens
  <1>5. CASE ok = TRUE
    <2>1. UNCHANGED loop /\ UNCHANGED Streams /\ ops' = calls[c].conn
      BY <1>5 DEF SetOps
    <2>2. PICK call : call = [calls[c] EXCEPT !.stage = "served", !.conn = 0]
      OBVIOUS
    <2>3. call \in CallRecords /\ call.stage = "served" /\ call.result = calls[c].result /\ call.conn = 0
      BY <1>1, <1>3, <2>2 DEF CallRecords, CallShapes, CallStages
    <2>4. calls' = [calls EXCEPT ![c] = call]
      BY <1>1, <1>5, <2>2 DEF SetOps
    <2>5. Past(call)
      BY <2>3 DEF Past
    <2>6. call.conn <= opened' /\ call.result = calls[c].result /\ call \in CallRecords
      BY <1>1, <1>2, <2>3
    <2>7. Turns(c)
      BY <1>4, <2>1, <2>4, <2>5, <2>6, TurnsQuietly
    <2>8. HostMoves
      BY <1>1, <1>2, <2>1 DEF HostMoves
    <2> QED BY <2>7, <2>8, TurnsKeeps
  <1>6. CASE ok = FALSE
    <2>1. Ends(c, "raised", FALSE) /\ ops' = ops
      BY <1>6 DEF SetOps
    <2>2. UNCHANGED State
      BY <1>2, <2>1 DEF State
    <2>3. "raised" \in {"returned", "raised"} /\ FALSE \in BOOLEAN
      OBVIOUS
    <2> QED BY <1>3, <2>1, <2>2, <2>3, EndKeeps
  <1> QED BY <1>5, <1>6

\* A call that changes in what no stream is told of keeps the invariant.
LEMMA QuietKeeps ==
    ASSUME GatewayInv, NEW c \in Calls, NEW call \in CallRecords, calls' = [calls EXCEPT ![c] = call],
           UNCHANGED <<State, loop, Streams>>, call.result = calls[c].result, call.conn = calls[c].conn,
           Past(calls[c]) => Past(call)
    PROVE  GatewayInv'
  <1>1. UNCHANGED State /\ UNCHANGED Streams /\ loop' = loop
    BY DEF State, Streams
  <1>2. loop' \in Calls \cup {NoCall} /\ (loop' # NoCall => KindOf[loop'] = "webhook")
    BY <1>1, LoopIs
  <1>3. HostMoves /\ opened' = opened
    BY <1>1, <1>2, HostStands
  <1>4. call.conn <= opened'
    BY <1>3, CallIs DEF GatewayInv
  <1>5. Opens(c, call)
    BY <1>3 DEF Opens
  <1>6. Turns(c)
    BY <1>1, <1>4, <1>5, TurnsQuietly
  <1> QED BY <1>3, <1>6, TurnsKeeps

LEMMA DispatchKeeps == ASSUME GatewayInv, NEW c \in Calls, Dispatch(c) PROVE GatewayInv'
  <1>1. calls[c] \in CallRecords /\ calls \in [Calls -> CallRecords]
    BY CallIs DEF GatewayInv, GatewayShapes
  <1>2. PICK call : call = [calls[c] EXCEPT !.chore = FALSE]
    OBVIOUS
  <1>3. /\ call \in CallRecords /\ call.stage = calls[c].stage
        /\ call.result = calls[c].result /\ call.conn = calls[c].conn
    BY <1>1, <1>2 DEF CallRecords, CallShapes
  <1>4. calls' = [calls EXCEPT ![c] = call]
    BY <1>1, <1>2 DEF Dispatch
  <1>5. Past(calls[c]) => Past(call)
    BY <1>3 DEF Past
  <1>6. UNCHANGED <<State, loop, Streams>>
    BY DEF Dispatch
  <1>7. call \in CallRecords /\ call.result = calls[c].result /\ call.conn = calls[c].conn
    BY <1>3
  <1> QED BY <1>4, <1>5, <1>6, <1>7, QuietKeeps

LEMMA PathsReport == Paths \subseteq Seq(Events)
  BY DEF Paths, Events

LEMMA BeginRunKeeps == ASSUME GatewayInv, NEW c \in Calls, NEW path \in Paths, BeginRun(c, path) PROVE GatewayInv'
  <1>1. calls[c] \in CallRecords /\ calls \in [Calls -> CallRecords] /\ path \in Seq(Events)
    BY CallIs, PathsReport DEF GatewayInv, GatewayShapes
  <1>2. PICK call : call = [calls[c] EXCEPT !.stage = "running", !.path = path]
    OBVIOUS
  <1>3. calls[c].stage = "served"
    BY DEF BeginRun
  <1>4. /\ call \in CallRecords /\ call.stage = "running"
        /\ call.result = calls[c].result /\ call.conn = calls[c].conn
    BY <1>1, <1>2, <1>3 DEF CallRecords, CallShapes, CallStages
  <1>5. calls' = [calls EXCEPT ![c] = call]
    BY <1>1, <1>2 DEF BeginRun
  <1>6. Past(call)
    BY <1>4 DEF Past
  <1>7. UNCHANGED <<State, loop, Streams>>
    BY DEF BeginRun
  <1>8. call \in CallRecords /\ call.result = calls[c].result /\ call.conn = calls[c].conn
    BY <1>4
  <1> QED BY <1>5, <1>6, <1>7, <1>8, QuietKeeps

\* The worker reports: one event more behind those on their way.
LEMMA OnStageKeeps == ASSUME GatewayInv, NEW c \in Calls, OnStage(c) PROVE GatewayInv'
  <1>1. /\ calls[c] \in CallRecords /\ calls \in [Calls -> CallRecords] /\ calls[c].conn <= opened
        /\ calls[c].path \in Seq(Events)
        /\ emitted[c] \in Seq(Events) /\ queue[c] \in Seq(OnTheWay) /\ sent[c] \in Seq(Shown)
        /\ queue \in [Calls -> Seq(OnTheWay)] /\ emitted \in [Calls -> Seq(Events)] /\ sent \in [Calls -> Seq(Shown)]
    BY CallIs DEF GatewayInv, GatewayShapes
  <1>2. PICK path : path = calls[c].path
    OBVIOUS
  <1>3. path \in Seq(Events) /\ path # <<>>
    BY <1>1, <1>2 DEF OnStage
  <1>4. Head(path) \in Events /\ Tail(path) \in Seq(Events)
    BY <1>3
  <1>5. PICK x, rest : x = Head(path) /\ rest = Tail(path)
    OBVIOUS
  <1>6. x \in Events /\ rest \in Seq(Events)
    BY <1>4, <1>5
  <1>7. PICK call : call = [calls[c] EXCEPT !.path = rest]
    OBVIOUS
  <1>8. /\ call \in CallRecords /\ call.stage = calls[c].stage
        /\ call.result = calls[c].result /\ call.conn = calls[c].conn
    BY <1>1, <1>6, <1>7 DEF CallRecords, CallShapes
  <1>9. PICK e, q : e = Append(emitted[c], x) /\ q = Append(queue[c], x)
    OBVIOUS
  <1>10. e \in Seq(Events) /\ q \in Seq(OnTheWay)
    BY <1>1, <1>6, <1>9 DEF OnTheWay
  <1>11. /\ calls' = [calls EXCEPT ![c] = call]
         /\ emitted' = [emitted EXCEPT ![c] = e] /\ queue' = [queue EXCEPT ![c] = q] /\ sent' = [sent EXCEPT ![c] = sent[c]]
    BY <1>1, <1>2, <1>5, <1>7, <1>9 DEF OnStage
  <1>12. calls[c].result = ""
    <2>1. calls[c].stage # "over"
      BY DEF OnStage
    <2> QED BY <1>1, <2>1 DEF CallRecords
  <1>13. KindOf[c] = "stream" => StreamTold(call, e, q, sent[c])
    <2>1. SUFFICES ASSUME KindOf[c] = "stream" PROVE StreamTold(call, e, q, sent[c])
      OBVIOUS
    <2>2. StreamTold(calls[c], emitted[c], queue[c], sent[c])
      BY <2>1 DEF GatewayInv, StreamsTold
    <2>3. EndsOf(calls[c]) = 0 /\ EndsOf(call) = 0 /\ Verdict(call.result) = Verdict(calls[c].result)
      BY <1>8, <1>12 DEF EndsOf
    <2>4. PICK v : v = Verdict(calls[c].result)
      OBVIOUS
    <2>5. Line(0, v, emitted[c], queue[c], sent[c])
      BY <2>2, <2>3, <2>4, Zenon DEF StreamTold
    <2>6. Line(0, v, e, q, sent[c])
      BY <1>1, <1>6, <1>9, <2>5, LineGrows
    <2> QED BY <2>3, <2>4, <2>6, Zenon DEF StreamTold
  <1>14. UNCHANGED State /\ loop' = loop
    BY DEF OnStage, State
  <1>15. loop' \in Calls \cup {NoCall} /\ (loop' # NoCall => KindOf[loop'] = "webhook")
    BY <1>14, LoopIs
  <1>16. HostMoves /\ opened' = opened
    BY <1>14, <1>15, HostStands
  <1>17. (Past(calls[c]) => Past(call)) /\ Opens(c, call) /\ call.conn <= opened'
    <2>1. (Past(calls[c]) => Past(call)) /\ Opens(c, call)
      BY <1>8, <1>16 DEF Past, Opens
    <2> QED BY <1>1, <1>8, <1>16, <2>1
  <1>18. Turns(c)
    <2>1. call \in CallRecords
      BY <1>8
    <2> QED BY <1>1, <1>10, <1>11, <1>13, <1>17, <2>1, Zenon DEF Turns
  <1> QED BY <1>16, <1>18, TurnsKeeps

\* The loop sends the next of what is on its way.
LEMMA GenerateKeeps == ASSUME GatewayInv, NEW c \in Calls, Generate(c) PROVE GatewayInv'
  <1>1. /\ calls[c] \in CallRecords /\ calls \in [Calls -> CallRecords] /\ calls[c].conn <= opened
        /\ emitted[c] \in Seq(Events) /\ queue[c] \in Seq(OnTheWay) /\ sent[c] \in Seq(Shown)
        /\ queue \in [Calls -> Seq(OnTheWay)] /\ emitted \in [Calls -> Seq(Events)] /\ sent \in [Calls -> Seq(Shown)]
    BY CallIs DEF GatewayInv, GatewayShapes
  <1>2. queue[c] # <<>>
    BY DEF Generate
  <1>3. PICK v : v = Verdict(calls[c].result)
    OBVIOUS
  <1>4. v \in Verdicts
    BY <1>3 DEF Verdict, Verdicts
  <1>5. PICK x : x = IF Head(queue[c]) # Sentinel THEN Head(queue[c]) ELSE v
    OBVIOUS
  <1>6. PICK q, s : q = Tail(queue[c]) /\ s = Append(sent[c], x)
    OBVIOUS
  <1>7. /\ calls' = [calls EXCEPT ![c] = calls[c]] /\ emitted' = [emitted EXCEPT ![c] = emitted[c]]
        /\ queue' = [queue EXCEPT ![c] = q] /\ sent' = [sent EXCEPT ![c] = s]
    BY <1>1, <1>3, <1>5, <1>6 DEF Generate, Verdict
  <1>8. q \in Seq(OnTheWay)
    BY <1>1, <1>2, <1>6
  <1>9. x \in Shown
    <2>1. Head(queue[c]) \in OnTheWay
      BY <1>1, <1>2
    <2> QED BY <1>4, <1>5, <2>1 DEF OnTheWay, Shown
  <1>10. s \in Seq(Shown)
    BY <1>1, <1>6, <1>9
  <1>11. KindOf[c] = "stream" => StreamTold(calls[c], emitted[c], q, s)
    <2>1. SUFFICES ASSUME KindOf[c] = "stream" PROVE StreamTold(calls[c], emitted[c], q, s)
      OBVIOUS
    <2>2. StreamTold(calls[c], emitted[c], queue[c], sent[c])
      BY <2>1 DEF GatewayInv, StreamsTold
    <2>3. PICK n \in Nat : n = EndsOf(calls[c])
      BY DEF EndsOf
    <2>4. Line(n, v, emitted[c], queue[c], sent[c])
      BY <1>3, <2>2, <2>3, Zenon DEF StreamTold
    <2>5. Line(n, v, emitted[c], q, s)
      BY <1>1, <1>2, <1>4, <1>5, <1>6, <2>4, LineMoves
    <2> QED BY <1>3, <2>3, <2>5, Zenon DEF StreamTold
  <1>12. UNCHANGED State /\ loop' = loop
    BY DEF Generate, State
  <1>13. loop' \in Calls \cup {NoCall} /\ (loop' # NoCall => KindOf[loop'] = "webhook")
    BY <1>12, LoopIs
  <1>14. HostMoves /\ opened' = opened
    BY <1>12, <1>13, HostStands
  <1>15. Opens(c, calls[c]) /\ calls[c].conn <= opened'
    BY <1>1, <1>14 DEF Opens
  <1>16. Turns(c)
    BY <1>1, <1>7, <1>8, <1>10, <1>11, <1>15, Zenon DEF Turns
  <1> QED BY <1>14, <1>16, TurnsKeeps

\* The startup event opens the first connection.
LEMMA WarmUpKeeps == ASSUME GatewayInv, NEW built, WarmUp(built) PROVE GatewayInv'
  <1>1. GatewayShapes /\ StreamsTold /\ (IsFiniteSet(Calls) => ConnectionsCounted)
    BY DEF GatewayInv
  <1>2. /\ started = FALSE /\ started' = TRUE /\ opened' = opened + 1 /\ opened \in Nat
        /\ loop' = loop /\ calls' = calls /\ queue' = queue /\ emitted' = emitted /\ sent' = sent
    BY <1>1 DEF WarmUp, Streams, GatewayShapes
  <1>3. ingress' \in 0..opened' /\ ops' \in 0..opened'
    BY <1>2 DEF WarmUp
  <1>4. \A c \in Calls : calls'[c].conn <= opened'
    <2>1. ASSUME NEW c \in Calls PROVE calls'[c].conn <= opened'
      <3>1. calls[c].conn \in Nat /\ calls[c].conn <= opened
        BY <1>1, CallIs
      <3> QED BY <1>2, <3>1
    <2> QED BY <2>1
  <1>5. GatewayShapes'
    <2>1. started' \in BOOLEAN /\ opened' \in Nat
      BY <1>2
    <2> QED BY <1>1, <1>2, <1>3, <1>4, <2>1 DEF GatewayShapes
  <1>6. StreamsTold'
    BY <1>1, <1>2 DEF StreamsTold
  <1>7. ASSUME IsFiniteSet(Calls) PROVE ConnectionsCounted'
    <2>1. PICK n : n = Cardinality(Builders) /\ n = Cardinality(Builders)'
      BY <1>2 DEF Builders
    <2>2. n \in Nat
      <3>1. Builders \in SUBSET Calls
        BY DEF Builders
      <3> QED BY <1>7, <2>1, <3>1, FS_Subset, FS_CardinalityType
    <2>3. opened <= 0 + n
      BY <1>1, <1>2, <1>7, <2>1 DEF ConnectionsCounted
    <2>4. opened' <= 1 + n
      BY <1>2, <2>2, <2>3
    <2> QED BY <1>2, <2>1, <2>4 DEF ConnectionsCounted
  <1> QED BY <1>5, <1>6, <1>7 DEF GatewayInv

LEMMA GatewayStarts == GatewayInit => GatewayInv
  <1> SUFFICES ASSUME GatewayInit PROVE GatewayInv
    OBVIOUS
  <1>1. /\ started = FALSE /\ opened = 0 /\ ingress = 0 /\ ops = 0 /\ loop = NoCall
        /\ calls = [c \in Calls |-> NewCall] /\ queue = [c \in Calls |-> <<>>]
        /\ emitted = [c \in Calls |-> <<>>] /\ sent = [c \in Calls |-> <<>>]
    BY DEF GatewayInit
  <1>2. NewCall \in CallRecords /\ NewCall.conn = 0 /\ NewCall.result = ""
    <2>1. NewCall \in CallShapes
      BY NothingReported DEF NewCall, CallShapes, CallStages
    <2> QED BY <2>1 DEF CallRecords, NewCall
  <1>3. GatewayShapes
    <2>1. ASSUME NEW c \in Calls PROVE calls[c].conn <= opened
      <3>1. calls[c].conn = 0
        BY <1>1, <1>2
      <3> QED BY <1>1, <3>1
    <2>2. calls \in [Calls -> CallRecords]
      BY <1>1, <1>2
    <2>3. <<>> \in Seq(OnTheWay) /\ <<>> \in Seq(Events) /\ <<>> \in Seq(Shown)
      OBVIOUS
    <2>4. queue \in [Calls -> Seq(OnTheWay)] /\ emitted \in [Calls -> Seq(Events)] /\ sent \in [Calls -> Seq(Shown)]
      BY <1>1, <2>3
    <2>5. /\ started \in BOOLEAN /\ opened \in Nat /\ ingress \in 0..opened /\ ops \in 0..opened
      <3>1. opened \in Nat /\ ingress \in 0..opened /\ ops \in 0..opened
        BY <1>1
      <3>2. started \in BOOLEAN
        BY <1>1, Zenon
      <3> QED BY <3>1, <3>2
    <2>6. loop \in Calls \cup {NoCall} /\ (loop # NoCall => KindOf[loop] = "webhook")
      BY <1>1
    <2> QED BY <2>1, <2>2, <2>4, <2>5, <2>6 DEF GatewayShapes
  <1>4. StreamsTold
    <2>1. ASSUME NEW c \in Calls PROVE StreamTold(calls[c], emitted[c], queue[c], sent[c])
      <3>1. calls[c].result = "" /\ emitted[c] = <<>> /\ queue[c] = <<>> /\ sent[c] = <<>>
        BY <1>1, <1>2
      <3>2. EndsOf(calls[c]) = 0
        BY <3>1 DEF EndsOf
      <3> QED BY <3>1, <3>2, LineBegins DEF StreamTold
    <2> QED BY <2>1 DEF StreamsTold
  <1>5. ASSUME IsFiniteSet(Calls) PROVE ConnectionsCounted
    <2>1. Builders \in SUBSET Calls
      BY DEF Builders
    <2>2. Cardinality(Builders) \in Nat
      BY <1>5, <2>1, FS_Subset, FS_CardinalityType
    <2> QED BY <1>1, <2>2 DEF ConnectionsCounted
  <1> QED BY <1>3, <1>4, <1>5 DEF GatewayInv

LEMMA GatewayInductive == GatewayInv /\ [GatewayNext]_gatewayVars => GatewayInv'
  <1>1. ASSUME GatewayInv, GatewayNext PROVE GatewayInv'
    <2>1. ASSUME NEW built, WarmUp(built) PROVE GatewayInv'
      BY <1>1, <2>1, WarmUpKeeps
    <2>2. ASSUME NEW c \in Calls, BuildStep(c) PROVE GatewayInv'
      BY <1>1, <2>2, ServicesKeeps, SetIngressKeeps, BuildKeeps, SetOpsKeeps DEF BuildStep
    <2>3. ASSUME NEW c \in Calls, WebhookStep(c) PROVE GatewayInv'
      BY <1>1, <2>3, ReadBodyKeeps, ProcessKeeps, WebhookKeeps DEF WebhookStep
    <2>4. ASSUME NEW c \in Calls, RestStep(c) PROVE GatewayInv'
      BY <1>1, <2>4, RestKeeps, DispatchKeeps DEF RestStep
    <2>5. ASSUME NEW c \in Calls, WorkerStep(c) PROVE GatewayInv'
      BY <1>1, <2>5, BeginRunKeeps, OnStageKeeps, RunEndsKeeps DEF WorkerStep
    <2>6. ASSUME NEW c \in Calls, Arrive(c) \/ Generate(c) PROVE GatewayInv'
      BY <1>1, <2>6, ArriveKeeps, GenerateKeeps
    <2> QED BY <1>1, <2>1, <2>2, <2>3, <2>4, <2>5, <2>6, Zenon DEF GatewayNext, CallStep
  <1>2. ASSUME GatewayInv, UNCHANGED gatewayVars PROVE GatewayInv'
    BY <1>2 DEF GatewayInv, GatewayShapes, StreamsTold, ConnectionsCounted, Builders, gatewayVars
  <1> QED BY <1>1, <1>2

LEMMA GatewayAlways == GatewaySpec => []GatewayInv
  BY GatewayStarts, GatewayInductive, PTL DEF GatewaySpec

LEMMA GatewayShape ==
    ASSUME IsFiniteSet(Calls), GatewayInv
    PROVE  GatewayTypeOK
  <1>1. GatewayShapes /\ ConnectionsCounted
    BY DEF GatewayInv
  <1>2. Cardinality(Builders) <= Cardinality(Calls) /\ Cardinality(Builders) \in Nat /\ Cardinality(Calls) \in Nat
    <2>1. Builders \in SUBSET Calls
      BY DEF Builders
    <2> QED BY <2>1, FS_Subset, FS_CardinalityType
  <1>3. PICK base \in 0..1 : base = IF started THEN 1 ELSE 0
    OBVIOUS
  <1>4. opened <= base + Cardinality(Builders) /\ opened \in Nat
    BY <1>1, <1>3 DEF ConnectionsCounted, GatewayShapes
  <1>5. opened \in 0..Cardinality(Calls) + 1
    BY <1>2, <1>3, <1>4
  <1> QED BY <1>1, <1>5 DEF GatewayShapes, GatewayTypeOK

\* The process opens one connection for the startup event and one for each request
\* that found no services, and its loop is only ever busy with a webhook.
THEOREM GatewayTypeCorrect ==
    ASSUME IsFiniteSet(Calls)
    PROVE  GatewaySpec => []GatewayTypeOK
  BY GatewayShape, GatewayAlways, PTL

\* What the client of a chat stream was sent is, event by event, what the pipeline
\* reported, with nothing lost, repeated or swapped between the worker's thread and
\* the loop; the verdict comes behind all of it, once, only when the worker has
\* ended, and says how.
SentInOrder ==
    \A c \in {k \in Calls : KindOf[k] = "stream"} :
        /\ Len(sent[c]) <= Len(emitted[c]) + (IF calls[c].result = "" THEN 0 ELSE 1)
        /\ \A i \in 1..Len(sent[c]) :
              sent[c][i] = IF i <= Len(emitted[c]) THEN emitted[c][i] ELSE Verdict(calls[c].result)

\* The order in which a stream is told, whatever the threads do.
THEOREM SentInOrderHolds == GatewaySpec => []SentInOrder
  <1>1. GatewayInv => SentInOrder
    <2> SUFFICES ASSUME GatewayInv, NEW c \in Calls, KindOf[c] = "stream"
        PROVE /\ Len(sent[c]) <= Len(emitted[c]) + (IF calls[c].result = "" THEN 0 ELSE 1)
              /\ \A i \in 1..Len(sent[c]) :
                    sent[c][i] = IF i <= Len(emitted[c]) THEN emitted[c][i] ELSE Verdict(calls[c].result)
      BY DEF SentInOrder
    <2>1. Line(EndsOf(calls[c]), Verdict(calls[c].result), emitted[c], queue[c], sent[c])
      BY DEF GatewayInv, StreamsTold, StreamTold
    <2>2. Len(sent[c]) \in Nat /\ Len(queue[c]) \in Nat /\ Len(emitted[c]) \in Nat
      BY CallIs DEF GatewayInv
    <2>3. PICK n \in Nat : n = EndsOf(calls[c])
      BY DEF EndsOf
    <2>4. Len(sent[c]) + Len(queue[c]) = Len(emitted[c]) + n
      BY <2>1, <2>3 DEF Line
    <2>5. Len(sent[c]) <= Len(emitted[c]) + n
      <3>1. PICK a \in Nat : a = Len(sent[c])
        BY <2>2
      <3>2. PICK b \in Nat : b = Len(queue[c])
        BY <2>2
      <3>3. PICK m \in Nat : m = Len(emitted[c])
        BY <2>2
      <3>4. a + b = m + n
        BY <2>4, <3>1, <3>2, <3>3, Zenon
      <3>5. a <= m + n
        BY <3>4
      <3> QED BY <3>1, <3>3, <3>5, Zenon
    <2>6. n = IF calls[c].result = "" THEN 0 ELSE 1
      BY <2>3 DEF EndsOf
    <2> QED BY <2>1, <2>5, <2>6, Zenon DEF Line
  <1> QED BY <1>1, GatewayAlways, PTL
=============================================================================
