----------------------------- MODULE TargetsProofs -----------------------------
(***************************************************************************)
(* Theorems about where notices go (Targets over Accounts), for any seed,  *)
(* users, staff and registrations.                                         *)
(*                                                                         *)
(* The seed is loaded row by row, and a row is looked up as the first that *)
(* passes: the lemmas about both rest on induction over an initial segment *)
(* of the naturals, stated for a set (SegmentInduction).                   *)
(***************************************************************************)
EXTENDS Targets, FiniteSetTheorems, WellFoundedInduction, TLAPS

-----------------------------------------------------------------------------
(* Least elements                                                            *)

\* A set of numbers with a bound has a least one.
LEMMA LeastOf ==
    ASSUME NEW n \in Nat, NEW S \in SUBSET (1..n), S # {}
    PROVE  Min(S) \in S /\ \A y \in S : Min(S) <= y
  <1> DEFINE Below(x) == {y \in S : y < x}
             All == {Below(x) : x \in S}
  <1>1. All \subseteq FiniteSubsetsOf(S)
    <2>1. ASSUME NEW x \in S PROVE Below(x) \subseteq S /\ IsFiniteSet(Below(x))
      BY FS_BoundedSetOfNaturals, FS_Subset
    <2> QED BY <2>1 DEF FiniteSubsetsOf
  <1>2. PICK least \in All : \A other \in All : <<other, least>> \notin StrictSubsetOrdering(S)
    <2>1. All # {} /\ IsWellFoundedOn(StrictSubsetOrdering(S), FiniteSubsetsOf(S))
      BY FS_BoundedSetOfNaturals, FS_StrictSubsetOrderingWellFounded
    <2> HIDE DEF All
    <2> QED BY <1>1, <2>1, WFMin
  <1>3. PICK x \in S : least = Below(x)
    OBVIOUS
  <1>4. ASSUME NEW y \in S, y < x PROVE FALSE
    <2>1. \A z \in S : (z < y => z < x) /\ ~(y < y)
      BY <1>4
    <2>2. Below(y) \in All /\ Below(y) \subseteq Below(x) /\ y \in Below(x) /\ y \notin Below(y)
      BY <1>4, <2>1
    <2>3. <<Below(y), Below(x)>> \in StrictSubsetOrdering(S)
      BY <2>2 DEF StrictSubsetOrdering
    <2> QED BY <1>2, <1>3, <2>2, <2>3
  <1>5. \A y \in S : x <= y
    BY <1>4
  <1> QED BY <1>5 DEF Min

\* What holds of 0 and passes from each number to the next holds up to n.
LEMMA SegmentInduction ==
    ASSUME NEW n \in Nat, NEW S, 0 \in S, \A k \in 0..n-1 : k \in S => k + 1 \in S
    PROVE  0..n \subseteq S
  <1> DEFINE Missing == {k \in 1..n : k \notin S}
  <1>1. ASSUME Missing # {} PROVE FALSE
    <2>1. PICK m : m = Min(Missing)
      OBVIOUS
    <2>2. Missing \in SUBSET (1..n)
      OBVIOUS
    <2>3. m \in Missing /\ \A y \in Missing : m <= y
      <3> HIDE DEF Missing
      <3> QED BY <1>1, <2>1, <2>2, LeastOf
    <2>4. m - 1 \in 0..n-1 /\ m \in 1..n /\ m \notin S
      BY <2>3
    <2>5. m - 1 \in S
      BY <2>3, <2>4
    <2> QED BY <2>4, <2>5
  <1> QED BY <1>1

\* SelectInSeq: none, or the first of those that pass.
LeastIn(S) == IF S # {} THEN Min(S) ELSE 0

LEMMA FirstIs ==
    ASSUME NEW n \in Nat, NEW S \in SUBSET (1..n)
    PROVE  \/ LeastIn(S) = 0 /\ S = {}
           \/ LeastIn(S) # 0 /\ LeastIn(S) \in S /\ \A y \in S : LeastIn(S) <= y
  <1>1. CASE S = {}
    BY <1>1 DEF LeastIn
  <1>2. CASE S # {}
    <2>1. LeastIn(S) \in S /\ \A y \in S : LeastIn(S) <= y
      BY <1>2, LeastOf DEF LeastIn
    <2> QED BY <2>1
  <1> QED BY <1>1, <1>2

-----------------------------------------------------------------------------
(* The table of conversations                                                *)

\* The rows of a key, and the row find() returns.
Keyed(table, channel, id) == {i \in 1..Len(table) : table[i].channel = channel /\ table[i].id = id}
At(table, channel, id)    == LeastIn(Keyed(table, channel, id))

\* One row for a key; the seed's rows come first, and are as the seed has them.
Keys(table)      == \A i, j \in 1..Len(table) :
                        table[i].channel = table[j].channel /\ table[i].id = table[j].id => i = j
SeedFirst(table) == Len(Seed) <= Len(table) /\ \A j \in 1..Len(Seed) : table[j] = Seed[j]
Sound(table)     == table \in Seq(Row) /\ Keys(table) /\ SeedFirst(table)

\* Nothing is lost or moved.
Extends(old, new) == Len(old) <= Len(new) /\ \A i \in 1..Len(old) : new[i] = old[i]

LEMMA SeedIsSeq == /\ Seed \in Seq(Row) /\ Len(Seed) \in Nat /\ DOMAIN Seed = 1..Len(Seed)
                   /\ \A j \in 1..Len(Seed) : Seed[j] \in Row
  BY SeedAssumption

LEMMA FindIs ==
    ASSUME NEW channel, NEW id
    PROVE  Find(channel, id) = At(conversations, channel, id)
  BY DEF Find, FirstRow, SelectInSeq, At, Keyed, LeastIn

LEMMA FindNextIs ==
    ASSUME NEW channel, NEW id
    PROVE  Find(channel, id)' = At(conversations', channel, id)
  BY DEF Find, FirstRow, SelectInSeq, At, Keyed, LeastIn

LEMMA AtIs ==
    ASSUME NEW table \in Seq(Row), NEW channel, NEW id
    PROVE  \/ At(table, channel, id) = 0 /\ \A i \in 1..Len(table) : ~(table[i].channel = channel /\ table[i].id = id)
           \/ /\ At(table, channel, id) # 0
              /\ At(table, channel, id) \in 1..Len(table)
              /\ table[At(table, channel, id)].channel = channel
              /\ table[At(table, channel, id)].id = id
  <1>1. Len(table) \in Nat /\ Keyed(table, channel, id) \in SUBSET (1..Len(table))
    BY DEF Keyed
  <1>2. PICK S : S = Keyed(table, channel, id)
    OBVIOUS
  <1>3. \/ LeastIn(S) = 0 /\ S = {}
        \/ LeastIn(S) # 0 /\ LeastIn(S) \in S
    BY <1>1, <1>2, FirstIs
  <1> QED BY <1>2, <1>3 DEF At, Keyed

\* The row of a key that is there.
LEMMA AtRow ==
    ASSUME NEW table \in Seq(Row), Keys(table), NEW k \in 1..Len(table)
    PROVE  At(table, table[k].channel, table[k].id) = k
  <1>1. PICK i : i = At(table, table[k].channel, table[k].id)
    OBVIOUS
  <1>2. i \in 1..Len(table) /\ table[i].channel = table[k].channel /\ table[i].id = table[k].id
    BY <1>1, AtIs
  <1> QED BY <1>1, <1>2 DEF Keys

LEMMA LoadRowIs ==
    ASSUME NEW table, NEW raw
    PROVE  LoadRow(table, raw) = IF At(table, raw.channel, raw.id) # 0
                                 THEN [table EXCEPT ![At(table, raw.channel, raw.id)] = raw]
                                 ELSE Append(table, raw)
  BY DEF LoadRow, SelectInSeq, At, Keyed, LeastIn

\* Loading a row of the seed again changes nothing.
LEMMA LoadRowAgain ==
    ASSUME NEW table, Sound(table), NEW j \in 1..Len(Seed)
    PROVE  LoadRow(table, Seed[j]) = table
  <1>1. table \in Seq(Row) /\ Keys(table) /\ j \in 1..Len(table) /\ table[j] = Seed[j]
    BY SeedIsSeq DEF Sound, SeedFirst
  <1>2. At(table, Seed[j].channel, Seed[j].id) = j /\ j # 0
    BY <1>1, AtRow
  <1>3. LoadRow(table, Seed[j]) = [table EXCEPT ![j] = Seed[j]]
    BY <1>2, LoadRowIs
  <1>4. [table EXCEPT ![j] = table[j]] = table
    BY <1>1
  <1> QED BY <1>1, <1>3, <1>4

\* Loading the next row of the seed into those before it adds it.
LEMMA LoadRowFresh ==
    ASSUME NEW k \in 1..Len(Seed)
    PROVE  LoadRow(SubSeq(Seed, 1, k - 1), Seed[k]) = SubSeq(Seed, 1, k)
  <1>1. PICK t : t = SubSeq(Seed, 1, k - 1)
    OBVIOUS
  <1>2. t \in Seq(Row) /\ Len(t) = k - 1 /\ \A i \in 1..(k - 1) : t[i] = Seed[i]
    BY <1>1, SeedIsSeq
  <1>3. At(t, Seed[k].channel, Seed[k].id) = 0
    <2>1. SUFFICES ASSUME NEW i \in 1..Len(t), t[i].channel = Seed[k].channel, t[i].id = Seed[k].id
                   PROVE  FALSE
      BY <1>2, AtIs
    <2>2. i \in DOMAIN Seed /\ k \in DOMAIN Seed /\ i # k /\ t[i] = Seed[i]
      BY <1>2, SeedIsSeq
    <2> QED BY <2>1, <2>2, SeedAssumption
  <1>4. LoadRow(t, Seed[k]) = Append(t, Seed[k])
    BY <1>3, LoadRowIs
  <1>5. Append(t, Seed[k]) = SubSeq(Seed, 1, k)
    BY <1>1, <1>2, SeedIsSeq
  <1> QED BY <1>1, <1>4, <1>5

\* _load_seed, as a sequence of rows it fills the table with.
LEMMA LoadedIs ==
    ASSUME NEW table, NEW g, g = [k \in 0..Len(Seed) |-> IF k = 0 THEN table ELSE LoadRow(g[k - 1], Seed[k])]
    PROVE  Loaded(table) = g[Len(Seed)]
  <1> DEFINE f == CHOOSE f : f = [k \in 0..Len(Seed) |-> IF k = 0 THEN table ELSE LoadRow(f[k - 1], Seed[k])]
  <1>1. f = [k \in 0..Len(Seed) |-> IF k = 0 THEN table ELSE LoadRow(f[k - 1], Seed[k])]
    OBVIOUS
  <1>2. Loaded(table) = f[Len(Seed)]
    BY DEF Loaded
  <1> HIDE DEF f
  <1> DEFINE S == {k \in 0..Len(Seed) : f[k] = g[k]}
  <1>3. 0 \in S
    BY <1>1, SeedIsSeq
  <1>4. ASSUME NEW k \in 0..Len(Seed)-1, k \in S PROVE k + 1 \in S
    <2>1. /\ k + 1 \in 0..Len(Seed) /\ k + 1 # 0 /\ (k + 1) - 1 = k
      BY SeedIsSeq
    <2>2. f[k + 1] = LoadRow(f[k], Seed[k + 1]) /\ g[k + 1] = LoadRow(g[k], Seed[k + 1])
      BY <1>1, <2>1
    <2> QED BY <1>4, <2>1, <2>2
  <1>5. 0..Len(Seed) \subseteq S
    <2> HIDE DEF S
    <2> QED BY <1>3, <1>4, SeedIsSeq, SegmentInduction
  <1>6. Len(Seed) \in 0..Len(Seed)
    BY SeedIsSeq
  <1> QED BY <1>2, <1>5, <1>6

\* A restart finds every row of the seed as the seed has it.
LEMMA LoadedAgain ==
    ASSUME NEW table, Sound(table)
    PROVE  Loaded(table) = table
  <1> DEFINE g == [k \in 0..Len(Seed) |-> table]
  <1>1. ASSUME NEW k \in 0..Len(Seed)
        PROVE  g[k] = IF k = 0 THEN table ELSE LoadRow(g[k - 1], Seed[k])
    <2>1. CASE k = 0
      BY <2>1
    <2>2. CASE k # 0
      <3>1. k \in 1..Len(Seed) /\ k - 1 \in 0..Len(Seed)
        BY <2>2, SeedIsSeq
      <3> QED BY <2>2, <3>1, LoadRowAgain
    <2> QED BY <2>1, <2>2
  <1>2. g = [k \in 0..Len(Seed) |-> IF k = 0 THEN table ELSE LoadRow(g[k - 1], Seed[k])]
    BY <1>1
  <1>3. g[Len(Seed)] = table
    BY SeedIsSeq
  <1> HIDE DEF g
  <1> QED BY <1>2, <1>3, LoadedIs

\* The first start leaves the seed in the table.
LEMMA LoadedFresh == Loaded(<<>>) = Seed
  <1> DEFINE g == [k \in 0..Len(Seed) |-> SubSeq(Seed, 1, k)]
  <1>1. SubSeq(Seed, 1, 0) = <<>> /\ SubSeq(Seed, 1, Len(Seed)) = Seed
    BY SeedIsSeq
  <1>2. ASSUME NEW k \in 0..Len(Seed)
        PROVE  g[k] = IF k = 0 THEN <<>> ELSE LoadRow(g[k - 1], Seed[k])
    <2>1. CASE k = 0
      BY <1>1, <2>1
    <2>2. CASE k # 0
      <3>1. k \in 1..Len(Seed) /\ k - 1 \in 0..Len(Seed)
        BY <2>2, SeedIsSeq
      <3> QED BY <2>2, <3>1, LoadRowFresh
    <2> QED BY <2>1, <2>2
  <1>3. g = [k \in 0..Len(Seed) |-> IF k = 0 THEN <<>> ELSE LoadRow(g[k - 1], Seed[k])]
    BY <1>2
  <1>4. g[Len(Seed)] = Seed
    BY <1>1, SeedIsSeq
  <1> HIDE DEF g
  <1> QED BY <1>3, <1>4, LoadedIs

LEMMA SeedIsSound == Sound(Seed)
  BY SeedIsSeq, SeedAssumption DEF Sound, Keys, SeedFirst

\* A row whose key is not there is added behind the others.
LEMMA AddedRow ==
    ASSUME NEW table, Sound(table), NEW row \in Row, At(table, row.channel, row.id) = 0
    PROVE  LET new == Append(table, row) IN
           /\ Sound(new) /\ Extends(table, new)
           /\ Len(new) = Len(table) + 1 /\ new[Len(new)] = row
  <1>1. PICK new : new = Append(table, row)
    OBVIOUS
  <1>2. table \in Seq(Row) /\ Len(table) \in Nat
    BY DEF Sound
  <1>3. /\ new \in Seq(Row) /\ Len(new) = Len(table) + 1 /\ new[Len(table) + 1] = row
        /\ \A i \in 1..Len(table) : new[i] = table[i]
    BY <1>1, <1>2
  <1>4. \A i \in 1..Len(table) : ~(table[i].channel = row.channel /\ table[i].id = row.id)
    BY <1>2, AtIs
  <1>5. Keys(new)
    <2>1. SUFFICES ASSUME NEW i \in 1..Len(new), NEW j \in 1..Len(new),
                          new[i].channel = new[j].channel, new[i].id = new[j].id
                   PROVE  i = j
      BY DEF Keys
    <2>2. (i \in 1..Len(table) \/ i = Len(table) + 1) /\ (j \in 1..Len(table) \/ j = Len(table) + 1)
      BY <1>2, <1>3
    <2>3. CASE i \in 1..Len(table) /\ j \in 1..Len(table)
      BY <1>3, <2>1, <2>3 DEF Sound, Keys
    <2> QED BY <1>3, <1>4, <2>1, <2>2, <2>3
  <1>6. SeedFirst(new)
    BY <1>2, <1>3, SeedIsSeq DEF Sound, SeedFirst
  <1> QED BY <1>1, <1>2, <1>3, <1>5, <1>6 DEF Sound, Extends

-----------------------------------------------------------------------------
(* What a lookup asks of a row                                               *)

InUse(row)         == row.enabled
ForRequesters(row) == row.purpose = "REQUESTER" /\ InUse(row)

-----------------------------------------------------------------------------
(* The invariant                                                             *)

Session == [user : AllUsers, channel : Channels, id : Conversations]
ReportRecord == [user : AllUsers, source : Conversations, queue : {"", "facility", "general"}]

Shapes ==
    /\ identities \in [Identities -> AllUsers \cup {NoUser}]
    /\ sessionRows \in SUBSET Session
    /\ Sound(conversations)
    /\ reports \in Seq(ReportRecord)

\* A session is of a user who wrote there under an identity of that channel, in
\* a conversation that was registered for it.
SessionHeld(s, ids, table) ==
    /\ \E i \in Identities : i[1] = s.channel /\ ids[i] = s.user
    /\ \E m \in Spoken : m.by[1] = s.channel /\ m.id = s.id
    /\ \E k \in 1..Len(table) : table[k].channel = s.channel /\ table[k].id = s.id
SessionsHeld == \A s \in sessionRows : SessionHeld(s, identities, conversations)

\* A ticket is of a user with a session where it came from.
ReportHeld(t, sessions) ==
    \E m \in Spoken : m.id = t.source /\ [user |-> t.user, channel |-> m.by[1], id |-> m.id] \in sessions
ReportsHeld == \A r \in DOMAIN reports : ReportHeld(reports[r], sessionRows)

\* Where a notice may go, by its visibility.
OwnAddress(u, to, ids) ==
    to.kind = "user" /\ <<to.channel, to.id>> \in Identities /\ ids[<<to.channel, to.id>>] = u
StaffPlace(to, table) ==
    /\ to.kind = "conversation"
    /\ \E k \in 1..Len(table) : /\ table[k].channel = to.channel /\ table[k].id = to.id
                                /\ table[k].purpose \in {"OPERATOR", "APPROVAL"}
RequestersPlace(u, to, table, sessions) ==
    /\ to.kind = "conversation"
    /\ \E k \in 1..Len(table) : /\ table[k].channel = to.channel /\ table[k].id = to.id
                                /\ InUse(table[k])
                                /\ \/ table[k].purpose = "REQUESTER"
                                   \/ \E s \in sessions : s.user = u /\ s.id = to.id

NoticeHeld(u, visibility, to, ids, table, sessions) ==
    \/ visibility = "PRIVATE" /\ OwnAddress(u, to, ids)
    \/ visibility = "INTERNAL" /\ StaffPlace(to, table)
    \/ visibility = "PUBLIC" /\ RequestersPlace(u, to, table, sessions)
NoticesHeld ==
    \A n \in notices : /\ n.user \in AllUsers
                       /\ NoticeHeld(n.user, n.visibility, n.to, identities, conversations, sessionRows)

Held == Shapes /\ SessionsHeld /\ ReportsHeld
TargetsInv == Held /\ NoticesHeld

-----------------------------------------------------------------------------
(* Lookups                                                                   *)

LEMMA OperatorQueueIs ==
    ASSUME Sound(conversations), NEW q, NEW channel
    PROVE  OperatorQueue(q, channel) = NoTarget \/ StaffPlace(OperatorQueue(q, channel), conversations)
  <1> DEFINE Passing(useQ, useC) == {i \in 1..Len(conversations) :
                                        /\ conversations[i].purpose = "OPERATOR" /\ conversations[i].enabled
                                        /\ useQ => conversations[i].queue = q
                                        /\ useC => conversations[i].channel = channel}
  <1>1. Len(conversations) \in Nat
    BY DEF Sound
  <1>2. PICK k : k = FindOperatorConversation(q, channel)
    OBVIOUS
  <1>3. \E useQ, useC \in BOOLEAN : k = LeastIn(Passing(useQ, useC))
    <2>1. \/ k = LeastIn(Passing(TRUE, TRUE)) \/ k = LeastIn(Passing(TRUE, FALSE))
          \/ k = LeastIn(Passing(FALSE, TRUE)) \/ k = LeastIn(Passing(FALSE, FALSE))
      BY <1>2 DEF FindOperatorConversation, FirstRow, SelectInSeq, LeastIn
    <2> HIDE DEF Passing
    <2> QED BY <2>1
  <1>4. k = 0 \/ (k # 0 /\ k \in 1..Len(conversations) /\ conversations[k].purpose = "OPERATOR")
    <2>1. PICK useQ \in BOOLEAN, useC \in BOOLEAN : k = LeastIn(Passing(useQ, useC))
      BY <1>3
    <2>2. PICK S \in SUBSET (1..Len(conversations)) : S = Passing(useQ, useC)
      OBVIOUS
    <2>3. LeastIn(S) = 0 \/ (LeastIn(S) # 0 /\ LeastIn(S) \in S)
      BY <1>1, FirstIs
    <2> QED BY <2>1, <2>2, <2>3
  <1>5. CASE k = 0
    BY <1>2, <1>5 DEF OperatorQueue
  <1>6. CASE k # 0 /\ k \in 1..Len(conversations) /\ conversations[k].purpose = "OPERATOR"
    <2>1. OperatorQueue(q, channel) = ToConversation(k)
      BY <1>2, <1>6 DEF OperatorQueue
    <2>2. StaffPlace(ToConversation(k), conversations)
      BY <1>6 DEF StaffPlace, ToConversation
    <2> QED BY <2>1, <2>2
  <1> QED BY <1>4, <1>5, <1>6

LEMMA ApproverIs ==
    ASSUME Sound(conversations)
    PROVE  Approver = NoTarget \/ StaffPlace(Approver, conversations)
  <1> DEFINE Passing == {i \in 1..Len(conversations) :
                            conversations[i].purpose = "APPROVAL" /\ conversations[i].enabled}
  <1>1. Len(conversations) \in Nat
    BY DEF Sound
  <1>2. PICK k : k = FindApprovalConversation
    OBVIOUS
  <1>3. k = LeastIn(Passing)
    BY <1>2 DEF FindApprovalConversation, FirstRow, SelectInSeq, LeastIn
  <1>4. PICK S \in SUBSET (1..Len(conversations)) : S = Passing
    OBVIOUS
  <1>5. LeastIn(S) = 0 \/ (LeastIn(S) # 0 /\ LeastIn(S) \in S)
    BY <1>1, FirstIs
  <1>6. CASE k = 0
    BY <1>2, <1>6 DEF Approver
  <1>7. CASE k # 0 /\ k \in 1..Len(conversations) /\ conversations[k].purpose = "APPROVAL"
    <2>1. Approver = ToConversation(k)
      BY <1>2, <1>7 DEF Approver
    <2>2. StaffPlace(ToConversation(k), conversations)
      BY <1>7 DEF StaffPlace, ToConversation
    <2> QED BY <2>1, <2>2
  <1>8. k = 0 \/ (k # 0 /\ k \in 1..Len(conversations) /\ conversations[k].purpose = "APPROVAL")
    BY <1>3, <1>4, <1>5
  <1> QED BY <1>6, <1>7, <1>8

\* A requester conversation that is found is one, and in use.
LEMMA RequesterConversationIs ==
    ASSUME Sound(conversations), NEW q, NEW channel, NEW k, k = FindRequesterConversation(q, channel), k # 0
    PROVE  k \in 1..Len(conversations) /\ ForRequesters(conversations[k])
  <1> DEFINE Passing(useQ, useC) == {i \in 1..Len(conversations) :
                                        /\ ForRequesters(conversations[i])
                                        /\ useQ => conversations[i].queue = q
                                        /\ useC => conversations[i].channel = channel}
  <1>1. Len(conversations) \in Nat
    BY DEF Sound
  <1>2. PICK S \in {Passing(TRUE, TRUE), Passing(TRUE, FALSE), Passing(FALSE, TRUE)} : k = LeastIn(S)
    BY DEF FindRequesterConversation, FirstRow, SelectInSeq, LeastIn, ForRequesters, InUse
  <1>3. S \in SUBSET (1..Len(conversations)) /\ \A i \in S : ForRequesters(conversations[i])
    OBVIOUS
  <1>4. k \in S
    BY <1>1, <1>2, <1>3, FirstIs
  <1> QED BY <1>3, <1>4

LEMMA FindByIdIs ==
    ASSUME Sound(conversations), NEW id, NEW k, k = FindById(id), k # 0
    PROVE  k \in 1..Len(conversations) /\ conversations[k].id = id /\ InUse(conversations[k])
  <1>1. PICK S : S = {i \in 1..Len(conversations) : conversations[i].id = id /\ InUse(conversations[i])}
    OBVIOUS
  <1>2. k = LeastIn(S) /\ S \in SUBSET (1..Len(conversations)) /\ Len(conversations) \in Nat
    BY <1>1 DEF FindById, FirstRow, SelectInSeq, LeastIn, Sound, InUse
  <1>3. k \in S
    BY <1>2, FirstIs
  <1> QED BY <1>1, <1>3

\* The user's own identity: who has a session on a channel has one there.
LEMMA RequesterPrivateIs ==
    ASSUME Held, NEW t, NEW u \in AllUsers, NEW channel
    PROVE  \/ RequesterPrivate(t, u, channel) = NoTarget
           \/ OwnAddress(u, RequesterPrivate(t, u, channel), identities)
  <1> DEFINE on  == IF channel # "" THEN channel
                    ELSE IF FindById(t.source) # 0 THEN conversations[FindById(t.source)].channel ELSE "wecom"
             dms == {s \in SessionsOf(u) :
                        /\ s.channel = on
                        /\ Find(on, s.id) # 0 /\ conversations[Find(on, s.id)].type = "DM"}
  <1>3. RequesterPrivate(t, u, channel) =
            IF ChannelUserId(on, u) # {} THEN ToUser(on, CHOOSE id \in ChannelUserId(on, u) : TRUE)
            ELSE IF dms # {} THEN ToUser(on, (CHOOSE s \in dms : TRUE).id)
            ELSE NoTarget
    BY DEF RequesterPrivate
  <1> HIDE DEF on
  <1>4. CASE ChannelUserId(on, u) # {}
    <2>1. PICK id \in ChannelUserId(on, u) : id = CHOOSE x \in ChannelUserId(on, u) : TRUE
      BY <1>4
    <2>2. <<on, id>> \in Identities /\ identities[<<on, id>>] = u
      <3>1. PICK i \in Identities : i[1] = on /\ identities[i] = u /\ id = i[2]
        BY <2>1 DEF ChannelUserId, IdentitiesOn
      <3>2. i = <<i[1], i[2]>>
        BY DEF Identities
      <3> QED BY <3>1, <3>2
    <2>3. RequesterPrivate(t, u, channel) = ToUser(on, id)
      BY <1>3, <1>4, <2>1
    <2> QED BY <2>2, <2>3 DEF OwnAddress, ToUser
  <1>5. CASE ChannelUserId(on, u) = {}
    <2>1. dms = {}
      <3>1. SUFFICES ASSUME NEW s \in dms PROVE FALSE
        OBVIOUS
      <3>2. s \in sessionRows /\ s.user = u /\ s.channel = on
        BY DEF SessionsOf
      <3>3. PICK i \in Identities : i[1] = on /\ identities[i] = u
        BY <3>2 DEF Held, SessionsHeld, SessionHeld
      <3> QED BY <1>5, <3>3 DEF ChannelUserId, IdentitiesOn
    <2> QED BY <1>3, <1>5, <2>1
  <1> QED BY <1>4, <1>5

\* Requesters' conversations, or the one the ticket came from by its id.
LEMMA RequesterPublicIs ==
    ASSUME Held, NEW r \in DOMAIN reports, NEW channel
    PROVE  LET to == RequesterPublic(reports[r], channel) IN
           to = NoTarget \/ RequestersPlace(reports[r].user, to, conversations, sessionRows)
  <1>0. reports \in Seq(ReportRecord)
    BY DEF Held, Shapes
  <1>1. PICK t \in ReportRecord : t = reports[r]
    BY <1>0
  <1>2. PICK k : k = FindRequesterConversation(t.queue, channel)
    OBVIOUS
  <1>3. PICK source : source = FindById(t.source)
    OBVIOUS
  <1>4. RequesterPublic(t, channel) = IF k # 0 THEN ToConversation(k)
                                      ELSE IF source # 0 THEN ToConversation(source) ELSE NoTarget
    BY <1>2, <1>3, Zenon DEF RequesterPublic
  <1>5. Sound(conversations)
    BY DEF Held, Shapes
  <1>6. CASE k # 0
    <2>1. k \in 1..Len(conversations) /\ ForRequesters(conversations[k])
      BY <1>2, <1>5, <1>6, RequesterConversationIs
    <2>2. RequestersPlace(t.user, ToConversation(k), conversations, sessionRows)
      BY <2>1 DEF RequestersPlace, ToConversation, ForRequesters
    <2> QED BY <1>1, <1>4, <1>6, <2>2
  <1>7. CASE k = 0 /\ source # 0
    <2>1. source \in 1..Len(conversations) /\ conversations[source].id = t.source /\ InUse(conversations[source])
      BY <1>3, <1>5, <1>7, FindByIdIs
    <2>2. \E s \in sessionRows : s.user = t.user /\ s.id = t.source
      BY <1>1 DEF Held, ReportsHeld, ReportHeld
    <2>3. RequestersPlace(t.user, ToConversation(source), conversations, sessionRows)
      BY <2>1, <2>2 DEF RequestersPlace, ToConversation
    <2> QED BY <1>1, <1>4, <1>7, <2>3
  <1>8. CASE k = 0 /\ source = 0
    BY <1>1, <1>4, <1>8
  <1> QED BY <1>6, <1>7, <1>8

\* What is enqueued is held if everything addressed is.
LEMMA EnqueueIs ==
    ASSUME NEW t, t.user \in AllUsers, NEW addressed, Enqueue(t, addressed),
           \A a \in addressed : \/ a[2] = NoTarget
                                \/ NoticeHeld(t.user, a[1], a[2], identities', conversations', sessionRows')
    PROVE  NoticesHeld'
  <1> SUFFICES ASSUME NEW n \in notices'
               PROVE  /\ n.user \in AllUsers
                      /\ NoticeHeld(n.user, n.visibility, n.to, identities', conversations', sessionRows')
    BY DEF NoticesHeld
  <1>1. PICK a \in addressed : a[2] # NoTarget /\ n = [visibility |-> a[1], to |-> a[2], user |-> t.user]
    BY DEF Enqueue
  <1>2. n.user = t.user /\ n.visibility = a[1] /\ n.to = a[2]
    BY <1>1
  <1> QED BY <1>1, <1>2

\* Enqueue of the receipts an action sends to no new place.
LEMMA StaffPlaceExtends ==
    ASSUME NEW old, NEW new, Extends(old, new), Len(old) \in Nat, Len(new) \in Nat,
           NEW to, StaffPlace(to, old)
    PROVE  StaffPlace(to, new)
  BY DEF StaffPlace, Extends

-----------------------------------------------------------------------------
(* Steps of the accounts                                                     *)

\* Identities stay bound, sessions and rows are kept; what is new is held.
Grows ==
    /\ identities' \in [Identities -> AllUsers \cup {NoUser}]
    /\ \A i \in Identities : identities[i] \in AllUsers => identities'[i] = identities[i]
    /\ sessionRows' \in SUBSET Session /\ sessionRows \subseteq sessionRows'
    /\ \A s \in sessionRows' : s \in sessionRows \/ SessionHeld(s, identities', conversations')
    /\ Sound(conversations') /\ Extends(conversations, conversations')

LEMMA NobodyIsNoUser == NoUser \notin AllUsers
  BY DEF NoUser, AllUsers, Identities

LEMMA SoundIs ==
    ASSUME NEW table, Sound(table)
    PROVE  table \in Seq(Row) /\ Len(table) \in Nat /\ \A k \in 1..Len(table) : table[k] \in Row
  BY DEF Sound

LEMMA SpokenIs ==
    ASSUME NEW m \in Spoken
    PROVE  m.by \in Identities /\ m.by[1] \in Channels /\ m.id \in Conversations /\ m.hint \in {"DM", "GROUP"}
  BY TargetsAssumption DEF Identities

LEMMA SessionKept ==
    ASSUME Held, Grows, NEW s \in sessionRows
    PROVE  SessionHeld(s, identities', conversations')
  <1>1. s \in Session /\ SessionHeld(s, identities, conversations)
    BY DEF Held, Shapes, SessionsHeld
  <1>2. \E i \in Identities : i[1] = s.channel /\ identities'[i] = s.user
    BY <1>1 DEF SessionHeld, Grows, Session
  <1>3. \E k \in 1..Len(conversations') : conversations'[k].channel = s.channel /\ conversations'[k].id = s.id
    <2>1. PICK k \in 1..Len(conversations) : conversations[k].channel = s.channel /\ conversations[k].id = s.id
      BY <1>1 DEF SessionHeld
    <2>2. Len(conversations) \in Nat /\ Len(conversations') \in Nat
      BY SoundIs DEF Held, Shapes, Grows
    <2>3. k \in 1..Len(conversations') /\ conversations'[k] = conversations[k]
      BY <2>2 DEF Grows, Extends
    <2> QED BY <2>1, <2>3
  <1> QED BY <1>1, <1>2, <1>3 DEF SessionHeld

LEMMA GrowsKeeps ==
    ASSUME Held, Grows, reports' \in Seq(ReportRecord),
           \A r \in DOMAIN reports' : ReportHeld(reports'[r], sessionRows')
    PROVE  Held'
  <1>1. Shapes' /\ ReportsHeld'
    BY DEF Grows, Shapes, ReportsHeld
  <1>2. SessionsHeld'
    BY SessionKept DEF Grows, SessionsHeld
  <1> QED BY <1>1, <1>2 DEF Held

LEMMA ReportKept ==
    ASSUME NEW t, NEW old, NEW new, old \subseteq new, ReportHeld(t, old)
    PROVE  ReportHeld(t, new)
  BY DEF ReportHeld

LEMMA ExtendsSelf == ASSUME NEW table \in Seq(Row) PROVE Extends(table, table)
  BY DEF Extends

\* Find-or-create of a conversation adds a row, or changes nothing.
LEMMA RegisterIs ==
    ASSUME Held, NEW row \in Row, Register(row)
    PROVE  /\ Sound(conversations') /\ Extends(conversations, conversations')
           /\ \E k \in 1..Len(conversations') :
                  /\ conversations'[k].channel = row.channel /\ conversations'[k].id = row.id
                  /\ Find(row.channel, row.id) = 0 => conversations'[k] = row
                  /\ Find(row.channel, row.id) # 0 => k = Find(row.channel, row.id) /\ conversations'[k] = conversations[k]
  <1>1. Sound(conversations) /\ conversations \in Seq(Row) /\ Len(conversations) \in Nat
    BY SoundIs DEF Held, Shapes
  <1>2. PICK k : k = At(conversations, row.channel, row.id) /\ k = Find(row.channel, row.id)
    BY FindIs
  <1>3. conversations' = IF k # 0 THEN conversations ELSE Append(conversations, row)
    BY <1>2 DEF Register
  <1>4. CASE k # 0
    <2>1. PICK channel, id : channel = row.channel /\ id = row.id
      OBVIOUS
    <2>2. k # 0 /\ k = At(conversations, channel, id)
      BY <1>2, <1>4, <2>1
    <2>3. k \in 1..Len(conversations) /\ conversations[k].channel = channel /\ conversations[k].id = id
      BY <1>1, <2>2, AtIs
    <2> QED BY <1>1, <1>2, <1>3, <1>4, <2>1, <2>3, ExtendsSelf
  <1>5. CASE k = 0
    <2>1. PICK new : new = Append(conversations, row)
      OBVIOUS
    <2>2. /\ Sound(new) /\ Extends(conversations, new)
          /\ Len(new) = Len(conversations) + 1 /\ new[Len(new)] = row
      BY <1>1, <1>2, <1>5, <2>1, AddedRow
    <2>3. Len(new) \in 1..Len(new)
      BY <1>1, <2>2
    <2>4. conversations' = new
      BY <1>3, <1>5, <2>1
    <2> QED BY <1>2, <1>5, <2>2, <2>3, <2>4
  <1> QED BY <1>4, <1>5

\* The first steps of a message: its sender is somebody, with a session here.
LEMMA ContactIs ==
    ASSUME Held, NEW m \in Spoken, Contact(m.by, m.id, m.hint)
    PROVE  /\ Grows /\ identities'[m.by] \in AllUsers
           /\ [user |-> identities'[m.by], channel |-> m.by[1], id |-> m.id] \in sessionRows'
  <1>1. m.by \in Identities /\ m.by[1] \in Channels /\ m.id \in Conversations /\ m.hint \in {"DM", "GROUP"}
    BY SpokenIs
  <1>2. identities \in [Identities -> AllUsers \cup {NoUser}] /\ sessionRows \in SUBSET Session
    BY DEF Held, Shapes
  <1>3. identities' = IF identities[m.by] = NoUser THEN [identities EXCEPT ![m.by] = m.by] ELSE identities
    BY DEF Contact, ResolveIdentity
  <1>4. identities' \in [Identities -> AllUsers \cup {NoUser}] /\ identities'[m.by] \in AllUsers
    BY <1>1, <1>2, <1>3 DEF AllUsers
  <1>5. \A i \in Identities : identities[i] \in AllUsers => identities'[i] = identities[i]
    BY <1>1, <1>2, <1>3, NobodyIsNoUser
  <1>6. PICK s : s = [user |-> identities'[m.by], channel |-> m.by[1], id |-> m.id]
    OBVIOUS
  <1>7. sessionRows' = sessionRows \cup {s}
    BY <1>6 DEF Contact, FindOrCreateSession
  <1>8. s \in Session /\ s.user = identities'[m.by] /\ s.channel = m.by[1] /\ s.id = m.id
    BY <1>1, <1>4, <1>6 DEF Session
  <1>9. PICK row : row = [channel |-> m.by[1], id |-> m.id, type |-> m.hint, purpose |-> "REQUESTER",
                          queue |-> "", enabled |-> TRUE]
    OBVIOUS
  <1>10. row \in Row /\ row.queue = "" /\ row.channel = m.by[1] /\ row.id = m.id
    <2>1. TRUE \in BOOLEAN
      OBVIOUS
    <2> QED BY <1>1, <1>9, <2>1 DEF Row
  <1>12. Register(row)
    BY <1>9 DEF Contact
  <1>13. /\ Sound(conversations') /\ Extends(conversations, conversations')
         /\ \E k \in 1..Len(conversations') : conversations'[k].channel = row.channel /\ conversations'[k].id = row.id
    BY <1>10, <1>12, RegisterIs
  <1>14. SessionHeld(s, identities', conversations')
    <2>1. \E i \in Identities : i[1] = s.channel /\ identities'[i] = s.user
      BY <1>1, <1>8
    <2>2. \E x \in Spoken : x.by[1] = s.channel /\ x.id = s.id
      BY <1>8
    <2>3. \E k \in 1..Len(conversations') : conversations'[k].channel = s.channel /\ conversations'[k].id = s.id
      BY <1>8, <1>10, <1>13
    <2> QED BY <2>1, <2>2, <2>3 DEF SessionHeld
  <1> QED BY <1>2, <1>4, <1>5, <1>6, <1>7, <1>8, <1>13, <1>14 DEF Grows

\* Nothing changes in the accounts.
LEMMA StandsStill == ASSUME Held, UNCHANGED accountVars PROVE Grows
  <1>1. /\ identities \in [Identities -> AllUsers \cup {NoUser}] /\ sessionRows \in SUBSET Session
        /\ Sound(conversations)
    BY DEF Held, Shapes
  <1>2. identities' = identities /\ sessionRows' = sessionRows /\ conversations' = conversations
    BY DEF accountVars
  <1>3. Extends(conversations, conversations')
    BY <1>1, <1>2, SoundIs, ExtendsSelf
  <1> QED BY <1>1, <1>2, <1>3 DEF Grows

\* What the scripts, a restart and the endpoint of registration do.
LEMMA AdministrationIs ==
    ASSUME Held,
           \/ LoadSeed
           \/ \E b \in Bindable : BindIdentity(b[1], b[2])
           \/ \E g \in Staff : EnsureRole(g[1], g[2])
           \/ \E row \in Registered : RegisterConversation(row)
    PROVE  Grows
  <1>1. /\ identities \in [Identities -> AllUsers \cup {NoUser}] /\ sessionRows \in SUBSET Session
        /\ Sound(conversations)
    BY DEF Held, Shapes
  <1>2. CASE LoadSeed
    <2>1. conversations' = conversations
      BY <1>1, <1>2, LoadedAgain DEF LoadSeed
    <2>2. identities' = identities /\ sessionRows' = sessionRows
      BY <1>2 DEF LoadSeed
    <2>3. Extends(conversations, conversations')
      BY <1>1, <2>1, SoundIs, ExtendsSelf
    <2> QED BY <1>1, <2>1, <2>2, <2>3 DEF Grows
  <1>3. ASSUME NEW b \in Bindable, BindIdentity(b[1], b[2]) PROVE Grows
    <2>1. b[1] \in Identities /\ b[2] \in AllUsers
      BY TargetsAssumption
    <2>2. /\ identities' = [identities EXCEPT ![b[1]] = b[2]] /\ identities[b[1]] = NoUser
          /\ sessionRows' = sessionRows /\ conversations' = conversations
      BY <1>3 DEF BindIdentity
    <2>3. /\ identities' \in [Identities -> AllUsers \cup {NoUser}]
          /\ \A i \in Identities : identities[i] \in AllUsers => identities'[i] = identities[i]
      BY <1>1, <2>1, <2>2, NobodyIsNoUser
    <2>4. Extends(conversations, conversations')
      BY <1>1, <2>2, SoundIs, ExtendsSelf
    <2> QED BY <1>1, <2>2, <2>3, <2>4 DEF Grows
  <1>4. ASSUME NEW g \in Staff, EnsureRole(g[1], g[2]) PROVE Grows
    <2>1. identities' = identities /\ sessionRows' = sessionRows /\ conversations' = conversations
      BY <1>4 DEF EnsureRole
    <2>2. Extends(conversations, conversations')
      BY <1>1, <2>1, SoundIs, ExtendsSelf
    <2> QED BY <1>1, <2>1, <2>2 DEF Grows
  <1>5. ASSUME NEW row \in Registered, RegisterConversation(row) PROVE Grows
    <2>1. row \in Row
      BY TargetsAssumption
    <2>2. Register(row) /\ identities' = identities /\ sessionRows' = sessionRows
      BY <1>5 DEF RegisterConversation
    <2>3. Sound(conversations') /\ Extends(conversations, conversations')
      BY <2>1, <2>2, RegisterIs
    <2> QED BY <1>1, <2>2, <2>3 DEF Grows
  <1> QED BY <1>2, <1>3, <1>4, <1>5

-----------------------------------------------------------------------------
(* Steps of the notices                                                      *)

\* The addresses of a step that leaves accounts and tickets alone.
LEMMA AddressesStand ==
    ASSUME Held, UNCHANGED <<accountVars, reports>>
    PROVE  /\ Held' /\ identities' = identities /\ conversations' = conversations /\ sessionRows' = sessionRows
  <1>1. Grows
    BY StandsStill
  <1>2. /\ identities' = identities /\ conversations' = conversations /\ sessionRows' = sessionRows
        /\ reports' = reports
    BY DEF accountVars
  <1>3. reports \in Seq(ReportRecord) /\ \A r \in DOMAIN reports : ReportHeld(reports[r], sessionRows)
    BY DEF Held, Shapes, ReportsHeld
  <1>4. Held'
    BY <1>1, <1>2, <1>3, GrowsKeeps
  <1> QED BY <1>2, <1>4

LEMMA ReportIs ==
    ASSUME Held, NEW r \in DOMAIN reports
    PROVE  reports[r] \in ReportRecord /\ reports[r].user \in AllUsers /\ ReportHeld(reports[r], sessionRows)
  <1>1. reports \in Seq(ReportRecord)
    BY DEF Held, Shapes
  <1>2. reports[r] \in ReportRecord
    BY <1>1
  <1>3. reports[r].user \in AllUsers
    BY <1>2 DEF ReportRecord
  <1> QED BY <1>2, <1>3 DEF Held, ReportsHeld

\* A conversation that is not a requester's takes the receipts of the staff.
LEMMA ReceiptIs ==
    ASSUME Held, NEW m \in Spoken, NEW k, k = Find(m.by[1], m.id), k # 0,
           conversations[k].purpose # "REQUESTER"
    PROVE  StaffPlace(ActionOrigin(m.by[1], m.id), conversations)
  <1>1. conversations \in Seq(Row) /\ \A i \in 1..Len(conversations) : conversations[i] \in Row
    BY SoundIs DEF Held, Shapes
  <1>2. k \in 1..Len(conversations) /\ conversations[k].channel = m.by[1] /\ conversations[k].id = m.id
    BY <1>1, AtIs, FindIs
  <1>3. conversations[k].purpose \in {"OPERATOR", "APPROVAL"}
    BY <1>1, <1>2 DEF Row
  <1> QED BY <1>2, <1>3 DEF StaffPlace, ActionOrigin

\* A public notice to whoever wrote here goes to a session of theirs, in a
\* conversation in use: one that is not gets no notice, a new one is.
LEMMA TalkKeeps ==
    ASSUME Held, NEW m \in Spoken, Talk(m)
    PROVE  Held' /\ NoticesHeld'
  <1>1. /\ Grows /\ identities'[m.by] \in AllUsers
        /\ [user |-> identities'[m.by], channel |-> m.by[1], id |-> m.id] \in sessionRows'
    BY ContactIs DEF Talk
  <1>2. reports' = reports
    BY DEF Talk
  <1>3. Held'
    <2>1. reports' \in Seq(ReportRecord)
      BY <1>2 DEF Held, Shapes
    <2>2. \A r \in DOMAIN reports' : ReportHeld(reports'[r], sessionRows')
      BY <1>1, <1>2, ReportIs, ReportKept DEF Grows
    <2> QED BY <1>1, <2>1, <2>2, GrowsKeeps
  <1>4. PICK u \in AllUsers : u = identities'[m.by]
    BY <1>1
  <1>5. PICK k : k = Find(m.by[1], m.id)
    OBVIOUS
  <1>6. PICK to : to = IF k = 0 THEN ActionOrigin(m.by[1], m.id) ELSE ByConversation(m.by[1], m.id)
    OBVIOUS
  <1>7. Enqueue([user |-> u], {<<"PUBLIC", to>>})
    BY <1>4, <1>5, <1>6 DEF Talk
  <1>8. to = NoTarget \/ (to = ActionOrigin(m.by[1], m.id) /\ (k = 0 \/ InUse(conversations[k])))
    BY <1>5, <1>6 DEF ByConversation, InUse
  <1>9. PICK row : row = [channel |-> m.by[1], id |-> m.id, type |-> m.hint, purpose |-> "REQUESTER",
                          queue |-> "", enabled |-> TRUE]
    OBVIOUS
  <1>10. row \in Row /\ InUse(row) /\ row.channel = m.by[1] /\ row.id = m.id
    <2>1. TRUE \in BOOLEAN
      OBVIOUS
    <2> QED BY <1>9, <2>1, SpokenIs DEF Row, InUse
  <1>11. PICK i \in 1..Len(conversations') :
            /\ conversations'[i].channel = m.by[1] /\ conversations'[i].id = m.id
            /\ k = 0 => conversations'[i] = row
            /\ k # 0 => i = k /\ conversations'[i] = conversations[i]
    <2>1. Register(row)
      BY <1>9 DEF Talk, Contact
    <2> QED BY <1>5, <1>10, <2>1, RegisterIs
  <1>12. to = NoTarget \/ RequestersPlace(u, to, conversations', sessionRows')
    <2>1. CASE to = ActionOrigin(m.by[1], m.id) /\ (k = 0 \/ InUse(conversations[k]))
      <3>1. InUse(conversations'[i])
        BY <1>10, <1>11, <2>1
      <3>2. \E s \in sessionRows' : s.user = u /\ s.id = m.id
        BY <1>1, <1>4
      <3>3. to.kind = "conversation" /\ to.channel = m.by[1] /\ to.id = m.id
        BY <2>1 DEF ActionOrigin
      <3> QED BY <1>11, <3>1, <3>2, <3>3 DEF RequestersPlace
    <2> QED BY <1>8, <2>1
  <1>13. \A a \in {<<"PUBLIC", to>>} : \/ a[2] = NoTarget
                                      \/ NoticeHeld(u, a[1], a[2], identities', conversations', sessionRows')
    BY <1>12 DEF NoticeHeld
  <1>14. PICK t : t = [user |-> u]
    OBVIOUS
  <1>15. t.user = u
    BY <1>14
  <1>16. NoticesHeld'
    BY <1>7, <1>13, <1>14, <1>15, EnqueueIs
  <1> QED BY <1>3, <1>16

\* A ticket is of its sender, and its operators are told.
LEMMA ReportKeeps ==
    ASSUME Held, NEW m \in Spoken, Report(m)
    PROVE  Held' /\ NoticesHeld'
  <1>1. /\ Grows /\ identities'[m.by] \in AllUsers
        /\ [user |-> identities'[m.by], channel |-> m.by[1], id |-> m.id] \in sessionRows'
    BY ContactIs DEF Report
  <1>2. PICK k : k = Find(m.by[1], m.id)
    OBVIOUS
  <1>3. PICK q : q = IF k = 0 THEN "" ELSE conversations[k].queue
    OBVIOUS
  <1>4. PICK t : t = [user |-> identities'[m.by], source |-> m.id, queue |-> q]
    OBVIOUS
  <1>5. reports' = Append(reports, t) /\ Enqueue(t, {<<"INTERNAL", OperatorQueue(q, m.by[1])>>})
    <2>1. t.queue = q
      BY <1>4
    <2> QED BY <1>2, <1>3, <1>4, <2>1 DEF Report
  <1>6. Sound(conversations) /\ conversations \in Seq(Row) /\ \A i \in 1..Len(conversations) : conversations[i] \in Row
    BY SoundIs DEF Held, Shapes
  <1>7. q \in {"", "facility", "general"}
    <2>1. CASE k = 0
      BY <1>3, <2>1
    <2>2. CASE k # 0
      <3>1. k \in 1..Len(conversations)
        BY <1>2, <1>6, <2>2, AtIs, FindIs
      <3>2. conversations[k].queue \in {"", "facility"}
        BY <1>6, <3>1 DEF Row
      <3> QED BY <1>3, <2>2, <3>2
    <2> QED BY <2>1, <2>2
  <1>8. t \in ReportRecord /\ t.user \in AllUsers /\ t.user = identities'[m.by] /\ t.source = m.id
    BY <1>1, <1>4, <1>7, SpokenIs DEF ReportRecord
  <1>9. Held'
    <2>1. reports \in Seq(ReportRecord)
      BY DEF Held, Shapes
    <2>2. /\ reports' \in Seq(ReportRecord)
          /\ \A r \in DOMAIN reports' : (r \in DOMAIN reports /\ reports'[r] = reports[r]) \/ reports'[r] = t
      BY <1>5, <1>8, <2>1
    <2>3. ReportHeld(t, sessionRows')
      BY <1>1, <1>8 DEF ReportHeld
    <2>4. ASSUME NEW r \in DOMAIN reports' PROVE ReportHeld(reports'[r], sessionRows')
      <3>1. CASE reports'[r] = t
        BY <2>3, <3>1
      <3>2. CASE r \in DOMAIN reports /\ reports'[r] = reports[r]
        BY <1>1, <3>2, ReportIs, ReportKept DEF Grows
      <3> QED BY <2>2, <3>1, <3>2
    <2> QED BY <1>1, <2>2, <2>4, GrowsKeeps
  <1>10. PICK to : to = OperatorQueue(q, m.by[1])
    OBVIOUS
  <1>11. to = NoTarget \/ StaffPlace(to, conversations')
    <2>1. to = NoTarget \/ StaffPlace(to, conversations)
      BY <1>6, <1>10, OperatorQueueIs
    <2>2. /\ Extends(conversations, conversations') /\ Len(conversations) \in Nat /\ Len(conversations') \in Nat
      BY <1>1, <1>6, SoundIs DEF Grows
    <2> QED BY <2>1, <2>2, StaffPlaceExtends
  <1>12. \A a \in {<<"INTERNAL", to>>} :
            a[2] = NoTarget \/ NoticeHeld(t.user, a[1], a[2], identities', conversations', sessionRows')
    BY <1>11 DEF NoticeHeld
  <1>13. NoticesHeld'
    BY <1>5, <1>8, <1>10, <1>12, EnqueueIs
  <1> QED BY <1>9, <1>13

\* May a notice of this visibility to this place be enqueued for u, or is there
\* nothing to enqueue?
MayGo(u, visibility, to) ==
    to = NoTarget \/ NoticeHeld(u, visibility, to, identities, conversations, sessionRows)

LEMMA Addresses ==
    ASSUME Held, NEW r \in DOMAIN reports, NEW q, NEW channel, NEW heard
    PROVE  /\ MayGo(reports[r].user, "PUBLIC", RequesterPublic(reports[r], heard))
           /\ MayGo(reports[r].user, "PRIVATE", RequesterPrivate(reports[r], reports[r].user, channel))
           /\ MayGo(reports[r].user, "INTERNAL", OperatorQueue(q, channel))
           /\ MayGo(reports[r].user, "INTERNAL", Approver)
  <1>1. PICK u \in AllUsers : u = reports[r].user
    BY ReportIs
  <1>2. Sound(conversations)
    BY DEF Held, Shapes
  <1>3. MayGo(u, "PUBLIC", RequesterPublic(reports[r], heard))
    BY <1>1, RequesterPublicIs DEF MayGo, NoticeHeld
  <1>4. MayGo(u, "PRIVATE", RequesterPrivate(reports[r], u, channel))
    BY RequesterPrivateIs DEF MayGo, NoticeHeld
  <1>5. MayGo(u, "INTERNAL", OperatorQueue(q, channel))
    BY <1>2, OperatorQueueIs DEF MayGo, NoticeHeld
  <1>6. MayGo(u, "INTERNAL", Approver)
    BY <1>2, ApproverIs DEF MayGo, NoticeHeld
  <1> QED BY <1>1, <1>3, <1>4, <1>5, <1>6

\* A step that only sends notices, each where it may go.
LEMMA Sends ==
    ASSUME Held, UNCHANGED accountVars, NEW t, t.user \in AllUsers, NEW addressed, Enqueue(t, addressed),
           \A a \in addressed : MayGo(t.user, a[1], a[2])
    PROVE  NoticesHeld'
  <1>1. identities' = identities /\ conversations' = conversations /\ sessionRows' = sessionRows
    BY DEF accountVars
  <1>2. \A a \in addressed : \/ a[2] = NoTarget
                             \/ NoticeHeld(t.user, a[1], a[2], identities', conversations', sessionRows')
    BY <1>1 DEF MayGo
  <1> QED BY <1>2, EnqueueIs

LEMMA AcknowledgeKeeps ==
    ASSUME Held, NEW r \in DOMAIN reports, NEW s \in sessionRows, Acknowledge(r, s)
    PROVE  Held' /\ NoticesHeld'
  <1>1. PICK t \in ReportRecord : t = reports[r] /\ t.user \in AllUsers
    BY ReportIs
  <1>2. s \in Session /\ SessionHeld(s, identities, conversations)
    BY DEF Held, Shapes, SessionsHeld
  <1>3. PICK k : k = Find(s.channel, s.id)
    OBVIOUS
  <1>4. conversations \in Seq(Row) /\ \A i \in 1..Len(conversations) : conversations[i] \in Row
    BY SoundIs DEF Held, Shapes
  <1>5. k \in 1..Len(conversations)
    BY <1>2, <1>3, <1>4, AtIs, FindIs DEF SessionHeld
  <1>6. PICK q : q = IF conversations[k].queue = "" THEN "general" ELSE conversations[k].queue
    OBVIOUS
  <1>7. q \in {"", "facility", "general"}
    BY <1>4, <1>5, <1>6 DEF Row
  <1>8. reports' = [reports EXCEPT ![r].queue = q] /\ UNCHANGED accountVars
    BY <1>3, <1>6 DEF Acknowledge
  <1>9. Held'
    <2>1. Grows
      BY <1>8, StandsStill
    <2>2. reports \in Seq(ReportRecord)
      BY DEF Held, Shapes
    <2>3. PICK new : new = [t EXCEPT !.queue = q]
      OBVIOUS
    <2>4. new \in ReportRecord /\ new.user = t.user /\ new.source = t.source
      BY <1>7, <2>3 DEF ReportRecord
    <2>5. reports' = [reports EXCEPT ![r] = new]
      BY <1>1, <1>8, <2>3
    <2>6. reports' \in Seq(ReportRecord) /\ DOMAIN reports' = DOMAIN reports
      BY <2>2, <2>4, <2>5
    <2>7. ASSUME NEW i \in DOMAIN reports' PROVE ReportHeld(reports'[i], sessionRows')
      <3>1. ReportHeld(reports[i], sessionRows) /\ ReportHeld(reports[r], sessionRows)
        BY <2>6, ReportIs
      <3>2. ReportHeld(new, sessionRows)
        BY <1>1, <2>4, <3>1 DEF ReportHeld
      <3>3. reports'[i] = new \/ reports'[i] = reports[i]
        BY <2>2, <2>5, <2>6
      <3> QED BY <2>1, <3>1, <3>2, <3>3, ReportKept DEF Grows
    <2> QED BY <2>1, <2>6, <2>7, GrowsKeeps
  <1>10. Enqueue(t, {<<"PUBLIC", RequesterPublic(t, s.channel)>>,
                     <<"PRIVATE", RequesterPrivate(t, t.user, s.channel)>>,
                     <<"INTERNAL", OperatorQueue(t.queue, s.channel)>>})
    BY <1>1 DEF Acknowledge
  <1>11. /\ MayGo(t.user, "PUBLIC", RequesterPublic(t, s.channel))
         /\ MayGo(t.user, "PRIVATE", RequesterPrivate(t, t.user, s.channel))
         /\ MayGo(t.user, "INTERNAL", OperatorQueue(t.queue, s.channel))
    BY <1>1, <1>2, Addresses
  <1>12. NoticesHeld'
    BY <1>1, <1>8, <1>10, <1>11, Sends
  <1> QED BY <1>9, <1>12

LEMMA OperatorActsKeeps ==
    ASSUME Held, NEW r \in DOMAIN reports, NEW m \in Spoken, OperatorActs(r, m)
    PROVE  Held' /\ NoticesHeld'
  <1>1. PICK t \in ReportRecord : t = reports[r] /\ t.user \in AllUsers
    BY ReportIs
  <1>2. UNCHANGED accountVars /\ UNCHANGED reports
    BY DEF OperatorActs
  <1>3. Enqueue(t, {<<"INTERNAL", ActionOrigin(m.by[1], m.id)>>,
                    <<"PUBLIC", RequesterPublic(t, m.by[1])>>,
                    <<"PRIVATE", RequesterPrivate(t, t.user, m.by[1])>>})
    BY <1>1 DEF OperatorActs
  <1>4. PICK k : k = Find(m.by[1], m.id)
    OBVIOUS
  <1>5. k # 0 /\ conversations[k].purpose # "REQUESTER"
    BY <1>4 DEF OperatorActs
  <1>6. MayGo(t.user, "INTERNAL", ActionOrigin(m.by[1], m.id))
    BY <1>4, <1>5, ReceiptIs DEF MayGo, NoticeHeld
  <1>7. /\ MayGo(t.user, "PUBLIC", RequesterPublic(t, m.by[1]))
        /\ MayGo(t.user, "PRIVATE", RequesterPrivate(t, t.user, m.by[1]))
    BY <1>1, Addresses
  <1>8. NoticesHeld'
    BY <1>1, <1>2, <1>3, <1>6, <1>7, Sends
  <1> QED BY <1>2, <1>8, AddressesStand

LEMMA OperatorCallsKeeps ==
    ASSUME Held, NEW r \in DOMAIN reports, NEW m \in Spoken, OperatorCalls(r, m.by)
    PROVE  Held' /\ NoticesHeld'
  <1>1. PICK t \in ReportRecord : t = reports[r] /\ t.user \in AllUsers
    BY ReportIs
  <1>2. UNCHANGED accountVars /\ UNCHANGED reports
    BY DEF OperatorCalls
  <1>3. Enqueue(t, {<<"PUBLIC", RequesterPublic(t, "wecom")>>,
                    <<"PRIVATE", RequesterPrivate(t, t.user, "wecom")>>})
    BY <1>1 DEF OperatorCalls
  <1>4. /\ MayGo(t.user, "PUBLIC", RequesterPublic(t, "wecom"))
        /\ MayGo(t.user, "PRIVATE", RequesterPrivate(t, t.user, "wecom"))
    BY <1>1, Addresses
  <1>5. NoticesHeld'
    BY <1>1, <1>2, <1>3, <1>4, Sends
  <1> QED BY <1>2, <1>5, AddressesStand

LEMMA RequesterAnswersKeeps ==
    ASSUME Held, NEW r \in DOMAIN reports, NEW s \in sessionRows, NEW confirmed \in BOOLEAN,
           RequesterAnswers(r, s, confirmed)
    PROVE  Held' /\ NoticesHeld'
  <1>1. PICK t \in ReportRecord : t = reports[r] /\ t.user \in AllUsers
    BY ReportIs
  <1>2. UNCHANGED accountVars /\ UNCHANGED reports
    BY DEF RequesterAnswers
  <1>3. PICK channel : channel = IF confirmed THEN s.channel ELSE ""
    OBVIOUS
  <1>4. PICK to : to = IF confirmed THEN RequesterPrivate(t, t.user, s.channel) ELSE NoTarget
    OBVIOUS
  <1>5. Enqueue(t, {<<"PUBLIC", RequesterPublic(t, channel)>>, <<"PRIVATE", to>>,
                    <<"INTERNAL", OperatorQueue(t.queue, s.channel)>>})
    BY <1>1, <1>3, <1>4 DEF RequesterAnswers
  <1>6. /\ MayGo(t.user, "PUBLIC", RequesterPublic(t, channel))
        /\ MayGo(t.user, "PRIVATE", RequesterPrivate(t, t.user, s.channel))
        /\ MayGo(t.user, "INTERNAL", OperatorQueue(t.queue, s.channel))
    BY <1>1, Addresses
  <1>7. MayGo(t.user, "PRIVATE", to)
    BY <1>4, <1>6 DEF MayGo
  <1>8. NoticesHeld'
    BY <1>1, <1>2, <1>5, <1>6, <1>7, Sends
  <1> QED BY <1>2, <1>8, AddressesStand

LEMMA ApprovalStepKeeps ==
    ASSUME Held, NEW r \in DOMAIN reports, NEW m \in Spoken, NEW closes \in BOOLEAN, ApprovalStep(r, m, closes)
    PROVE  Held' /\ NoticesHeld'
  <1>1. PICK t \in ReportRecord : t = reports[r] /\ t.user \in AllUsers
    BY ReportIs
  <1>2. UNCHANGED accountVars /\ UNCHANGED reports
    BY DEF ApprovalStep
  <1>3. PICK k : k = Find(m.by[1], m.id)
    OBVIOUS
  <1>4. k # 0 /\ conversations[k].purpose # "REQUESTER"
    BY <1>3 DEF ApprovalStep
  <1>5. PICK receipt : receipt = ActionOrigin(m.by[1], m.id)
    OBVIOUS
  <1>6. MayGo(t.user, "INTERNAL", receipt)
    BY <1>3, <1>4, <1>5, ReceiptIs DEF MayGo, NoticeHeld
  <1>7. PICK channel : channel = IF closes THEN m.by[1] ELSE ""
    OBVIOUS
  <1>8. PICK word : word = IF closes THEN RequesterPublic(t, "") ELSE NoTarget
    OBVIOUS
  <1>9. MayGo(t.user, "INTERNAL", Approver) /\ MayGo(t.user, "INTERNAL", OperatorQueue(t.queue, channel))
    BY <1>1, Addresses
  <1>10. MayGo(t.user, "PUBLIC", word)
    <2>1. MayGo(t.user, "PUBLIC", RequesterPublic(t, ""))
      BY <1>1, Addresses
    <2> QED BY <1>8, <2>1 DEF MayGo
  <1>11. \/ Enqueue(t, {<<"INTERNAL", receipt>>} \cup {<<"INTERNAL", Approver>>})
         \/ Enqueue(t, {<<"INTERNAL", receipt>>} \cup
                       {<<"INTERNAL", OperatorQueue(t.queue, channel)>>, <<"PUBLIC", word>>})
    BY <1>1, <1>5, <1>7, <1>8 DEF ApprovalStep
  <1>12. NoticesHeld'
    <2>1. CASE Enqueue(t, {<<"INTERNAL", receipt>>} \cup {<<"INTERNAL", Approver>>})
      BY <1>1, <1>2, <1>6, <1>9, <2>1, Sends
    <2>2. CASE Enqueue(t, {<<"INTERNAL", receipt>>} \cup
                          {<<"INTERNAL", OperatorQueue(t.queue, channel)>>, <<"PUBLIC", word>>})
      BY <1>1, <1>2, <1>6, <1>9, <1>10, <2>2, Sends
    <2> QED BY <1>11, <2>1, <2>2
  <1> QED BY <1>2, <1>12, AddressesStand

-----------------------------------------------------------------------------
(* Invariance                                                                *)

LEMMA TargetsStarts == TargetsInit => TargetsInv
  <1> SUFFICES ASSUME TargetsInit PROVE TargetsInv
    OBVIOUS
  <1>1. /\ identities = [i \in Identities |-> NoUser] /\ sessionRows = {}
        /\ conversations = Seed /\ reports = <<>> /\ notices = {}
    BY LoadedFresh DEF TargetsInit, AccountsInit
  <1>2. Shapes
    <2>1. identities \in [Identities -> AllUsers \cup {NoUser}]
      BY <1>1
    <2>2. reports \in Seq(ReportRecord)
      BY <1>1
    <2>3. sessionRows \in SUBSET Session
      BY <1>1
    <2> QED BY <1>1, <2>1, <2>2, <2>3, SeedIsSound DEF Shapes
  <1>3. SessionsHeld /\ NoticesHeld
    BY <1>1 DEF SessionsHeld, NoticesHeld
  <1>4. ReportsHeld
    BY <1>1 DEF ReportsHeld
  <1> QED BY <1>2, <1>3, <1>4 DEF TargetsInv, Held

LEMMA TargetsInductive == TargetsInv /\ [TargetsNext]_targetVars => TargetsInv'
  <1> SUFFICES ASSUME TargetsInv, [TargetsNext]_targetVars PROVE TargetsInv'
    OBVIOUS
  <1>1. Held /\ NoticesHeld
    BY DEF TargetsInv
  <1>2. ASSUME NEW m \in Spoken, Talk(m) \/ Report(m) PROVE TargetsInv'
    BY <1>1, <1>2, TalkKeeps, ReportKeeps DEF TargetsInv
  <1>3. ASSUME NEW r \in DOMAIN reports, NEW s \in sessionRows,
               Acknowledge(r, s) \/ \E confirmed \in BOOLEAN : RequesterAnswers(r, s, confirmed)
        PROVE  TargetsInv'
    BY <1>1, <1>3, AcknowledgeKeeps, RequesterAnswersKeeps DEF TargetsInv
  <1>4. ASSUME NEW r \in DOMAIN reports, NEW m \in Spoken,
               \/ OperatorActs(r, m) \/ OperatorCalls(r, m.by)
               \/ \E closes \in BOOLEAN : ApprovalStep(r, m, closes)
        PROVE  TargetsInv'
    BY <1>1, <1>4, OperatorActsKeeps, OperatorCallsKeeps, ApprovalStepKeeps DEF TargetsInv
  <1>5. ASSUME \/ LoadSeed
               \/ \E b \in Bindable : BindIdentity(b[1], b[2])
               \/ \E g \in Staff : EnsureRole(g[1], g[2])
               \/ \E row \in Registered : RegisterConversation(row),
               notices' = {}, UNCHANGED reports
        PROVE  TargetsInv'
    <2>1. Grows
      BY <1>1, <1>5, AdministrationIs
    <2>2. reports' \in Seq(ReportRecord) /\ \A r \in DOMAIN reports' : ReportHeld(reports'[r], sessionRows')
      <3>1. reports' = reports /\ reports \in Seq(ReportRecord)
        BY <1>1, <1>5 DEF Held, Shapes
      <3> QED BY <1>1, <2>1, <3>1, ReportIs, ReportKept DEF Grows
    <2>3. Held'
      BY <1>1, <2>1, <2>2, GrowsKeeps
    <2>4. NoticesHeld'
      BY <1>5 DEF NoticesHeld
    <2> QED BY <2>3, <2>4 DEF TargetsInv
  <1>6. CASE UNCHANGED targetVars
    <2>1. UNCHANGED <<accountVars, reports>> /\ notices' = notices
      BY <1>6 DEF targetVars
    <2>2. /\ Held' /\ identities' = identities /\ conversations' = conversations /\ sessionRows' = sessionRows
      BY <1>1, <2>1, AddressesStand
    <2>3. NoticesHeld'
      BY <1>1, <2>1, <2>2 DEF NoticesHeld
    <2> QED BY <2>2, <2>3 DEF TargetsInv
  <1> QED BY <1>2, <1>3, <1>4, <1>5, <1>6 DEF TargetsNext

LEMMA TargetsInvariance == TargetsSpec => []TargetsInv
  BY TargetsStarts, TargetsInductive, PTL DEF TargetsSpec

\* The tables and the notices keep their shapes, for any seed, people and places.
THEOREM TargetsTypeCorrect == TargetsSpec => []TargetsTypeOK
  <1>1. TargetsInv => TargetsTypeOK
    <2> SUFFICES ASSUME TargetsInv PROVE TargetsTypeOK
      OBVIOUS
    <2>1. Held /\ NoticesHeld /\ identities \in [Identities -> AllUsers \cup {NoUser}]
      BY DEF TargetsInv, Held, Shapes
    <2>2. \A k \in DOMAIN conversations : conversations[k] \in Row
      BY <2>1, SoundIs DEF Held, Shapes
    <2>3. \A k \in DOMAIN reports : reports[k].user \in AllUsers
      BY <2>1, ReportIs
    <2>4. \A n \in notices : n.visibility \in {"PUBLIC", "PRIVATE", "INTERNAL"} /\ n.user \in AllUsers
      BY <2>1 DEF NoticesHeld, NoticeHeld
    <2> QED BY <2>1, <2>2, <2>3, <2>4 DEF TargetsTypeOK
  <1> QED BY <1>1, TargetsInvariance, PTL

\* "PRIVATE: requester DM only": whatever channel a private notice goes out on, its
\* address is an identity of the ticket's own user.  No session is without one:
\* that is why the resolver never takes a conversation's id for a user's.
THEOREM PrivateToOwnerHolds == TargetsSpec => []PrivateToOwner
  <1>1. TargetsInv => PrivateToOwner
    BY DEF TargetsInv, NoticesHeld, NoticeHeld, OwnAddress, PrivateToOwner
  <1> QED BY <1>1, TargetsInvariance, PTL

\* The row of an address is the one row that has its key.
LEMMA RowOfIs ==
    ASSUME Held, NEW to, NEW k \in 1..Len(conversations),
           conversations[k].channel = to.channel, conversations[k].id = to.id
    PROVE  RowOf(to) = conversations[k]
  <1>1. conversations \in Seq(Row) /\ Keys(conversations)
    BY DEF Held, Shapes, Sound
  <1>2. Find(to.channel, to.id) = k
    BY <1>1, AtRow, FindIs
  <1> QED BY <1>2 DEF RowOf

\* "INTERNAL: operator / approver only": no internal notice goes to a requester's
\* conversation or to a user, for any seed and registrations.
THEOREM InternalToStaffHolds == TargetsSpec => []InternalToStaff
  <1>1. TargetsInv => InternalToStaff
    <2> SUFFICES ASSUME TargetsInv, NEW n \in notices, n.visibility = "INTERNAL"
                 PROVE  n.to.kind = "conversation" /\ RowOf(n.to).purpose \in {"OPERATOR", "APPROVAL"}
      BY DEF InternalToStaff
    <2>1. Held /\ StaffPlace(n.to, conversations)
      BY DEF TargetsInv, NoticesHeld, NoticeHeld
    <2>2. PICK k \in 1..Len(conversations) :
              /\ conversations[k].channel = n.to.channel /\ conversations[k].id = n.to.id
              /\ conversations[k].purpose \in {"OPERATOR", "APPROVAL"}
      BY <2>1 DEF StaffPlace
    <2>3. RowOf(n.to) = conversations[k]
      BY <2>1, <2>2, RowOfIs
    <2> QED BY <2>1, <2>2, <2>3 DEF StaffPlace
  <1> QED BY <1>1, TargetsInvariance, PTL

\* A public notice goes to a conversation that is enabled and is the requesters',
\* or is known by an id under which its own user has written, for any seed,
\* registrations and names the clients of the API choose.  Every fallback of the
\* resolver asks for one of the two: the lookup by queue and channel for the
\* purpose, the others for where the ticket or the message came from.
THEOREM PublicToRequestersHolds == TargetsSpec => []PublicToRequesters
  <1>1. TargetsInv => PublicToRequesters
    <2> SUFFICES ASSUME TargetsInv, NEW n \in notices, n.visibility = "PUBLIC"
                 PROVE  /\ n.to.kind = "conversation" /\ InUse(RowOf(n.to))
                        /\ \/ RowOf(n.to).purpose = "REQUESTER"
                           \/ \E s \in SessionsOf(n.user) : s.id = n.to.id
      BY Zenon DEF PublicToRequesters, InUse
    <2>1. Held /\ RequestersPlace(n.user, n.to, conversations, sessionRows)
      BY DEF TargetsInv, NoticesHeld, NoticeHeld
    <2>2. PICK k \in 1..Len(conversations) :
              /\ conversations[k].channel = n.to.channel /\ conversations[k].id = n.to.id
              /\ InUse(conversations[k])
              /\ \/ conversations[k].purpose = "REQUESTER"
                 \/ \E s \in sessionRows : s.user = n.user /\ s.id = n.to.id
      BY <2>1 DEF RequestersPlace
    <2>3. RowOf(n.to) = conversations[k]
      BY <2>1, <2>2, RowOfIs
    <2>4. n.to.kind = "conversation"
      BY <2>1 DEF RequestersPlace
    <2> QED BY <2>2, <2>3, <2>4 DEF SessionsOf
  <1> QED BY <1>1, TargetsInvariance, PTL
=============================================================================
