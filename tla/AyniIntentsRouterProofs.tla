------------------------ MODULE AyniIntentsRouterProofs ------------------------
(* Theorems about the intents router: its cursors, its quote requests, and the *)
(* way of an event from the chain's log through batch and channel to what the  *)
(* service knows of the claim.                                                 *)
EXTENDS AyniIntentsRouter, SequenceTheorems, FiniteSetTheorems, TLAPS

\* The poller fetches a batch behind the head it has seen, and the file is never
\* ahead of what was sent.
CursorsSound ==
  /\ blocks \in Seq(Events)
  /\ {cursor_file, cursor, latest, to, startedAt} \subseteq Nat
  /\ pollerAt \in {"poll", "fetch", "send"}
  /\ up => cursor_file <= cursor /\ startedAt <= cursor
  /\ pollerAt # "poll" => up /\ cursor < latest /\ latest <= Len(blocks)
  /\ pollerAt = "send" => cursor < to /\ to <= latest

\* One quote request at a time, and for an intent that is still open.
RequestsSound ==
  /\ intents \in [Claims -> IntentLifecycle \cup {"Untracked"}]
  /\ handling \in Claims \cup {NoOrder}
  /\ handling # NoOrder => up /\ intents[handling] = "Open"

\* A claim's Open is the first event about it.
OpensFirst(s) ==
  \A i, j \in 1 .. Len(s) : i < j /\ s[j].kind = "Open" => s[i].order # s[j].order

ChainSound ==
  /\ ChainTypeOK
  /\ OpensFirst(blocks)
  /\ \A i \in 1 .. Len(blocks) : blocks[i].block = i
  /\ \A i \in 1 .. Len(blocks) : status[blocks[i].order] # "NONE"

\* A run's piece of the log starts after the block it began with and ends behind
\* the head, or is empty.
Within(a, b) == a \in Nat /\ b \in Nat /\ (b <= Len(blocks) \/ b = a)

\* How far the run has fetched.
Reach == IF pollerAt = "send" THEN to ELSE cursor

\* What has been scanned was handled, or waits in the channel or in the poller, in
\* that order; what was handled is mirrored.
FlowsThrough(h) ==
  Scanned = h \o (channel \o logs) /\ \A o \in Claims : Mirrors(h, o)

FlowSound ==
  /\ logs \in Seq(Events) /\ channel \in Seq(Events) /\ Len(channel) <= ChannelSize
  /\ pollerAt # "send" => logs = <<>>
  /\ Within(startedAt, cursor) /\ startedAt <= cursor
  /\ ~up => startedAt = cursor /\ logs = <<>> /\ channel = <<>> /\ intents = NothingTracked
  /\ \E h \in Seq(Events) : FlowsThrough(h)

\* From where on every event has been put into the channel, or waits to be put there:
\* where the run began, or where the run did that first saved a cursor.
SentFrom == IF cursor_file = 0 THEN startedAt ELSE origin
Waiting == {logs[i].block : i \in DOMAIN logs}
NoneSkipped ==
  \A n \in SentFrom + 1 .. Reach : IsWatched(blocks[n]) => n \in sent \cup Waiting

SentSound ==
  /\ sent \subseteq Nat /\ origin \in Nat
  /\ cursor_file <= Len(blocks)
  /\ SavedWasSent
  /\ up => Within(SentFrom, Reach) /\ NoneSkipped

\* The rest of the service's state has its types.
ServiceTypes ==
  /\ up \in BOOLEAN /\ crashes \in 0 .. MaxCrashes
  /\ lapsed \subseteq Claims
  /\ wsAt \in {"off", "connecting", "listening", "refused"}
  /\ wsChannel \in 0 .. WsChannelSize

\* The inductive invariant.
RouterInv ==
  /\ ChainSound /\ CursorsSound /\ RequestsSound /\ FlowSound /\ SentSound
  /\ ServiceTypes /\ handled \subseteq Nat
-----------------------------------------------------------------------------
(* The chain *)

LEMMA ChainGrows ==
  ASSUME blocks \in Seq(Events), ChainNext
  PROVE  blocks' \in Seq(Events) /\ Len(blocks) \in Nat /\ Len(blocks') = Len(blocks) + 1
<1>1. PICK o \in Claims, kind \in EventKinds : Emit(kind, o)
  BY DEF ChainNext, open, borrow_from_pool, fill, cancel_claim, transfer_claim,
         repay_in_full, repay_in_part, liquidate_claim, EventKinds
<1>2. PICK e : e = [kind |-> kind, order |-> o, block |-> Len(blocks) + 1]
  OBVIOUS
<1>3. Len(blocks) + 1 \in Nat \ {0}
  BY LenProperties
<1>4. e \in Events /\ blocks' = Append(blocks, e)
  BY <1>1, <1>2, <1>3 DEF Emit, Events
<1>5. QED
  BY <1>4, AppendProperties, LenProperties

-----------------------------------------------------------------------------
(* The cursors *)

LEMMA CursorFacts ==
  ASSUME CursorsSound
  PROVE  /\ cursor_file \in Nat /\ cursor \in Nat /\ latest \in Nat /\ to \in Nat
         /\ startedAt \in Nat /\ Len(blocks) \in Nat
         /\ BatchSize \in Nat \ {0} /\ StartBlock \in Nat /\ Lookback \in Nat
BY SizesAssumption, LenProperties DEF CursorsSound

\* Where a run begins: at the file's block, or with no file anywhere.
LEMMA StartCursor ==
  ASSUME CursorsSound, NEW c \in StartCursors
  PROVE  c \in Nat /\ cursor_file <= c
BY CursorFacts DEF StartCursors

LEMMA CursorsStand ==
  ASSUME CursorsSound, UNCHANGED <<up, cursor_file, poller, blocks>>
  PROVE  CursorsSound'
BY DEF CursorsSound, poller

LEMMA StartCursorsSound ==
  ASSUME CursorsSound, Start
  PROVE  CursorsSound'
<1>1. PICK c \in StartCursors : cursor' = c /\ startedAt' = c
  BY DEF Start
<1>2. /\ ~up /\ up' = TRUE /\ UNCHANGED <<cursor_file, pollerAt, latest, to, blocks>>
  BY DEF Start, world
<1>3. pollerAt = "poll"
  BY <1>2 DEF CursorsSound
<1>4. c \in Nat /\ cursor_file <= c
  BY StartCursor
<1>5. c <= c
  BY <1>4
<1>6. QED
  BY <1>1, <1>2, <1>3, <1>4, <1>5 DEF CursorsSound

LEMMA CrashCursors ==
  ASSUME CursorsSound, Crash
  PROVE  CursorsSound'
BY DEF CursorsSound, Crash, world

LEMMA PollerStep ==
  ASSUME CursorsSound, run_evm_poller
  PROVE  CursorsSound'
<1>1. CASE get_block_number
  <2>1. Len(blocks) > cursor /\ latest' = Len(blocks) /\ pollerAt' = "fetch" /\ up
        /\ UNCHANGED <<up, cursor_file, cursor, to, startedAt, blocks>>
    BY <1>1 DEF get_block_number, BehindHead, service, world
  <2>2. QED
    BY <2>1, CursorFacts DEF CursorsSound
<1>2. CASE get_logs
  <2>1. /\ up /\ pollerAt = "fetch" /\ pollerAt' = "send"
        /\ to' = Nearer(cursor + BatchSize, latest)
        /\ UNCHANGED <<up, cursor_file, cursor, latest, startedAt, blocks>>
    BY <1>2 DEF get_logs, service, world
  <2>2. cursor < latest
    BY <2>1 DEF CursorsSound
  <2>3. to' \in Nat /\ cursor < to' /\ to' <= latest
    <3>1. PICK t : t = to'
      OBVIOUS
    <3>2. t \in Nat /\ cursor < t /\ t <= latest
      BY <2>1, <2>2, <3>1, CursorFacts DEF Nearer
    <3>3. QED
      BY <3>1, <3>2
  <2>4. QED
    BY <2>1, <2>2, <2>3 DEF CursorsSound
<1>3. CASE send
  BY <1>3 DEF send, CursorsSound, service, world
<1>4. CASE write_last_block
  <2>1. /\ up /\ pollerAt = "send" /\ cursor' = to /\ cursor_file' \in {cursor_file, to}
        /\ pollerAt' = IF to < latest THEN "fetch" ELSE "poll"
        /\ UNCHANGED <<up, latest, to, startedAt, blocks>>
    BY <1>4 DEF write_last_block, SaveCursor, world
  <2>2. cursor < to /\ cursor_file <= cursor /\ startedAt <= cursor
    BY <2>1 DEF CursorsSound
  <2>3. cursor_file <= to /\ to <= to /\ startedAt <= to
    BY <2>2, CursorFacts
  <2>4. QED
    BY <2>1, <2>3 DEF CursorsSound
<1>5. QED
  BY <1>1, <1>2, <1>3, <1>4 DEF run_evm_poller

LEMMA CursorsNext ==
  ASSUME CursorsSound, [Next]_vars
  PROVE  CursorsSound'
<1>1. CASE ChainStep
  <2>1. blocks' \in Seq(Events) /\ Len(blocks) \in Nat /\ Len(blocks') = Len(blocks) + 1
    BY <1>1, ChainGrows DEF ChainStep, CursorsSound
  <2>2. latest <= Len(blocks) => latest <= Len(blocks')
    BY <2>1, CursorFacts
  <2>3. UNCHANGED <<up, cursor_file, cursor, latest, to, startedAt, pollerAt>>
    BY <1>1 DEF ChainStep, service, poller
  <2>4. QED
    BY <2>1, <2>2, <2>3 DEF CursorsSound
<1>2. CASE HandleEvent \/ publish_quote_request \/ handle_quote_request
  <2>1. UNCHANGED <<service, poller, world>>
    BY <1>2 DEF HandleEvent, handle_open, handle_lifecycle, publish_quote_request,
                handle_quote_request
  <2>2. QED
    BY <2>1, CursorsStand DEF service, world
<1>3. CASE connect_ws \/ WsInvalidKey \/ WsClosed \/ handle_ws_message
  BY <1>3, CursorsStand DEF connect_ws, WsInvalidKey, WsClosed, handle_ws_message, WsMoves,
                            service, world
<1>4. CASE DeadlinePasses \/ UNCHANGED vars
  BY <1>4, CursorsStand DEF DeadlinePasses, vars, service, world
<1>5. QED
  BY <1>1, <1>2, <1>3, <1>4, StartCursorsSound, CrashCursors, PollerStep DEF Next

-----------------------------------------------------------------------------
(* The quote requests *)

LEMMA LifecycleTypes ==
  ASSUME RequestsSound, NEW o \in Claims, NEW l \in IntentLifecycle \cup {"Untracked"},
         SetLifecycle(o, l)
  PROVE  intents' \in [Claims -> IntentLifecycle \cup {"Untracked"}] /\ intents'[o] = l
BY DEF RequestsSound, SetLifecycle

LEMMA HeadIsEvent ==
  ASSUME channel \in Seq(Events), channel # <<>>
  PROVE  Head(channel) \in Events /\ Head(channel).order \in Claims
<1>1. Head(channel) \in Events
  BY HeadTailProperties
<1>2. QED
  BY <1>1 DEF Events

LEMMA RequestsNext ==
  ASSUME RequestsSound, channel \in Seq(Events), [Next]_vars
  PROVE  RequestsSound'
<1>1. NoOrder \notin Claims
  BY SizesAssumption
<1>2. CASE handle_open
  <2>1. PICK o :
          /\ o = Head(channel).order
          /\ \/ handle_open_already_tracked(o)
             \/ handle_open_expired(o)
             \/ handle_open_publish(o)
    BY <1>2 DEF handle_open
  <2>2. handling = NoOrder /\ up /\ up' = up /\ o \in Claims
    <3>1. handling = NoOrder /\ up /\ up' = up /\ channel # <<>>
      BY <1>2 DEF Receive, Idle, handle_open, service
    <3>2. QED
      BY <2>1, <3>1, HeadIsEvent
  <2>3. CASE handle_open_already_tracked(o)
    BY <2>2, <2>3 DEF handle_open_already_tracked, RequestsSound
  <2>4. CASE handle_open_expired(o)
    <3>1. intents' \in [Claims -> IntentLifecycle \cup {"Untracked"}] /\ handling' = handling
      BY <2>2, <2>4, LifecycleTypes DEF handle_open_expired, IntentLifecycle
    <3>2. QED
      BY <2>2, <3>1 DEF RequestsSound
  <2>5. CASE handle_open_publish(o)
    <3>1. /\ intents' \in [Claims -> IntentLifecycle \cup {"Untracked"}]
          /\ intents'[o] = "Open" /\ handling' = o
      BY <2>2, <2>5, LifecycleTypes DEF handle_open_publish, IntentLifecycle
    <3>2. QED
      BY <2>2, <3>1 DEF RequestsSound
  <2>6. QED
    BY <2>1, <2>3, <2>4, <2>5
<1>3. CASE handle_lifecycle
  <2>1. PICK o, kind :
          /\ o = Head(channel).order /\ kind = Head(channel).kind /\ kind \in LifecycleEvents
          /\ SetLifecycle(o, Updated(o, kind))
    BY <1>3 DEF handle_lifecycle
  <2>2. handling = NoOrder /\ handling' = handling /\ o \in Claims
    <3>1. handling = NoOrder /\ handling' = handling /\ channel # <<>>
      BY <1>3 DEF Receive, Idle, handle_lifecycle
    <3>2. QED
      BY <2>1, <3>1, HeadIsEvent
  <2>3. Updated(o, kind) \in IntentLifecycle \cup {"Untracked"}
    BY <2>1 DEF Updated, IntentLifecycle, LifecycleEvents
  <2>4. intents' \in [Claims -> IntentLifecycle \cup {"Untracked"}]
    BY <2>1, <2>2, <2>3, LifecycleTypes
  <2>5. QED
    BY <2>2, <2>4 DEF RequestsSound
<1>4. CASE publish_quote_request
  <2>1. /\ handling \in Claims /\ handling' = NoOrder
        /\ intents' \in {intents, [intents EXCEPT ![handling] = "PublishedToNear"]}
    BY <1>4 DEF publish_quote_request, RequestsSound
  <2>2. intents' \in [Claims -> IntentLifecycle \cup {"Untracked"}]
    BY <2>1 DEF RequestsSound, IntentLifecycle
  <2>3. QED
    BY <2>1, <2>2 DEF RequestsSound
<1>5. CASE Crash
  <2>1. /\ intents' = [o \in Claims |-> "Untracked"] /\ handling' = NoOrder
    BY <1>5 DEF Crash, NothingTracked
  <2>2. QED
    BY <2>1 DEF RequestsSound
\* Nothing else touches the intents or the request.
<1>6. ASSUME UNCHANGED router, up => up'
      PROVE  RequestsSound'
  BY <1>6 DEF router, RequestsSound
<1>7. CASE Start
  BY <1>6, <1>7 DEF Start
<1>8. CASE run_evm_poller
  BY <1>6, <1>8 DEF run_evm_poller, get_block_number, get_logs, send, write_last_block, service
<1>9. CASE handle_quote_request \/ connect_ws \/ WsInvalidKey \/ WsClosed \/ handle_ws_message
  BY <1>6, <1>9 DEF handle_quote_request, connect_ws, WsInvalidKey, WsClosed,
                    handle_ws_message, WsMoves, service
<1>10. CASE DeadlinePasses \/ ChainStep \/ UNCHANGED vars
  BY <1>6, <1>10 DEF DeadlinePasses, ChainStep, vars, service
<1>11. QED
  BY <1>2, <1>3, <1>4, <1>5, <1>7, <1>8, <1>9, <1>10 DEF Next, HandleEvent

-----------------------------------------------------------------------------
(* The topic filter *)

\* Ranks number the members of a finite set of naturals in their order.
LEMMA RankStep ==
  ASSUME NEW P \in SUBSET Nat, IsFiniteSet(P), NEW i \in P
  PROVE  /\ Rank(P, i) \in 1 .. Cardinality(P)
         /\ \A j \in P : i < j => Rank(P, i) < Rank(P, j)
<1> DEFINE Upto(k) == {j \in P : j <= k}
<1>1. \A k : Upto(k) \in SUBSET P
  OBVIOUS
<1>2. \A k : IsFiniteSet(Upto(k)) /\ Cardinality(Upto(k)) \in Nat
              /\ Cardinality(Upto(k)) <= Cardinality(P)
  BY <1>1, FS_Subset, FS_CardinalityType
<1>3. i \in Upto(i)
  OBVIOUS
<1>4. Cardinality(Upto(i)) # 0
  BY <1>2, <1>3, FS_EmptySet
<1>5. Cardinality(P) \in Nat
  BY FS_CardinalityType
<1>6. ASSUME NEW j \in P, i < j
      PROVE  Cardinality(Upto(i)) < Cardinality(Upto(j))
  <2>1. Upto(i) \in SUBSET Upto(j) /\ j \in Upto(j) /\ j \notin Upto(i)
    <3>1. i \in Nat /\ j \in Nat
      OBVIOUS
    <3>2. ~(j <= i) /\ \A m \in Nat : m <= i => m <= j
      BY <1>6, <3>1
    <3>3. j <= j
      BY <3>1
    <3>4. QED
      BY <3>1, <3>2, <3>3
  <2> HIDE DEF Upto
  <2>2. IsFiniteSet(Upto(j)) /\ Upto(j) # Upto(i)
    BY <1>2, <2>1
  <2>3. Cardinality(Upto(i)) <= Cardinality(Upto(j)) /\ Cardinality(Upto(j)) # Cardinality(Upto(i))
    BY <2>1, <2>2, FS_Subset
  <2>4. QED
    BY <1>2, <2>3
<1> HIDE DEF Upto
<1>7. \A k : Rank(P, k) = Cardinality(Upto(k))
  BY DEF Rank, Upto
<1>8. Rank(P, i) \in 1 .. Cardinality(P)
  BY <1>2, <1>4, <1>5, <1>7
<1>9. QED
  BY <1>6, <1>7, <1>8

LEMMA RankOnto ==
  ASSUME NEW P \in SUBSET Nat, IsFiniteSet(P)
  PROVE  \A k \in 1 .. Cardinality(P) : \E i \in P : Rank(P, i) = k
<1> DEFINE n == Cardinality(P)
           rank == [i \in P |-> Rank(P, i)]
<1>1. n \in Nat
  BY FS_CardinalityType
<1>2. IsFiniteSet(1 .. n) /\ Cardinality(1 .. n) = n
  BY <1>1, FS_Interval
<1>3. rank \in [P -> 1 .. n]
  BY RankStep
<1>4. ASSUME NEW i \in P, NEW j \in P, rank[i] = rank[j]
      PROVE  i = j
  <2>1. i < j \/ j < i \/ i = j
    BY <1>4
  <2>2. rank[i] \in Nat /\ rank[j] \in Nat
    BY <1>3
  <2>3. i < j => rank[i] < rank[j]
    BY RankStep
  <2>4. j < i => rank[j] < rank[i]
    BY RankStep
  <2> HIDE DEF rank
  <2>5. QED
    BY <1>4, <2>1, <2>2, <2>3, <2>4
<1>5. rank \in Injection(P, 1 .. n)
  BY <1>3, <1>4 DEF Injection, IsInjective
<1>6. rank \in Surjection(P, 1 .. n)
  BY <1>2, <1>5, FS_Injection
<1>7. QED
  BY <1>6 DEF Surjection

\* The place in the log of the k-th event that passes.
Place(s, k) == CHOOSE i \in Kept(s) : Rank(Kept(s), i) = k

LEMMA KeptIsFinite ==
  ASSUME NEW s \in Seq(Events)
  PROVE  /\ Kept(s) \in SUBSET (1 .. Len(s)) /\ Kept(s) \in SUBSET Nat
         /\ IsFiniteSet(Kept(s)) /\ Cardinality(Kept(s)) \in Nat
<1>1. Len(s) \in Nat /\ DOMAIN s = 1 .. Len(s)
  BY LenProperties
<1>2. Kept(s) \in SUBSET (1 .. Len(s)) /\ Kept(s) \in SUBSET Nat
  BY <1>1 DEF Kept
<1>3. IsFiniteSet(1 .. Len(s))
  BY <1>1, FS_Interval
<1>4. QED
  BY <1>2, <1>3, FS_Subset, FS_CardinalityType

LEMMA Places ==
  ASSUME NEW s \in Seq(Events), NEW k \in 1 .. Cardinality(Kept(s))
  PROVE  Place(s, k) \in Kept(s) /\ Rank(Kept(s), Place(s, k)) = k
<1>1. \E i \in Kept(s) : Rank(Kept(s), i) = k
  BY KeptIsFinite, RankOnto
<1>2. QED
  BY <1>1 DEF Place

\* A rank belongs to one place only.
LEMMA PlaceOfRank ==
  ASSUME NEW s \in Seq(Events), NEW k \in 1 .. Cardinality(Kept(s)),
         NEW i \in Kept(s), Rank(Kept(s), i) = k
  PROVE  Place(s, k) = i
<1>1. PICK j : j = Place(s, k)
  OBVIOUS
<1>2. j \in Kept(s) /\ Rank(Kept(s), j) = k
  BY <1>1, Places
<1>3. i \in Nat /\ j \in Nat /\ k \in Nat
  BY <1>2, KeptIsFinite
<1>4. i < j => k < k
  BY <1>2, KeptIsFinite, RankStep
<1>5. j < i => k < k
  BY <1>2, KeptIsFinite, RankStep
<1>6. QED
  BY <1>1, <1>3, <1>4, <1>5

\* What passes keeps its order.
LEMMA PlacesAscend ==
  ASSUME NEW s \in Seq(Events), NEW k \in 1 .. Cardinality(Kept(s)),
         NEW m \in 1 .. Cardinality(Kept(s)), k < m
  PROVE  Place(s, k) < Place(s, m)
<1>1. PICK i, j : i = Place(s, k) /\ j = Place(s, m)
  OBVIOUS
<1>2. i \in Kept(s) /\ Rank(Kept(s), i) = k /\ j \in Kept(s) /\ Rank(Kept(s), j) = m
  BY <1>1, Places
<1>3. i \in Nat /\ j \in Nat /\ k \in Nat /\ m \in Nat
  BY <1>2, KeptIsFinite
<1>4. j < i => m < k
  BY <1>2, KeptIsFinite, RankStep
<1>5. i # j
  BY <1>2, <1>3
<1>6. QED
  BY <1>1, <1>3, <1>4, <1>5

LEMMA WatchedIs ==
  ASSUME NEW s \in Seq(Events)
  PROVE  /\ Watched(s) \in Seq(Events) /\ Len(Watched(s)) = Cardinality(Kept(s))
         /\ \A k \in 1 .. Cardinality(Kept(s)) : Watched(s)[k] = s[Place(s, k)]
<1> DEFINE n == Cardinality(Kept(s))
<1>1. Watched(s) = [k \in 1 .. n |-> s[Place(s, k)]]
  BY DEF Watched, Place
<1>2. \A k \in 1 .. n : s[Place(s, k)] \in Events
  BY Places, KeptIsFinite, ElementOfSeq
<1>3. n \in Nat
  BY KeptIsFinite
<1> HIDE DEF n
<1>4. Watched(s) \in [1 .. n -> Events]
  BY <1>1, <1>2
<1>5. Watched(s) \in Seq(Events) /\ Len(Watched(s)) = n
  <2>1. Watched(s) \in Seq(Events)
    BY <1>3, <1>4, SeqDef
  <2>2. DOMAIN Watched(s) = 1 .. n
    BY <1>1
  <2>3. Len(Watched(s)) \in Nat /\ DOMAIN Watched(s) = 1 .. Len(Watched(s))
    BY <2>1, LenProperties
  <2>4. QED
    BY <1>3, <2>1, <2>2, <2>3
<1>6. QED
  BY <1>1, <1>5 DEF n

\* What passes of a log that grows: the places of the new part come after.
Shifted(m, P) == {m + i : i \in P}

LEMMA ShiftKeepsSize ==
  ASSUME NEW m \in Nat, NEW P \in SUBSET Nat, IsFiniteSet(P)
  PROVE  IsFiniteSet(Shifted(m, P)) /\ Cardinality(Shifted(m, P)) = Cardinality(P)
<1> DEFINE f == [i \in P |-> m + i]
<1>1. f \in [P -> Shifted(m, P)]
  BY DEF Shifted
<1>2. \A i, j \in P : f[i] = f[j] => i = j
  OBVIOUS
<1>3. \A k \in Shifted(m, P) : \E i \in P : f[i] = k
  BY DEF Shifted
<1> HIDE DEF f
<1>4. f \in Bijection(P, Shifted(m, P))
  BY <1>1, <1>2, <1>3 DEF Bijection, Injection, IsInjective, Surjection
<1>5. ExistsBijection(P, Shifted(m, P))
  BY <1>4 DEF ExistsBijection
<1>6. QED
  BY <1>5, FS_Bijection

LEMMA KeptOfConcat ==
  ASSUME NEW s \in Seq(Events), NEW t \in Seq(Events)
  PROVE  /\ Kept(s \o t) = Kept(s) \cup Shifted(Len(s), Kept(t))
         /\ Kept(s) \cap Shifted(Len(s), Kept(t)) = {}
<1>1. PICK u, m, n : u = s \o t /\ m = Len(s) /\ n = Len(t)
  OBVIOUS
<1>2. /\ m \in Nat /\ DOMAIN s = 1 .. m /\ n \in Nat /\ DOMAIN t = 1 .. n
      /\ u \in Seq(Events) /\ Len(u) = m + n
      /\ \A i \in 1 .. m + n : u[i] = IF i <= m THEN s[i] ELSE t[i - m]
  BY <1>1, LenProperties, ConcatProperties
<1>3. DOMAIN u = 1 .. m + n
  BY <1>2, LenProperties
<1>4. ASSUME NEW i \in Kept(u)
      PROVE  i \in Kept(s) \cup Shifted(m, Kept(t))
  <2>1. i \in 1 .. m + n /\ IsWatched(u[i])
    BY <1>3 DEF Kept
  <2>2. CASE i <= m
    BY <1>2, <2>1, <2>2 DEF Kept
  <2>3. CASE ~(i <= m)
    <3>1. i - m \in 1 .. n /\ u[i] = t[i - m] /\ i = m + (i - m)
      BY <1>2, <2>1, <2>3
    <3>2. i - m \in Kept(t)
      BY <1>2, <2>1, <3>1 DEF Kept
    <3>3. QED
      BY <3>1, <3>2 DEF Shifted
  <2>4. QED
    BY <2>2, <2>3
<1>5. ASSUME NEW i \in Kept(s)
      PROVE  i \in Kept(u) /\ i \in 1 .. m
  <2>1. i \in 1 .. m /\ IsWatched(s[i])
    BY <1>2 DEF Kept
  <2>2. i \in 1 .. m + n /\ u[i] = s[i]
    BY <1>2, <2>1
  <2>3. QED
    BY <1>3, <2>1, <2>2 DEF Kept
<1>6. ASSUME NEW j \in Kept(t)
      PROVE  m + j \in Kept(u) /\ m + j \notin 1 .. m
  <2>1. j \in 1 .. n /\ IsWatched(t[j])
    BY <1>2 DEF Kept
  <2>2. m + j \in 1 .. m + n /\ m + j > m /\ (m + j) - m = j
    BY <1>2, <2>1
  <2>3. u[m + j] = t[j]
    BY <1>2, <2>2
  <2>4. QED
    BY <1>2, <1>3, <2>1, <2>2, <2>3 DEF Kept
<1>7. Kept(u) = Kept(s) \cup Shifted(m, Kept(t)) /\ Kept(s) \cap Shifted(m, Kept(t)) = {}
  BY <1>4, <1>5, <1>6 DEF Shifted
<1>8. QED
  BY <1>1, <1>7

\* Disjoint parts are counted one by one.
LEMMA SizesAdd ==
  ASSUME NEW P \in SUBSET Nat, IsFiniteSet(P), NEW Q \in SUBSET Nat, IsFiniteSet(Q),
         NEW m \in Nat, P \cap Shifted(m, Q) = {}
  PROVE  Cardinality(P \cup Shifted(m, Q)) = Cardinality(P) + Cardinality(Q)
<1>1. IsFiniteSet(Shifted(m, Q)) /\ Cardinality(Shifted(m, Q)) = Cardinality(Q)
  BY ShiftKeepsSize
<1>2. Cardinality(P \cap Shifted(m, Q)) = 0
  BY FS_EmptySet
<1>3. Cardinality(P) \in Nat /\ Cardinality(Q) \in Nat
  BY FS_CardinalityType
<1>4. Cardinality(P \cup Shifted(m, Q))
        = Cardinality(P) + Cardinality(Shifted(m, Q)) - Cardinality(P \cap Shifted(m, Q))
  BY <1>1, FS_Union
<1>5. QED
  BY <1>1, <1>2, <1>3, <1>4

LEMMA RankOfConcat ==
  ASSUME NEW m \in Nat, NEW K \in SUBSET (1 .. m), IsFiniteSet(K),
         NEW L \in SUBSET (Nat \ {0}), IsFiniteSet(L),
         K \cap Shifted(m, L) = {}
  PROVE  /\ \A i \in K : Rank(K \cup Shifted(m, L), i) = Rank(K, i)
         /\ \A j \in L : Rank(K \cup Shifted(m, L), m + j) = Cardinality(K) + Rank(L, j)
<1> DEFINE J == K \cup Shifted(m, L)
<1>1. ASSUME NEW i \in K
      PROVE  Rank(J, i) = Rank(K, i)
  <2>1. \A j \in L : ~(m + j <= i)
    OBVIOUS
  <2>2. {j \in J : j <= i} = {j \in K : j <= i}
    BY <2>1 DEF Shifted
  <2> HIDE DEF J
  <2>3. QED
    BY <2>2 DEF Rank
<1>2. ASSUME NEW j \in L
      PROVE  Rank(J, m + j) = Cardinality(K) + Rank(L, j)
  <2> DEFINE M == {i \in L : i <= j}
  <2>1. M \in SUBSET Nat /\ IsFiniteSet(M)
    BY FS_Subset
  <2>2. \A i \in K : i <= m + j
    OBVIOUS
  <2>3. \A i \in L : m + i <= m + j <=> i <= j
    OBVIOUS
  <2>4. {i \in J : i <= m + j} = K \cup Shifted(m, M)
    BY <2>2, <2>3 DEF Shifted
  <2>5. K \cap Shifted(m, M) = {}
    BY DEF Shifted
  <2>6. K \in SUBSET Nat
    OBVIOUS
  <2> HIDE DEF J, M
  <2>7. Cardinality(K \cup Shifted(m, M)) = Cardinality(K) + Cardinality(M)
    BY <2>1, <2>5, <2>6, SizesAdd
  <2>8. Rank(J, m + j) = Cardinality(K \cup Shifted(m, M)) /\ Rank(L, j) = Cardinality(M)
    BY <2>4 DEF Rank, M
  <2>9. QED
    BY <2>7, <2>8
<1>3. QED
  BY <1>1, <1>2

\* Batch by batch or all at once: the same events pass, in the same order.
LEMMA WatchedConcat ==
  ASSUME NEW s \in Seq(Events), NEW t \in Seq(Events)
  PROVE  Watched(s \o t) = Watched(s) \o Watched(t)
<1>1. PICK u, m, K, L, J : /\ u = s \o t /\ m = Len(s)
                           /\ K = Kept(s) /\ L = Kept(t) /\ J = Kept(u)
  OBVIOUS
<1>2. PICK p, q : p = Cardinality(K) /\ q = Cardinality(L)
  OBVIOUS
<1>3. u \in Seq(Events) /\ m \in Nat /\ Len(t) \in Nat /\ Len(u) = m + Len(t)
      /\ \A i \in 1 .. m + Len(t) : u[i] = IF i <= m THEN s[i] ELSE t[i - m]
  BY <1>1, ConcatProperties, LenProperties
<1>4. /\ K \in SUBSET (1 .. m) /\ K \in SUBSET Nat /\ IsFiniteSet(K) /\ p \in Nat
      /\ L \in SUBSET (1 .. Len(t)) /\ L \in SUBSET Nat /\ IsFiniteSet(L) /\ q \in Nat
  BY <1>1, <1>2, KeptIsFinite
<1>5. J = K \cup Shifted(m, L) /\ K \cap Shifted(m, L) = {}
  BY <1>1, KeptOfConcat
<1>6. Cardinality(J) = p + q
  BY <1>2, <1>3, <1>4, <1>5, SizesAdd
<1>7. L \in SUBSET (Nat \ {0})
  BY <1>4
<1>8. /\ \A i \in K : Rank(J, i) = Rank(K, i)
      /\ \A j \in L : Rank(J, m + j) = p + Rank(L, j)
  <2>1. /\ \A i \in K : Rank(K \cup Shifted(m, L), i) = Rank(K, i)
        /\ \A j \in L : Rank(K \cup Shifted(m, L), m + j) = Cardinality(K) + Rank(L, j)
    BY <1>3, <1>4, <1>5, <1>7, RankOfConcat
  <2>2. QED
    BY <1>2, <1>5, <2>1
<1>9. /\ Watched(u) \in Seq(Events) /\ Len(Watched(u)) = p + q
      /\ \A k \in 1 .. p + q : Watched(u)[k] = u[Place(u, k)]
  BY <1>1, <1>3, <1>6, WatchedIs
<1>10. /\ Watched(s) \in Seq(Events) /\ Len(Watched(s)) = p
       /\ \A k \in 1 .. p : Watched(s)[k] = s[Place(s, k)]
       /\ Watched(t) \in Seq(Events) /\ Len(Watched(t)) = q
       /\ \A k \in 1 .. q : Watched(t)[k] = t[Place(t, k)]
  BY <1>1, <1>2, WatchedIs
<1>11. PICK w : w = Watched(s) \o Watched(t)
  OBVIOUS
<1>12. /\ w \in Seq(Events) /\ Len(w) = p + q
       /\ \A k \in 1 .. p + q : w[k] = IF k <= p THEN Watched(s)[k] ELSE Watched(t)[k - p]
  <2>1. PICK a, b : a = Watched(s) /\ b = Watched(t)
    OBVIOUS
  <2>2. a \in Seq(Events) /\ b \in Seq(Events) /\ Len(a) = p /\ Len(b) = q
    BY <1>10, <2>1
  <2>3. /\ a \o b \in Seq(Events) /\ Len(a \o b) = Len(a) + Len(b)
        /\ \A k \in 1 .. Len(a) + Len(b) : (a \o b)[k] = IF k <= Len(a) THEN a[k] ELSE b[k - Len(a)]
    BY <2>2, ConcatProperties
  <2>4. QED
    BY <1>11, <2>1, <2>2, <2>3
<1>13. ASSUME NEW k \in 1 .. p + q
       PROVE  Watched(u)[k] = w[k]
  <2>1. CASE k <= p
    <3>1. k \in 1 .. p
      BY <1>4, <2>1
    <3>2. PICK i : i = Place(s, k)
      OBVIOUS
    <3>3. i \in K /\ Rank(K, i) = k
      BY <1>1, <1>2, <3>1, <3>2, Places
    <3>4. i \in J /\ Rank(J, i) = k
      BY <1>5, <1>8, <3>3
    <3>5. Place(u, k) = i
      BY <1>1, <1>3, <1>6, <3>4, PlaceOfRank
    <3>6. u[i] = s[i]
      BY <1>3, <1>4, <3>3
    <3>7. QED
      BY <1>9, <1>10, <1>12, <2>1, <3>1, <3>2, <3>5, <3>6
  <2>2. CASE ~(k <= p)
    <3>1. PICK h : h = k - p
      OBVIOUS
    <3>2. h \in 1 .. q /\ k = p + h
      BY <1>4, <2>2, <3>1
    <3>3. PICK j : j = Place(t, h)
      OBVIOUS
    <3>4. j \in L /\ Rank(L, j) = h
      BY <1>1, <1>2, <3>2, <3>3, Places
    <3>5. m + j \in J /\ Rank(J, m + j) = k
      BY <1>5, <1>8, <3>2, <3>4 DEF Shifted
    <3>6. Place(u, k) = m + j
      BY <1>1, <1>3, <1>6, <3>5, PlaceOfRank
    <3>7. u[m + j] = t[j]
      <4>1. j \in 1 .. Len(t)
        BY <1>4, <3>4
      <4>2. m + j \in 1 .. m + Len(t) /\ ~(m + j <= m) /\ (m + j) - m = j
        BY <1>3, <4>1
      <4>3. QED
        BY <1>3, <4>2
    <3>8. Watched(u)[k] = t[j] /\ Watched(t)[h] = t[j]
      BY <1>9, <1>10, <3>2, <3>3, <3>6, <3>7
    <3>9. QED
      BY <1>12, <2>2, <3>1, <3>8
  <2>3. QED
    BY <2>1, <2>2
<1>14. Watched(u) = w
  BY <1>9, <1>12, <1>13, SeqEqual
<1>15. QED
  BY <1>1, <1>11, <1>14

-----------------------------------------------------------------------------
(* The chain's log *)

Statuses == {"NONE", "OPEN", "FILLED", "CANCELLED", "REPAID", "LIQUIDATED"}
HolderSet == Traders \cup Pools \cup {Nobody}

LEMMA EmitSound ==
  ASSUME ChainSound, NEW kind \in EventKinds, NEW o \in Claims, Emit(kind, o),
         status' \in [Claims -> Statuses], holder' \in [Claims -> HolderSet],
         \A p \in Claims : status[p] # "NONE" => status'[p] # "NONE",
         status'[o] # "NONE", kind = "Open" => status[o] = "NONE"
  PROVE  ChainSound'
<1> DEFINE e == [kind |-> kind, order |-> o, block |-> Len(blocks) + 1]
<1>1. /\ e \in Events /\ blocks \in Seq(Events)
      /\ e.kind = kind /\ e.order = o /\ e.block = Len(blocks) + 1
  <2>1. blocks \in Seq(Events)
    BY DEF ChainSound, ChainTypeOK
  <2>2. Len(blocks) + 1 \in Nat \ {0}
    BY <2>1, LenProperties
  <2>3. QED
    BY <2>1, <2>2 DEF Events
<1>2. blocks' = Append(blocks, e)
  BY DEF Emit
<1> HIDE DEF e
<1>3. PICK log, n : log = blocks' /\ n = Len(blocks)
  OBVIOUS
<1>4. /\ n \in Nat /\ log \in Seq(Events) /\ Len(log) = n + 1
      /\ \A i \in 1 .. n : log[i] = blocks[i]
      /\ log[n + 1] = e
  BY <1>1, <1>2, <1>3, AppendProperties, LenProperties
<1>5. ChainTypeOK'
  BY <1>3, <1>4 DEF ChainTypeOK, Statuses, HolderSet
<1>6. \A i \in 1 .. n : blocks[i].order \in Claims /\ status[blocks[i].order] # "NONE"
  <2>1. \A i \in 1 .. n : blocks[i] \in Events
    BY <1>1, <1>3, ElementOfSeq
  <2>2. \A i \in 1 .. n : status[blocks[i].order] # "NONE"
    BY <1>3 DEF ChainSound
  <2>3. QED
    BY <2>1, <2>2 DEF Events
<1>7. ASSUME NEW i \in 1 .. n + 1
      PROVE  status'[log[i].order] # "NONE"
  <2>1. CASE i \in 1 .. n
    BY <1>4, <1>6, <2>1
  <2>2. CASE i = n + 1
    BY <1>1, <1>4, <2>2
  <2>3. QED
    BY <1>4, <2>1, <2>2
<1>8. ASSUME NEW i \in 1 .. n + 1, NEW j \in 1 .. n + 1, i < j, log[j].kind = "Open"
      PROVE  log[i].order # log[j].order
  <2>1. i \in 1 .. n
    BY <1>4, <1>8
  <2>2. CASE j \in 1 .. n
    BY <1>3, <1>4, <1>8, <2>1, <2>2 DEF ChainSound, OpensFirst
  <2>3. CASE j = n + 1
    BY <1>1, <1>4, <1>6, <1>8, <2>1, <2>3
  <2>4. QED
    BY <1>4, <2>2, <2>3
<1>9. OpensFirst(log)
  BY <1>4, <1>8 DEF OpensFirst
<1>10. ASSUME NEW i \in 1 .. n + 1
       PROVE  log[i].block = i
  <2>1. CASE i \in 1 .. n
    BY <1>3, <1>4, <2>1 DEF ChainSound
  <2>2. CASE i = n + 1
    BY <1>1, <1>3, <1>4, <2>2
  <2>3. QED
    BY <1>4, <2>1, <2>2
<1>11. QED
  BY <1>3, <1>4, <1>5, <1>7, <1>9, <1>10 DEF ChainSound

LEMMA BecomeSound ==
  ASSUME ChainSound, NEW o \in Claims, NEW new \in Statuses \ {"NONE"}, Ledger!Become(o, new)
  PROVE  /\ status' \in [Claims -> Statuses] /\ status'[o] # "NONE"
         /\ \A p \in Claims : status[p] # "NONE" => status'[p] # "NONE"
BY DEF ChainSound, ChainTypeOK, Statuses, Ledger!Become

\* A claim is opened once, before anything else happens to it.
LEMMA ChainKeepsSound ==
  ASSUME ChainSound, ChainNext
  PROVE  ChainSound'
<1>1. PICK o \in Claims :
        \/ open(o) \/ borrow_from_pool(o) \/ fill(o) \/ cancel_claim(o)
        \/ transfer_claim(o) \/ repay_in_full(o) \/ repay_in_part(o)
        \/ liquidate_claim(o)
  BY DEF ChainNext
<1>2. status \in [Claims -> Statuses] /\ holder \in [Claims -> HolderSet]
  BY DEF ChainSound, ChainTypeOK, Statuses, HolderSet
<1>3. ASSUME NEW h \in HolderSet, Ledger!GoesTo(o, h)
      PROVE  holder' \in [Claims -> HolderSet]
  BY <1>2, <1>3 DEF Ledger!GoesTo
<1>4. CASE open(o)
  <2>1. Ledger!Become(o, "OPEN") /\ status[o] = "NONE" /\ holder' = holder
    BY <1>4 DEF open, Ledger!Open
  <2>2. QED
    BY <1>2, <1>4, <2>1, BecomeSound, EmitSound DEF open, EventKinds, Statuses
<1>5. CASE borrow_from_pool(o)
  <2>1. Ledger!Become(o, "FILLED") /\ \E h \in HolderSet : Ledger!GoesTo(o, h)
    BY <1>5 DEF borrow_from_pool, Ledger!Borrow, HolderSet
  <2>2. QED
    BY <1>3, <1>5, <2>1, BecomeSound, EmitSound DEF borrow_from_pool, EventKinds, Statuses
<1>6. CASE fill(o)
  <2>1. Ledger!Become(o, "FILLED") /\ \E h \in HolderSet : Ledger!GoesTo(o, h)
    BY <1>6 DEF fill, Ledger!Fill, HolderSet
  <2>2. QED
    BY <1>3, <1>6, <2>1, BecomeSound, EmitSound DEF fill, EventKinds, Statuses
<1>7. CASE cancel_claim(o)
  <2>1. Ledger!Become(o, "CANCELLED") /\ holder' = holder
    BY <1>7 DEF cancel_claim, Ledger!Cancel
  <2>2. QED
    BY <1>2, <1>7, <2>1, BecomeSound, EmitSound DEF cancel_claim, EventKinds, Statuses
<1>8. CASE transfer_claim(o)
  <2>1. status' = status /\ status[o] = "FILLED" /\ \E h \in HolderSet : Ledger!GoesTo(o, h)
    BY <1>8 DEF transfer_claim, Ledger!Transfer, HolderSet
  <2>2. QED
    BY <1>2, <1>3, <1>8, <2>1, EmitSound DEF transfer_claim, EventKinds
<1>9. ASSUME Ledger!Close(o)
      PROVE  /\ status' \in [Claims -> Statuses] /\ holder' \in [Claims -> HolderSet]
             /\ status'[o] # "NONE"
             /\ \A p \in Claims : status[p] # "NONE" => status'[p] # "NONE"
  <2>1. PICK new \in {"REPAID", "LIQUIDATED"} : Ledger!Become(o, new)
    BY <1>9 DEF Ledger!Close
  <2>2. Ledger!GoesTo(o, Nobody)
    BY <1>9 DEF Ledger!Close
  <2>3. QED
    BY <1>3, <2>1, <2>2, BecomeSound DEF Statuses, HolderSet
<1>10. CASE repay_in_full(o)
  BY <1>9, <1>10, EmitSound DEF repay_in_full, EventKinds
<1>11. CASE repay_in_part(o)
  <2>1. status' = status /\ holder' = holder /\ status[o] = "FILLED"
    BY <1>11 DEF repay_in_part
  <2>2. QED
    BY <1>2, <1>11, <2>1, EmitSound DEF repay_in_part, EventKinds
<1>12. CASE liquidate_claim(o)
  BY <1>9, <1>12, EmitSound DEF liquidate_claim, EventKinds
<1>13. QED
  BY <1>1, <1>4, <1>5, <1>6, <1>7, <1>8, <1>10, <1>11, <1>12

\* Blocks are only added at the end.
LEMMA ChainOnlyGrows ==
  ASSUME blocks \in Seq(Events), ChainNext
  PROVE  \E e \in Events : blocks' = Append(blocks, e)
<1>1. PICK o \in Claims, kind \in EventKinds : Emit(kind, o)
  BY DEF ChainNext, open, borrow_from_pool, fill, cancel_claim, transfer_claim,
         repay_in_full, repay_in_part, liquidate_claim, EventKinds
<1>2. Len(blocks) + 1 \in Nat \ {0}
  BY LenProperties
<1>3. QED
  BY <1>1, <1>2 DEF Emit, Events

-----------------------------------------------------------------------------
(* Pieces of the log *)

LEMMA RangeIs ==
  ASSUME blocks \in Seq(Events), NEW a, NEW b, Within(a, b)
  PROVE  /\ BlockRange(a + 1, b) \in Seq(Events)
         /\ Len(BlockRange(a + 1, b)) = IF a < b THEN b - a ELSE 0
         /\ \A i \in 1 .. b - a : BlockRange(a + 1, b)[i] = blocks[a + i]
<1>1. a \in Nat /\ b \in Nat /\ Len(blocks) \in Nat
  BY LenProperties DEF Within
<1>2. BlockRange(a + 1, b) = SubSeq(blocks, a + 1, b)
  BY <1>1 DEF BlockRange
<1>3. \A i \in a + 1 .. b : i \in 1 .. Len(blocks)
  BY <1>1 DEF Within
<1>4. \A i \in a + 1 .. b : blocks[i] \in Events
  BY <1>3, ElementOfSeq
<1>5. PICK m : m = a + 1
  OBVIOUS
<1>6. m \in Int /\ b \in Int /\ \A i \in m .. b : blocks[i] \in Events
  BY <1>1, <1>4, <1>5
<1>7. /\ SubSeq(blocks, m, b) \in Seq(Events)
      /\ Len(SubSeq(blocks, m, b)) = IF m <= b THEN b - m + 1 ELSE 0
      /\ \A i \in 1 .. b - m + 1 : SubSeq(blocks, m, b)[i] = blocks[m + i - 1]
  BY <1>6, SubSeqProperties
<1>8. PICK r : r = BlockRange(a + 1, b)
  OBVIOUS
<1>9. /\ r \in Seq(Events) /\ Len(r) = IF m <= b THEN b - m + 1 ELSE 0
      /\ \A i \in 1 .. b - m + 1 : r[i] = blocks[m + i - 1]
  BY <1>2, <1>5, <1>7, <1>8
<1>10. Len(r) = IF a < b THEN b - a ELSE 0
  BY <1>1, <1>5, <1>9
<1>11. ASSUME NEW i \in 1 .. b - a
       PROVE  r[i] = blocks[a + i]
  <2>1. i \in 1 .. b - m + 1 /\ m + i - 1 = a + i
    BY <1>1, <1>5
  <2>2. QED
    BY <1>9, <2>1
<1>12. QED
  BY <1>8, <1>9, <1>10, <1>11

\* A batch is the next piece.
LEMMA RangeSplits ==
  ASSUME blocks \in Seq(Events), NEW a \in Nat, NEW b \in Nat, NEW c \in Nat,
         a <= b, b <= c, c <= Len(blocks)
  PROVE  BlockRange(a + 1, c) = BlockRange(a + 1, b) \o BlockRange(b + 1, c)
<1>1. Len(blocks) \in Nat
  BY LenProperties
<1>2. PICK m : m = a + 1
  OBVIOUS
<1>3. m \in 1 .. Len(blocks) + 1 /\ b \in m - 1 .. Len(blocks) /\ c \in b .. Len(blocks)
  BY <1>1, <1>2
<1>4. SubSeq(blocks, m, b) \o SubSeq(blocks, b + 1, c) = SubSeq(blocks, m, c)
  BY <1>3, ConcatAdjacentSubSeq
<1>5. m # 0 /\ b + 1 # 0
  BY <1>2
<1>6. QED
  BY <1>2, <1>4, <1>5 DEF BlockRange

\* A block added later belongs to no piece behind the head.
LEMMA RangeStands ==
  ASSUME blocks \in Seq(Events), NEW e \in Events, blocks' = Append(blocks, e),
         NEW a, NEW b, Within(a, b)
  PROVE  BlockRange(a + 1, b)' = BlockRange(a + 1, b) /\ Within(a, b)'
<1>1. PICK log, n : log = blocks' /\ n = Len(blocks)
  OBVIOUS
<1>2. /\ n \in Nat /\ log \in Seq(Events) /\ Len(log) = n + 1
      /\ \A i \in 1 .. n : log[i] = blocks[i]
  BY <1>1, AppendProperties, LenProperties
<1>3. a \in Nat /\ b \in Nat /\ (b <= n \/ b = a)
  BY <1>1 DEF Within
<1>4. b <= n + 1 \/ b = a
  BY <1>2, <1>3
<1>5. Within(a, b)'
  BY <1>1, <1>2, <1>3, <1>4 DEF Within
<1>6. blocks' \in Seq(Events)
  BY <1>1, <1>2
<1>7. PICK old, new : old = BlockRange(a + 1, b) /\ new = BlockRange(a + 1, b)'
  OBVIOUS
<1>8. /\ old \in Seq(Events) /\ Len(old) = IF a < b THEN b - a ELSE 0
      /\ \A i \in 1 .. b - a : old[i] = blocks[a + i]
  BY <1>7, RangeIs
<1>9. /\ new \in Seq(Events) /\ Len(new) = IF a < b THEN b - a ELSE 0
      /\ \A i \in 1 .. b - a : new[i] = blocks'[a + i]
  <2>1. (blocks \in Seq(Events) /\ Within(a, b) =>
           /\ BlockRange(a + 1, b) \in Seq(Events)
           /\ Len(BlockRange(a + 1, b)) = IF a < b THEN b - a ELSE 0
           /\ \A i \in 1 .. b - a : BlockRange(a + 1, b)[i] = blocks[a + i])'
    BY RangeIs, PTL
  <2>2. QED
    BY <1>5, <1>6, <1>7, <2>1
<1>10. ASSUME NEW i \in 1 .. Len(old)
       PROVE  old[i] = new[i]
  <2>1. i \in 1 .. b - a /\ a + i \in 1 .. n
    BY <1>2, <1>3, <1>8
  <2>2. QED
    BY <1>1, <1>2, <1>8, <1>9, <2>1
<1>11. old = new
  BY <1>8, <1>9, <1>10, SeqEqual
<1>12. QED
  BY <1>5, <1>7, <1>11

LEMMA OpensFirstInRange ==
  ASSUME blocks \in Seq(Events), OpensFirst(blocks), NEW a, NEW b, Within(a, b)
  PROVE  OpensFirst(BlockRange(a + 1, b))
<1>1. PICK r : r = BlockRange(a + 1, b)
  OBVIOUS
<1>2. /\ r \in Seq(Events) /\ Len(r) = IF a < b THEN b - a ELSE 0
      /\ \A i \in 1 .. b - a : r[i] = blocks[a + i]
  BY <1>1, RangeIs
<1>3. a \in Nat /\ b \in Nat /\ Len(blocks) \in Nat /\ (b <= Len(blocks) \/ b = a)
  BY LenProperties DEF Within
<1>4. \A i \in 1 .. Len(r) : i \in 1 .. b - a /\ a + i \in 1 .. Len(blocks) /\ i \in Nat
  BY <1>2, <1>3
<1>5. ASSUME NEW i \in 1 .. Len(r), NEW j \in 1 .. Len(r), i < j, r[j].kind = "Open"
      PROVE  r[i].order # r[j].order
  <2>1. r[i] = blocks[a + i] /\ r[j] = blocks[a + j] /\ a + i < a + j
    BY <1>2, <1>3, <1>4, <1>5
  <2>2. QED
    BY <1>4, <1>5, <2>1 DEF OpensFirst
<1>6. QED
  BY <1>1, <1>5 DEF OpensFirst

LEMMA OpensFirstWatched ==
  ASSUME NEW s \in Seq(Events), OpensFirst(s)
  PROVE  OpensFirst(Watched(s))
<1>1. PICK w, n : w = Watched(s) /\ n = Cardinality(Kept(s))
  OBVIOUS
<1>2. Len(w) = n /\ \A k \in 1 .. n : w[k] = s[Place(s, k)]
  BY <1>1, WatchedIs
<1>3. ASSUME NEW k \in 1 .. n, NEW m \in 1 .. n, k < m, w[m].kind = "Open"
      PROVE  w[k].order # w[m].order
  <2>1. PICK i, j : i = Place(s, k) /\ j = Place(s, m)
    OBVIOUS
  <2>2. i < j
    BY <1>1, <1>3, <2>1, PlacesAscend
  <2>3. i \in 1 .. Len(s) /\ j \in 1 .. Len(s)
    BY <1>1, <2>1, Places, KeptIsFinite
  <2>4. w[k] = s[i] /\ w[m] = s[j]
    BY <1>2, <2>1
  <2>5. QED
    BY <1>3, <2>2, <2>3, <2>4 DEF OpensFirst
<1>4. QED
  BY <1>1, <1>2, <1>3 DEF OpensFirst

-----------------------------------------------------------------------------
(* The way of an event: fetched, queued, handled *)

\* The first of what waits behind goes to the end of what is in front.
LEMMA FirstMovesUp ==
  ASSUME NEW S, NEW c \in Seq(S), NEW l \in Seq(S), l # <<>>
  PROVE  /\ Head(l) \in S /\ Tail(l) \in Seq(S) /\ Append(c, Head(l)) \in Seq(S)
         /\ Append(c, Head(l)) \o Tail(l) = c \o l
<1>1. PICK x, t, d : x = Head(l) /\ t = Tail(l) /\ d = Append(c, Head(l))
  OBVIOUS
<1>2. /\ x \in S /\ t \in Seq(S) /\ Len(t) = Len(l) - 1
      /\ \A i \in 1 .. Len(t) : t[i] = l[i + 1]
  BY <1>1, HeadTailProperties
<1>3. /\ d \in Seq(S) /\ Len(d) = Len(c) + 1 /\ d[Len(c) + 1] = x
      /\ \A i \in 1 .. Len(c) : d[i] = c[i]
  BY <1>1, <1>2, AppendProperties
<1>4. Len(c) \in Nat /\ Len(l) \in Nat \ {0} /\ l[1] = x
  BY <1>1, EmptySeq, LenProperties
<1>5. PICK v, w : v = d \o t /\ w = c \o l
  OBVIOUS
<1>6. /\ v \in Seq(S) /\ Len(v) = Len(d) + Len(t)
      /\ \A i \in 1 .. Len(d) + Len(t) : v[i] = IF i <= Len(d) THEN d[i] ELSE t[i - Len(d)]
  BY <1>2, <1>3, <1>5, ConcatProperties
<1>7. /\ w \in Seq(S) /\ Len(w) = Len(c) + Len(l)
      /\ \A i \in 1 .. Len(c) + Len(l) : w[i] = IF i <= Len(c) THEN c[i] ELSE l[i - Len(c)]
  BY <1>5, ConcatProperties
<1>8. Len(v) = Len(w)
  BY <1>2, <1>3, <1>4, <1>6, <1>7
<1>9. ASSUME NEW i \in 1 .. Len(v)
      PROVE  v[i] = w[i]
  <2>1. CASE i <= Len(c)
    <3>1. /\ i \in 1 .. Len(c) /\ i <= Len(d)
          /\ i \in 1 .. Len(d) + Len(t) /\ i \in 1 .. Len(c) + Len(l)
      BY <1>2, <1>3, <1>4, <1>6, <2>1
    <3>2. v[i] = d[i]
      BY <1>6, <3>1
    <3>3. w[i] = c[i]
      BY <1>7, <2>1, <3>1
    <3>4. QED
      BY <1>3, <3>1, <3>2, <3>3
  <2>2. CASE i = Len(c) + 1
    <3>1. v[i] = x
      BY <1>2, <1>3, <1>4, <1>6, <2>2
    <3>2. ~(i <= Len(c)) /\ i - Len(c) = 1
      BY <1>4, <2>2
    <3>3. w[i] = l[1]
      BY <1>7, <1>8, <3>2
    <3>4. QED
      BY <1>4, <3>1, <3>3
  <2>3. CASE i > Len(c) + 1
    <3>1. PICK k : k = i - Len(d)
      OBVIOUS
    <3>2. k \in 1 .. Len(t) /\ ~(i <= Len(d)) /\ ~(i <= Len(c)) /\ i - Len(c) = k + 1
      BY <1>2, <1>3, <1>4, <1>6, <2>3, <3>1
    <3>3. v[i] = t[k] /\ w[i] = l[k + 1]
      BY <1>6, <1>7, <1>8, <3>1, <3>2
    <3>4. QED
      BY <1>2, <3>2, <3>3
  <2>4. QED
    BY <1>4, <1>6, <2>1, <2>2, <2>3
<1>10. v = w
  BY <1>6, <1>7, <1>8, <1>9, SeqEqual
<1>11. QED
  BY <1>1, <1>2, <1>3, <1>5, <1>10

LEMMA Associative ==
  ASSUME NEW a \in Seq(Events), NEW b \in Seq(Events), NEW d \in Seq(Events)
  PROVE  (a \o b) \o d = a \o (b \o d)
BY ConcatAssociative, SMT

LEMMA FirstIsHandled ==
  ASSUME NEW h \in Seq(Events), NEW c \in Seq(Events), NEW l \in Seq(Events), c # <<>>
  PROVE  /\ Append(h, Head(c)) \in Seq(Events)
         /\ Append(h, Head(c)) \o (Tail(c) \o l) = h \o (c \o l)
<1>1. PICK g, t : g = Append(h, Head(c)) /\ t = Tail(c)
  OBVIOUS
<1>2. g \in Seq(Events) /\ t \in Seq(Events) /\ g \o t = h \o c
  BY <1>1, FirstMovesUp
<1>3. (g \o t) \o l = g \o (t \o l)
  BY <1>2, Associative, Zenon
<1>4. (h \o c) \o l = h \o (c \o l)
  BY Associative, Zenon
<1>5. QED
  BY <1>1, <1>2, <1>3, <1>4, Zenon

\* What was handled is what has been scanned, less what still waits.
LEMMA HandledPart ==
  ASSUME NEW S, NEW h \in Seq(S), NEW c \in Seq(S), NEW l \in Seq(S)
  PROVE  LET scanned == h \o (c \o l)
         IN  SubSeq(scanned, 1, Len(scanned) - Len(l) - Len(c)) = h
<1>1. PICK w : w = c \o l
  OBVIOUS
<1>2. w \in Seq(S) /\ Len(w) = Len(c) + Len(l)
  BY <1>1, ConcatProperties
<1>3. PICK v : v = h \o w
  OBVIOUS
<1>4. /\ v \in Seq(S) /\ Len(v) = Len(h) + Len(w)
      /\ \A i \in 1 .. Len(h) + Len(w) : v[i] = IF i <= Len(h) THEN h[i] ELSE w[i - Len(h)]
  <2>1. w \in Seq(S)
    BY <1>2
  <2>2. QED
    BY <1>3, <2>1, ConcatProperties
<1>5. Len(h) \in Nat /\ Len(c) \in Nat /\ Len(l) \in Nat
  BY LenProperties
<1>6. PICK k : k = Len(v) - Len(l) - Len(c)
  OBVIOUS
<1>7. k = Len(h) /\ k <= Len(v) /\ k \in Int
  BY <1>2, <1>4, <1>5, <1>6
<1>8. \A i \in 1 .. k : i \in 1 .. Len(v)
  BY <1>4, <1>5, <1>7
<1>9. \A i \in 1 .. k : v[i] \in S
  BY <1>4, <1>8, ElementOfSeq
<1>10. PICK p : p = SubSeq(v, 1, k)
  OBVIOUS
<1>11. /\ p \in Seq(S) /\ Len(p) = IF 1 <= k THEN k - 1 + 1 ELSE 0
       /\ \A i \in 1 .. k - 1 + 1 : p[i] = v[1 + i - 1]
  BY <1>7, <1>9, <1>10, SubSeqProperties
<1>12. Len(p) = Len(h)
  BY <1>5, <1>7, <1>11
<1>13. ASSUME NEW i \in 1 .. Len(p)
       PROVE  p[i] = h[i]
  <2>1. i \in 1 .. k - 1 + 1 /\ 1 + i - 1 = i /\ i <= Len(h) /\ i \in 1 .. Len(h) + Len(w)
    BY <1>2, <1>5, <1>7, <1>12
  <2>2. QED
    BY <1>4, <1>11, <2>1
<1>14. p = h
  BY <1>11, <1>12, <1>13, SeqEqual
<1>15. QED
  BY <1>1, <1>3, <1>6, <1>10, <1>14

\* An Open that is handled is the first event of its claim.
LEMMA OpenComesFirst ==
  ASSUME NEW h \in Seq(Events), NEW c \in Seq(Events), NEW l \in Seq(Events), c # <<>>,
         OpensFirst(h \o (c \o l)), Head(c).kind = "Open"
  PROVE  \A i \in 1 .. Len(h) : h[i].order # Head(c).order
<1>1. PICK g, r : g = Append(h, Head(c)) /\ r = Tail(c) \o l
  OBVIOUS
<1>2. g \in Seq(Events) /\ g \o r = h \o (c \o l)
  <2>1. /\ Append(h, Head(c)) \in Seq(Events)
        /\ Append(h, Head(c)) \o (Tail(c) \o l) = h \o (c \o l)
    BY FirstIsHandled
  <2>2. QED
    BY <1>1, <2>1
<1>3. r \in Seq(Events) /\ Head(c) \in Events
  BY <1>1, HeadTailProperties, ConcatProperties
<1>4. Len(g) = Len(h) + 1 /\ g[Len(h) + 1] = Head(c) /\ \A i \in 1 .. Len(h) : g[i] = h[i]
  BY <1>1, <1>3, AppendProperties
<1>5. PICK v : v = g \o r
  OBVIOUS
<1>6. /\ Len(v) = Len(g) + Len(r)
      /\ \A i \in 1 .. Len(g) + Len(r) : v[i] = IF i <= Len(g) THEN g[i] ELSE r[i - Len(g)]
  BY <1>2, <1>3, <1>5, ConcatProperties
<1>7. Len(h) \in Nat /\ Len(r) \in Nat
  BY <1>3, LenProperties
<1>8. ASSUME NEW i \in 1 .. Len(h)
      PROVE  h[i].order # Head(c).order
  <2>1. PICK j : j = Len(h) + 1
    OBVIOUS
  <2>2. i \in 1 .. Len(v) /\ j \in 1 .. Len(v) /\ i < j /\ i <= Len(g) /\ j <= Len(g)
    BY <1>4, <1>6, <1>7, <2>1
  <2>3. v[i] = h[i] /\ v[j] = Head(c)
    BY <1>4, <1>6, <2>1, <2>2
  <2>4. QED
    BY <1>2, <1>5, <2>2, <2>3 DEF OpensFirst
<1>9. QED
  BY <1>8

-----------------------------------------------------------------------------
(* The mirror *)

\* An event about one claim leaves what is known of the others as it was.
LEMMA OthersStand ==
  ASSUME NEW h \in Seq(Events), NEW e \in Events, NEW p \in Claims, p # e.order,
         Mirrors(h, p), intents'[p] = intents[p], handling' = p => handling = p
  PROVE  Mirrors(Append(h, e), p)'
<1>1. PICK g : g = Append(h, e)
  OBVIOUS
<1>2. /\ DOMAIN h = 1 .. Len(h) /\ Len(h) \in Nat
      /\ DOMAIN g = 1 .. Len(h) + 1
      /\ g[Len(h) + 1] = e /\ \A i \in 1 .. Len(h) : g[i] = h[i]
  BY <1>1, AppendProperties, LenProperties
<1>3. PICK mine : mine = {i \in DOMAIN h : h[i].order = p}
  OBVIOUS
<1>4. {i \in DOMAIN g : g[i].order = p} = mine
  BY <1>2, <1>3
<1>5. \A i \in mine : g[i] = h[i]
  BY <1>2, <1>3
<1>6. IF \A i \in mine : h[i].kind # "Open" THEN intents[p] = "Untracked"
      ELSE \E i \in mine :
             /\ \A j \in mine : j <= i
             /\ IF h[i].kind = "Open"
                THEN /\ intents[p] \in {"Open", "PublishedToNear", "Expired"}
                     /\ handling = p => intents[p] = "Open"
                ELSE intents[p] = h[i].kind
  BY <1>3 DEF Mirrors
<1>7. IF \A i \in mine : g[i].kind # "Open" THEN intents'[p] = "Untracked"
      ELSE \E i \in mine :
             /\ \A j \in mine : j <= i
             /\ IF g[i].kind = "Open"
                THEN /\ intents'[p] \in {"Open", "PublishedToNear", "Expired"}
                     /\ handling' = p => intents'[p] = "Open"
                ELSE intents'[p] = g[i].kind
  BY <1>5, <1>6
<1>8. Mirrors(g, p)'
  BY <1>4, <1>7 DEF Mirrors
<1>9. QED
  BY <1>1, <1>8

\* The event itself is the last about its claim.
LEMMA LastEvent ==
  ASSUME NEW h \in Seq(Events), NEW e \in Events
  PROVE  LET g == Append(h, e)
             mine == {i \in DOMAIN g : g[i].order = e.order}
         IN  /\ Len(h) + 1 \in mine /\ g[Len(h) + 1] = e
             /\ \A j \in mine : j <= Len(h) + 1
             /\ \A i \in DOMAIN h : h[i].order = e.order => i \in mine /\ g[i] = h[i]
             /\ \A i \in mine : i = Len(h) + 1 \/ (i \in DOMAIN h /\ h[i].order = e.order /\ g[i] = h[i])
<1>1. PICK g, n : g = Append(h, e) /\ n = Len(h)
  OBVIOUS
<1>2. /\ DOMAIN h = 1 .. n /\ n \in Nat
      /\ DOMAIN g = 1 .. n + 1
      /\ g[n + 1] = e /\ \A i \in 1 .. n : g[i] = h[i]
  BY <1>1, AppendProperties, LenProperties
<1>3. PICK mine : mine = {i \in DOMAIN g : g[i].order = e.order}
  OBVIOUS
<1>4. n + 1 \in mine
  BY <1>2, <1>3
<1>5. \A j \in mine : j <= n + 1
  BY <1>2, <1>3
<1>6. \A i \in DOMAIN h : h[i].order = e.order => i \in mine /\ g[i] = h[i]
  BY <1>2, <1>3
<1>7. \A i \in mine : i = n + 1 \/ (i \in DOMAIN h /\ h[i].order = e.order /\ g[i] = h[i])
  BY <1>2, <1>3
<1>8. QED
  BY <1>1, <1>2, <1>3, <1>4, <1>5, <1>6, <1>7

LEMMA OpenIsMirrored ==
  ASSUME NEW h \in Seq(Events), NEW o \in Claims, NEW e \in Events, e.kind = "Open", e.order = o,
         intents'[o] \in {"Open", "PublishedToNear", "Expired"},
         handling' = o => intents'[o] = "Open"
  PROVE  Mirrors(Append(h, e), o)'
<1>1. PICK g, mine, n : /\ g = Append(h, e) /\ n = Len(h) + 1
                        /\ mine = {i \in DOMAIN g : g[i].order = e.order}
  OBVIOUS
<1>2. n \in mine /\ g[n] = e /\ \A j \in mine : j <= n
  BY <1>1, LastEvent
<1>3. e.kind = "Open" /\ e.order = o
  OBVIOUS
<1>4. /\ ~(\A i \in mine : g[i].kind # "Open")
      /\ \E i \in mine : /\ \A j \in mine : j <= i
                         /\ g[i].kind = "Open"
                         /\ intents'[o] \in {"Open", "PublishedToNear", "Expired"}
                         /\ handling' = o => intents'[o] = "Open"
  BY <1>2, <1>3
<1>5. mine = {i \in DOMAIN g : g[i].order = o}
  BY <1>1, <1>3
<1>6. Mirrors(g, o)'
  BY <1>4, <1>5 DEF Mirrors
<1>7. QED
  BY <1>1, <1>6

LEMMA LifecycleIsMirrored ==
  ASSUME NEW h \in Seq(Events), NEW o \in Claims, NEW e \in Events,
         NEW kind \in LifecycleEvents, e.kind = kind, e.order = o,
         Mirrors(h, o), intents'[o] = Updated(o, kind)
  PROVE  Mirrors(Append(h, e), o)'
<1>1. PICK g, mine, n : /\ g = Append(h, e) /\ n = Len(h) + 1
                        /\ mine = {i \in DOMAIN g : g[i].order = e.order}
  OBVIOUS
<1>2. /\ n \in mine /\ g[n] = e /\ \A j \in mine : j <= n
      /\ \A i \in DOMAIN h : h[i].order = e.order => i \in mine /\ g[i] = h[i]
      /\ \A i \in mine : i = n \/ (i \in DOMAIN h /\ h[i].order = e.order /\ g[i] = h[i])
  BY <1>1, LastEvent
<1>3. e.kind = kind /\ e.order = o /\ kind # "Open"
  BY DEF LifecycleEvents
<1>4. PICK old : old = {i \in DOMAIN h : h[i].order = o}
  OBVIOUS
<1>5. IF \A i \in old : h[i].kind # "Open" THEN intents[o] = "Untracked"
      ELSE \E i \in old :
             IF h[i].kind = "Open"
             THEN intents[o] \in {"Open", "PublishedToNear", "Expired"}
             ELSE intents[o] = h[i].kind
  BY <1>4 DEF Mirrors
<1>6. \A i \in old : h[i].kind # "Untracked"
  <2>1. \A i \in old : h[i] \in Events
    BY <1>4, LenProperties, ElementOfSeq
  <2>2. QED
    BY <2>1 DEF Events, EventKinds
<1>7. mine = {i \in DOMAIN g : g[i].order = o}
  BY <1>1, <1>3
<1>8. CASE \A i \in old : h[i].kind # "Open"
  <2>1. \A i \in mine : g[i].kind # "Open"
    BY <1>2, <1>3, <1>4, <1>8
  <2>2. intents'[o] = "Untracked"
    BY <1>5, <1>8 DEF Updated, Tracked
  <2>3. Mirrors(g, o)'
    BY <1>7, <2>1, <2>2 DEF Mirrors
  <2>4. QED
    BY <1>1, <2>3
<1>9. CASE ~(\A i \in old : h[i].kind # "Open")
  <2>1. ~(\A i \in mine : g[i].kind # "Open")
    BY <1>2, <1>3, <1>4, <1>9
  <2>2. intents[o] # "Untracked"
    BY <1>5, <1>6, <1>9
  <2>3. intents'[o] = kind
    BY <2>2 DEF Updated, Tracked
  <2>4. \E i \in mine : /\ \A j \in mine : j <= i
                        /\ g[i].kind # "Open" /\ intents'[o] = g[i].kind
    BY <1>2, <1>3, <2>3
  <2>5. Mirrors(g, o)'
    BY <1>7, <2>1, <2>4 DEF Mirrors
  <2>6. QED
    BY <1>1, <2>5
<1>10. QED
  BY <1>8, <1>9

\* A quote request that ends changes what is known of no claim's last event.
LEMMA PublishIsMirrored ==
  ASSUME NEW h \in Seq(Events), NEW o \in Claims, Mirrors(h, o), RequestsSound,
         publish_quote_request
  PROVE  Mirrors(h, o)'
<1>1. PICK mine : mine = {i \in DOMAIN h : h[i].order = o}
  OBVIOUS
<1>2. IF \A i \in mine : h[i].kind # "Open" THEN intents[o] = "Untracked"
      ELSE \E i \in mine :
             /\ \A j \in mine : j <= i
             /\ IF h[i].kind = "Open"
                THEN /\ intents[o] \in {"Open", "PublishedToNear", "Expired"}
                     /\ handling = o => intents[o] = "Open"
                ELSE intents[o] = h[i].kind
  BY <1>1 DEF Mirrors
<1>3. /\ handling \in Claims /\ intents[handling] = "Open" /\ handling' = NoOrder
      /\ intents' \in {intents, [intents EXCEPT ![handling] = "PublishedToNear"]}
  BY DEF publish_quote_request, RequestsSound
<1>4. handling' # o
  BY <1>3, SizesAssumption
<1>5. CASE intents'[o] = intents[o]
  BY <1>1, <1>2, <1>4, <1>5 DEF Mirrors
<1>6. CASE handling = o /\ intents'[o] = "PublishedToNear"
  <2>1. intents[o] = "Open"
    BY <1>3, <1>6
  <2>2. ~(\A i \in mine : h[i].kind # "Open")
    BY <1>2, <2>1
  <2>3. \E i \in mine : (\A j \in mine : j <= i) /\ h[i].kind = "Open"
    BY <1>2, <2>1, <2>2
  <2>4. QED
    BY <1>1, <1>4, <1>6, <2>2, <2>3 DEF Mirrors
<1>7. QED
  BY <1>3, <1>5, <1>6 DEF RequestsSound

-----------------------------------------------------------------------------
(* From the log to the mirror *)

LEMMA ScannedIs ==
  ASSUME CursorsSound, FlowSound
  PROVE  /\ Within(startedAt, Reach) /\ Reach \in Nat /\ startedAt <= Reach
         /\ Scanned = Watched(BlockRange(startedAt + 1, Reach))
         /\ BlockRange(startedAt + 1, Reach) \in Seq(Events)
         /\ Scanned \in Seq(Events)
<1>1. Scanned = Watched(BlockRange(startedAt + 1, Reach))
  BY DEF Scanned, Reach
<1>2. Within(startedAt, Reach) /\ Reach \in Nat /\ startedAt <= Reach
  <2>1. CASE pollerAt = "send"
    <3>1. up /\ cursor < to /\ to <= latest /\ latest <= Len(blocks)
      BY <2>1 DEF CursorsSound
    <3>2. startedAt <= to /\ to <= Len(blocks)
      BY <3>1, CursorFacts DEF FlowSound
    <3>3. Reach = to
      BY <2>1 DEF Reach
    <3>4. QED
      BY <3>2, <3>3, CursorFacts DEF Within
  <2>2. CASE pollerAt # "send"
    <3>1. Reach = cursor
      BY <2>2 DEF Reach
    <3>2. QED
      BY <3>1, CursorFacts DEF FlowSound
  <2>3. QED
    BY <2>1, <2>2
<1>3. blocks \in Seq(Events)
  BY DEF CursorsSound
<1>4. BlockRange(startedAt + 1, Reach) \in Seq(Events)
  BY <1>2, <1>3, RangeIs
<1>5. QED
  BY <1>1, <1>2, <1>4, WatchedIs

\* A run that has fetched nothing yet.
LEMMA NothingFetched ==
  /\ blocks \in Seq(Events) /\ pollerAt = "poll" /\ cursor = startedAt /\ startedAt \in Nat
  /\ logs = <<>> /\ channel = <<>> /\ intents = NothingTracked
  => FlowSound
<1>1. SUFFICES ASSUME blocks \in Seq(Events), pollerAt = "poll", cursor = startedAt,
                      startedAt \in Nat, logs = <<>>, channel = <<>>,
                      intents = NothingTracked
               PROVE  FlowSound
  OBVIOUS
<1>2. Within(startedAt, cursor)
  BY <1>1 DEF Within
<1>3. PICK r : r = BlockRange(startedAt + 1, cursor)
  OBVIOUS
<1>4. r \in Seq(Events) /\ Len(r) = 0
  BY <1>1, <1>2, <1>3, RangeIs
<1>5. Kept(r) = {}
  <2>1. Kept(r) \in SUBSET (1 .. Len(r))
    BY <1>4, KeptIsFinite
  <2>2. QED
    BY <1>4, <2>1
<1>6. Watched(r) \in Seq(Events) /\ Len(Watched(r)) = 0
  BY <1>4, <1>5, WatchedIs, FS_EmptySet
<1>7. Watched(r) = <<>>
  BY <1>6, EmptySeq
<1>8. Scanned = <<>>
  BY <1>1, <1>3, <1>7 DEF Scanned
<1>9. <<>> \in Seq(Events) /\ Len(<<>>) = 0 /\ <<>> \o (<<>> \o <<>>) = <<>>
  BY EmptySeq, ConcatEmptySeq
<1>10. ASSUME NEW o \in Claims
       PROVE  Mirrors(<<>>, o)
  <2>1. DOMAIN <<>> = {}
    BY <1>9, LenProperties
  <2>2. intents[o] = "Untracked"
    BY <1>1 DEF NothingTracked
  <2>3. {i \in DOMAIN <<>> : <<>>[i].order = o} = {}
    BY <2>1
  <2>4. QED
    BY <2>2, <2>3 DEF Mirrors
<1>11. FlowsThrough(<<>>)
  BY <1>1, <1>8, <1>9, <1>10 DEF FlowsThrough
<1>12. 0 <= ChannelSize /\ startedAt <= cursor
  BY <1>1, SizesAssumption
<1>13. QED
  BY <1>1, <1>2, <1>9, <1>11, <1>12 DEF FlowSound

\* A step that fetches nothing and adds nothing to the log.
LEMMA ScannedOf ==
  ASSUME NEW r
  PROVE  r = BlockRange(startedAt + 1, Reach) => Scanned = Watched(r)
BY DEF Scanned, Reach

LEMMA SameRange ==
  ASSUME BlockRange(startedAt + 1, Reach)' = BlockRange(startedAt + 1, Reach)
  PROVE  Scanned' = Scanned
<1>1. PICK r : r = BlockRange(startedAt + 1, Reach)
  OBVIOUS
<1>2. Scanned = Watched(r)
  BY <1>1, ScannedOf
<1>3. (r = BlockRange(startedAt + 1, Reach) => Scanned = Watched(r))'
  BY ScannedOf, PTL
<1>4. Scanned' = Watched(r)
  BY <1>1, <1>3
<1>5. QED
  BY <1>2, <1>4

LEMMA ScannedStands ==
  ASSUME UNCHANGED <<blocks, startedAt>>, Reach' = Reach
  PROVE  Scanned' = Scanned
<1>1. BlockRange(startedAt + 1, Reach)' = BlockRange(startedAt + 1, Reach)
  BY DEF BlockRange
<1>2. QED
  BY <1>1, SameRange

LEMMA MirrorsStand ==
  ASSUME UNCHANGED router
  PROVE  \A h, o : Mirrors(h, o) => Mirrors(h, o)'
BY DEF Mirrors, router

LEMMA FlowStands ==
  ASSUME FlowSound,
         UNCHANGED <<up, blocks, startedAt, cursor, to, pollerAt, logs, channel, router>>
  PROVE  FlowSound'
<1>1. PICK h \in Seq(Events) : FlowsThrough(h)
  BY DEF FlowSound
<1>2. Scanned' = Scanned
  BY ScannedStands DEF Reach
<1>3. FlowsThrough(h)'
  BY <1>1, <1>2, MirrorsStand DEF FlowsThrough
<1>4. /\ logs' \in Seq(Events) /\ channel' \in Seq(Events) /\ Len(channel') <= ChannelSize
      /\ pollerAt' # "send" => logs' = <<>>
      /\ startedAt' <= cursor'
      /\ ~up' => /\ startedAt' = cursor' /\ logs' = <<>> /\ channel' = <<>>
                 /\ intents' = NothingTracked
  BY DEF FlowSound, router
<1>5. Within(startedAt, cursor)'
  BY DEF FlowSound, Within
<1>6. QED
  BY <1>3, <1>4, <1>5 DEF FlowSound

\* The chain grows behind what was fetched.
LEMMA ChainFlow ==
  ASSUME CursorsSound, FlowSound, ChainStep
  PROVE  FlowSound'
<1>1. UNCHANGED <<up, startedAt, cursor, to, pollerAt, logs, channel, router>>
  BY DEF ChainStep, service, poller
<1>2. PICK e \in Events : blocks' = Append(blocks, e)
  BY ChainOnlyGrows DEF ChainStep, CursorsSound
<1>3. blocks \in Seq(Events)
  BY DEF CursorsSound
<1>4. PICK a, b : a = startedAt /\ b = Reach
  OBVIOUS
<1>5. Within(a, b)
  BY <1>4, ScannedIs
<1>6. BlockRange(a + 1, b)' = BlockRange(a + 1, b)
  BY <1>2, <1>3, <1>5, RangeStands
<1>7. BlockRange(startedAt + 1, Reach)' = BlockRange(startedAt + 1, Reach)
  BY <1>1, <1>4, <1>6 DEF Reach, BlockRange
<1>8. Scanned' = Scanned
  BY <1>7, SameRange
<1>9. PICK h \in Seq(Events) : FlowsThrough(h)
  BY DEF FlowSound
<1>10. FlowsThrough(h)'
  BY <1>1, <1>8, <1>9, MirrorsStand DEF FlowsThrough
<1>11. Within(startedAt, cursor)'
  <2>1. PICK c : c = cursor
    OBVIOUS
  <2>2. Within(a, c)
    BY <1>4, <2>1 DEF FlowSound
  <2>3. Within(a, c)'
    BY <1>2, <1>3, <2>2, RangeStands
  <2>4. QED
    BY <1>1, <1>4, <2>1, <2>3 DEF Within
<1>12. /\ logs' \in Seq(Events) /\ channel' \in Seq(Events) /\ Len(channel') <= ChannelSize
       /\ pollerAt' # "send" => logs' = <<>>
       /\ startedAt' <= cursor'
       /\ ~up' => /\ startedAt' = cursor' /\ logs' = <<>> /\ channel' = <<>>
                  /\ intents' = NothingTracked
  BY <1>1 DEF FlowSound, router
<1>13. QED
  BY <1>10, <1>11, <1>12 DEF FlowSound

\* A batch is appended to what was scanned before.
LEMMA FetchFlow ==
  ASSUME CursorsSound, FlowSound, get_logs
  PROVE  FlowSound'
<1>1. PICK a, b, c : a = startedAt /\ b = cursor /\ c = to'
  OBVIOUS
<1>2. /\ up /\ pollerAt = "fetch" /\ pollerAt' = "send" /\ c = Nearer(b + BatchSize, latest)
      /\ logs' = Watched(BlockRange(b + 1, c))
      /\ UNCHANGED <<up, blocks, cursor, startedAt, channel, router>>
  BY <1>1 DEF get_logs, service, world
<1>3. b < latest /\ latest <= Len(blocks) /\ a <= b /\ blocks \in Seq(Events)
  BY <1>1, <1>2 DEF CursorsSound, FlowSound
<1>4. a \in Nat /\ b \in Nat /\ c \in Nat /\ b <= c /\ c <= Len(blocks)
  BY <1>1, <1>2, <1>3, CursorFacts DEF Nearer
<1>5. PICK s, t : s = BlockRange(a + 1, b) /\ t = BlockRange(b + 1, c)
  OBVIOUS
<1>6. BlockRange(a + 1, c) = s \o t
  BY <1>3, <1>4, <1>5, RangeSplits
<1>7. s \in Seq(Events) /\ t \in Seq(Events)
  <2>1. b <= Len(blocks)
    BY <1>3, <1>4, CursorFacts
  <2>2. Within(a, b) /\ Within(b, c)
    BY <1>4, <2>1 DEF Within
  <2>3. QED
    BY <1>3, <1>5, <2>2, RangeIs
<1>8. Watched(s \o t) = Watched(s) \o Watched(t)
  BY <1>7, WatchedConcat
<1>9. Watched(s) \in Seq(Events) /\ Watched(t) \in Seq(Events)
  BY <1>7, WatchedIs
<1>10. Scanned = Watched(s) /\ logs = <<>>
  <2>1. Reach = b /\ logs = <<>>
    BY <1>1, <1>2 DEF Reach, FlowSound
  <2>2. QED
    BY <1>1, <1>5, <2>1, ScannedIs
<1>11. Scanned' = Watched(s \o t)
  <2>1. PICK r : r = BlockRange(a + 1, c)
    OBVIOUS
  <2>2. Reach' = c /\ startedAt' = a
    BY <1>1, <1>2 DEF Reach
  <2>3. r = BlockRange(startedAt + 1, Reach)'
    BY <1>2, <2>1, <2>2 DEF BlockRange
  <2>4. (r = BlockRange(startedAt + 1, Reach) => Scanned = Watched(r))'
    BY ScannedOf, PTL
  <2>5. Scanned' = Watched(r)
    BY <2>3, <2>4
  <2>6. QED
    BY <1>6, <2>1, <2>5
<1>12. PICK h \in Seq(Events) : FlowsThrough(h)
  BY DEF FlowSound
<1>13. channel \in Seq(Events)
  BY DEF FlowSound
<1>14. Watched(s) = h \o channel
  <2>1. Scanned = h \o (channel \o logs)
    BY <1>12 DEF FlowsThrough
  <2>2. channel \o <<>> = channel
    BY <1>13, ConcatEmptySeq
  <2>3. QED
    BY <1>10, <2>1, <2>2
<1>15. Watched(s) \o Watched(t) = h \o (channel \o Watched(t))
  BY <1>9, <1>13, <1>14, ConcatAssociative
<1>16. Scanned' = h \o (channel' \o logs')
  BY <1>2, <1>5, <1>8, <1>11, <1>15
<1>17. FlowsThrough(h)'
  BY <1>2, <1>12, <1>16, MirrorsStand DEF FlowsThrough
<1>18. Within(startedAt, cursor)' /\ startedAt' <= cursor'
  BY <1>2 DEF FlowSound, Within
<1>19. /\ logs' \in Seq(Events) /\ channel' \in Seq(Events) /\ Len(channel') <= ChannelSize
       /\ up' /\ pollerAt' = "send"
  BY <1>2, <1>5, <1>9 DEF FlowSound
<1>20. QED
  BY <1>17, <1>18, <1>19 DEF FlowSound

LEMMA SendFlow ==
  ASSUME CursorsSound, FlowSound, send
  PROVE  FlowSound'
<1>1. /\ up /\ pollerAt = "send" /\ logs # <<>> /\ Len(channel) < ChannelSize
      /\ channel' = Append(channel, Head(logs)) /\ logs' = Tail(logs)
      /\ UNCHANGED <<up, pollerAt, blocks, startedAt, cursor, to, router>>
  BY DEF send, service, world
<1>2. logs \in Seq(Events) /\ channel \in Seq(Events)
  BY DEF FlowSound
<1>3. PICK q, l : q = channel' /\ l = logs'
  OBVIOUS
<1>4. q \in Seq(Events) /\ l \in Seq(Events) /\ q \o l = channel \o logs
  BY <1>1, <1>2, <1>3, FirstMovesUp
<1>5. Len(q) <= ChannelSize
  <2>1. Head(logs) \in Events
    BY <1>1, <1>2, FirstMovesUp
  <2>2. Len(q) = Len(channel) + 1 /\ Len(channel) \in Nat
    BY <1>1, <1>2, <1>3, <2>1, AppendProperties, LenProperties
  <2>3. QED
    BY <1>1, <2>2, SizesAssumption
<1>6. Scanned' = Scanned
  BY <1>1, ScannedStands DEF Reach
<1>7. PICK h \in Seq(Events) : FlowsThrough(h)
  BY DEF FlowSound
<1>8. Scanned' = h \o (channel' \o logs')
  BY <1>3, <1>4, <1>6, <1>7 DEF FlowsThrough
<1>9. FlowsThrough(h)'
  BY <1>1, <1>7, <1>8, MirrorsStand DEF FlowsThrough
<1>10. Within(startedAt, cursor)' /\ startedAt' <= cursor'
  BY <1>1 DEF FlowSound, Within
<1>11. QED
  BY <1>1, <1>3, <1>4, <1>5, <1>9, <1>10 DEF FlowSound

LEMMA SavedFlow ==
  ASSUME CursorsSound, FlowSound, write_last_block
  PROVE  FlowSound'
<1>1. /\ up /\ pollerAt = "send" /\ logs = <<>> /\ cursor' = to /\ pollerAt' # "send"
      /\ UNCHANGED <<up, blocks, startedAt, to, logs, channel, router>>
  BY DEF write_last_block, world
<1>2. Scanned' = Scanned
  BY <1>1, ScannedStands DEF Reach
<1>3. PICK h \in Seq(Events) : FlowsThrough(h)
  BY DEF FlowSound
<1>4. FlowsThrough(h)'
  BY <1>1, <1>2, <1>3, MirrorsStand DEF FlowsThrough
<1>5. Reach = to
  BY <1>1 DEF Reach
<1>6. Within(startedAt, to) /\ startedAt <= to
  BY <1>5, ScannedIs
<1>7. Within(startedAt, cursor)' /\ startedAt' <= cursor'
  BY <1>1, <1>6 DEF Within
<1>8. QED
  BY <1>1, <1>4, <1>7 DEF FlowSound

\* An event that is handled goes from the channel to the mirror.
LEMMA HandleFlow ==
  ASSUME CursorsSound, FlowSound, NEW e, e = Head(channel), channel # <<>>,
         up, channel' = Tail(channel), UNCHANGED <<service, poller, world>>,
         \A h \in Seq(Events) :
           FlowsThrough(h) => \A o \in Claims : Mirrors(Append(h, e), o)'
  PROVE  FlowSound'
<1>1. UNCHANGED <<up, pollerAt, blocks, startedAt, cursor, to, logs>>
  BY DEF service, poller, world
<1>2. logs \in Seq(Events) /\ channel \in Seq(Events) /\ Len(channel) <= ChannelSize
  BY DEF FlowSound
<1>3. PICK q : q = channel'
  OBVIOUS
<1>4. e \in Events /\ q \in Seq(Events) /\ Len(q) = Len(channel) - 1 /\ Len(channel) \in Nat
  BY <1>2, <1>3, HeadTailProperties, LenProperties
<1>5. Len(q) <= ChannelSize
  BY <1>2, <1>4, SizesAssumption
<1>6. PICK h \in Seq(Events) : FlowsThrough(h)
  BY DEF FlowSound
<1>7. PICK g : g = Append(h, e)
  OBVIOUS
<1>8. g \in Seq(Events) /\ g \o (q \o logs) = h \o (channel \o logs)
  <2>1. channel # <<>>
    OBVIOUS
  <2>2. /\ Append(h, Head(channel)) \in Seq(Events)
        /\ Append(h, Head(channel)) \o (Tail(channel) \o logs) = h \o (channel \o logs)
    BY <1>2, <1>6, <2>1, FirstIsHandled, Zenon
  <2>3. g = Append(h, Head(channel)) /\ q = Tail(channel)
    BY <1>3, <1>7
  <2>4. QED
    BY <2>2, <2>3, Zenon
<1>9. Scanned' = Scanned
  BY <1>1, ScannedStands DEF Reach
<1>10. Scanned' = g \o (channel' \o logs')
  BY <1>1, <1>3, <1>6, <1>8, <1>9 DEF FlowsThrough
<1>11. FlowsThrough(g)'
  BY <1>6, <1>7, <1>10 DEF FlowsThrough
<1>12. Within(startedAt, cursor)' /\ startedAt' <= cursor'
  BY <1>1 DEF FlowSound, Within
<1>13. pollerAt' # "send" => logs' = <<>>
  BY <1>1 DEF FlowSound
<1>14. QED
  BY <1>1, <1>2, <1>3, <1>4, <1>5, <1>8, <1>11, <1>12, <1>13 DEF FlowSound

LEMMA OpenFlow ==
  ASSUME ChainSound, CursorsSound, FlowSound, RequestsSound, handle_open
  PROVE  FlowSound'
<1>1. PICK e, o :
        /\ e = Head(channel) /\ o = Head(channel).order
        /\ \/ handle_open_already_tracked(o)
           \/ handle_open_expired(o)
           \/ handle_open_publish(o)
  BY DEF handle_open
<1>2. /\ up /\ handling = NoOrder /\ channel # <<>> /\ e = Head(channel) /\ e.kind = "Open"
      /\ channel' = Tail(channel) /\ UNCHANGED <<service, poller, world>>
  BY <1>1 DEF Receive, Idle, handle_open
<1>3. channel \in Seq(Events) /\ logs \in Seq(Events)
  BY DEF FlowSound
<1>4. e \in Events /\ e.order = o /\ o \in Claims
  BY <1>1, <1>2, <1>3, HeadIsEvent
<1>6. ASSUME NEW h \in Seq(Events), FlowsThrough(h)
      PROVE  \A p \in Claims : Mirrors(Append(h, e), p)'
  <2>1. OpensFirst(Scanned)
    <3>1. OpensFirst(BlockRange(startedAt + 1, Reach))
      <4>1. blocks \in Seq(Events) /\ OpensFirst(blocks)
        BY DEF ChainSound, CursorsSound
      <4>2. QED
        BY <4>1, ScannedIs, OpensFirstInRange
    <3>2. QED
      BY <3>1, ScannedIs, OpensFirstWatched
  <2>2. \A i \in 1 .. Len(h) : h[i].order # o
    BY <1>2, <1>3, <1>4, <1>6, <2>1, OpenComesFirst DEF FlowsThrough
  <2>3. {i \in DOMAIN h : h[i].order = o} = {}
    BY <2>2, LenProperties
  <2>4. intents[o] = "Untracked"
    BY <1>4, <1>6, <2>3 DEF FlowsThrough, Mirrors
  <2>5. /\ intents'[o] \in {"Open", "PublishedToNear", "Expired"}
        /\ handling' = o => intents'[o] = "Open"
        /\ \A p \in Claims \ {o} : intents'[p] = intents[p] /\ (handling' = p => handling = p)
    <3>1. intents \in [Claims -> IntentLifecycle \cup {"Untracked"}] /\ handling # o
      BY <1>2, <1>4, SizesAssumption DEF RequestsSound
    <3>2. CASE handle_open_already_tracked(o)
      BY <2>4, <3>2 DEF handle_open_already_tracked, Tracked
    <3>3. CASE handle_open_expired(o)
      BY <1>4, <3>1, <3>3 DEF handle_open_expired, SetLifecycle
    <3>4. CASE handle_open_publish(o)
      BY <1>4, <3>1, <3>4 DEF handle_open_publish, SetLifecycle
    <3>5. QED
      BY <1>1, <3>2, <3>3, <3>4
  <2>6. Mirrors(Append(h, e), o)'
    BY <1>2, <1>4, <2>5, OpenIsMirrored
  <2>7. ASSUME NEW p \in Claims, p # o
        PROVE  Mirrors(Append(h, e), p)'
    <3>1. Mirrors(h, p)
      BY <1>6 DEF FlowsThrough
    <3>2. QED
      BY <1>4, <2>5, <2>7, <3>1, OthersStand
  <2>8. QED
    BY <2>6, <2>7
<1>7. QED
  BY <1>2, <1>6, HandleFlow

LEMMA LifecycleFlow ==
  ASSUME CursorsSound, FlowSound, RequestsSound, handle_lifecycle
  PROVE  FlowSound'
<1>1. PICK e, o, kind :
        /\ e = Head(channel) /\ o = Head(channel).order /\ kind = Head(channel).kind
        /\ kind \in LifecycleEvents /\ SetLifecycle(o, Updated(o, kind))
  BY DEF handle_lifecycle
<1>2. /\ up /\ channel # <<>> /\ e = Head(channel) /\ channel' = Tail(channel)
      /\ handling' = handling /\ UNCHANGED <<service, poller, world>>
  BY <1>1 DEF Receive, Idle, handle_lifecycle
<1>3. channel \in Seq(Events)
  BY DEF FlowSound
<1>4. e \in Events /\ e.kind = kind /\ e.order = o /\ o \in Claims
  BY <1>1, <1>2, <1>3, HeadIsEvent
<1>5. /\ intents'[o] = Updated(o, kind)
      /\ \A p \in Claims \ {o} : intents'[p] = intents[p]
  BY <1>1, <1>4 DEF SetLifecycle, RequestsSound
<1>6. ASSUME NEW h \in Seq(Events), FlowsThrough(h)
      PROVE  \A p \in Claims : Mirrors(Append(h, e), p)'
  <2>1. Mirrors(Append(h, e), o)'
    <3>1. Mirrors(h, o)
      BY <1>4, <1>6 DEF FlowsThrough
    <3>2. QED
      BY <1>1, <1>4, <1>5, <3>1, LifecycleIsMirrored
  <2>2. ASSUME NEW p \in Claims, p # o
        PROVE  Mirrors(Append(h, e), p)'
    <3>1. Mirrors(h, p)
      BY <1>6 DEF FlowsThrough
    <3>2. QED
      BY <1>2, <1>4, <1>5, <2>2, <3>1, OthersStand
  <2>3. QED
    BY <2>1, <2>2
<1>7. QED
  BY <1>2, <1>6, HandleFlow

LEMMA PublishFlow ==
  ASSUME FlowSound, RequestsSound, publish_quote_request
  PROVE  FlowSound'
<1>1. /\ up /\ UNCHANGED <<up, pollerAt, blocks, startedAt, cursor, to, logs, channel>>
  BY DEF publish_quote_request, service, poller, world
<1>2. Scanned' = Scanned
  BY <1>1, ScannedStands DEF Reach
<1>3. PICK h \in Seq(Events) : FlowsThrough(h)
  BY DEF FlowSound
<1>4. \A o \in Claims : Mirrors(h, o)'
  BY <1>3, PublishIsMirrored DEF FlowsThrough
<1>5. FlowsThrough(h)'
  BY <1>1, <1>2, <1>3, <1>4 DEF FlowsThrough
<1>6. Within(startedAt, cursor)' /\ startedAt' <= cursor'
  BY <1>1 DEF FlowSound, Within
<1>7. /\ logs' \in Seq(Events) /\ channel' \in Seq(Events) /\ Len(channel') <= ChannelSize
      /\ pollerAt' # "send" => logs' = <<>>
  BY <1>1 DEF FlowSound
<1>8. QED
  BY <1>1, <1>5, <1>6, <1>7 DEF FlowSound

\* A run begins with nothing fetched and nothing known, and a crash leaves that.
LEMMA FreshFlow ==
  ASSUME CursorsSound, FlowSound, Start \/ Crash
  PROVE  FlowSound'
<1>1. blocks' \in Seq(Events) /\ pollerAt' = "poll" /\ cursor' = startedAt' /\ startedAt' \in Nat
      /\ logs' = <<>> /\ channel' = <<>> /\ intents' = NothingTracked
  <2>1. CASE Start
    <3>1. PICK c \in StartCursors : cursor' = c /\ startedAt' = c
      BY <2>1 DEF Start
    <3>2. ~up /\ UNCHANGED <<pollerAt, blocks, logs, channel, intents>>
      BY <2>1 DEF Start, world, router
    <3>3. c \in Nat
      BY StartCursor
    <3>4. pollerAt = "poll" /\ logs = <<>> /\ channel = <<>> /\ intents = NothingTracked
          /\ blocks \in Seq(Events)
      BY <3>2 DEF CursorsSound, FlowSound
    <3>5. QED
      BY <3>1, <3>2, <3>3, <3>4
  <2>2. CASE Crash
    <3>1. blocks \in Seq(Events)
      BY DEF CursorsSound
    <3>2. QED
      BY <2>2, <3>1 DEF Crash, world
  <2>3. QED
    BY <2>1, <2>2
<1>2. NothingTracked' = NothingTracked
  BY DEF NothingTracked
<1>3. (/\ blocks \in Seq(Events) /\ pollerAt = "poll" /\ cursor = startedAt /\ startedAt \in Nat
       /\ logs = <<>> /\ channel = <<>> /\ intents = NothingTracked
       => FlowSound)'
  BY NothingFetched, PTL
<1>4. QED
  BY <1>1, <1>2, <1>3

LEMMA FlowNext ==
  ASSUME ChainSound, CursorsSound, RequestsSound, FlowSound, [Next]_vars
  PROVE  FlowSound'
<1>1. CASE get_block_number
  <2>1. /\ pollerAt = "poll" /\ pollerAt' = "fetch"
        /\ UNCHANGED <<up, blocks, startedAt, cursor, to, logs, channel, router>>
    BY <1>1 DEF get_block_number, service, world
  <2>2. Scanned' = Scanned
    BY <2>1, ScannedStands DEF Reach
  <2>3. PICK h \in Seq(Events) : FlowsThrough(h)
    BY DEF FlowSound
  <2>4. FlowsThrough(h)'
    BY <2>1, <2>2, <2>3, MirrorsStand DEF FlowsThrough
  <2>5. Within(startedAt, cursor)' /\ startedAt' <= cursor'
    BY <2>1 DEF FlowSound, Within
  <2>6. /\ logs' \in Seq(Events) /\ channel' \in Seq(Events) /\ Len(channel') <= ChannelSize
        /\ logs' = <<>>
        /\ ~up' => /\ startedAt' = cursor' /\ logs' = <<>> /\ channel' = <<>>
                   /\ intents' = NothingTracked
    BY <2>1 DEF FlowSound, router
  <2>7. QED
    BY <2>4, <2>5, <2>6 DEF FlowSound
<1>2. CASE run_evm_poller
  BY <1>1, <1>2, FetchFlow, SendFlow, SavedFlow DEF run_evm_poller
<1>3. CASE HandleEvent
  BY <1>3, OpenFlow, LifecycleFlow DEF HandleEvent
<1>4. CASE handle_quote_request \/ connect_ws \/ WsInvalidKey \/ WsClosed \/ handle_ws_message
  <2>1. UNCHANGED <<service, poller, channel, router, world>>
    BY <1>4 DEF handle_quote_request, connect_ws, WsInvalidKey, WsClosed, handle_ws_message,
                WsMoves
  <2>2. QED
    BY <2>1, FlowStands DEF service, poller, world
<1>5. CASE DeadlinePasses \/ UNCHANGED vars
  <2>1. UNCHANGED <<service, poller, channel, router, blocks>>
    BY <1>5 DEF DeadlinePasses, vars, world
  <2>2. QED
    BY <2>1, FlowStands DEF service, poller
<1>6. QED
  BY <1>2, <1>3, <1>4, <1>5, FreshFlow, PublishFlow, ChainFlow DEF Next

-----------------------------------------------------------------------------
(* What was sent *)

\* The topic filter drops no event it should let pass.
LEMMA NoneFilteredOut ==
  ASSUME blocks \in Seq(Events), NEW a, NEW b, Within(a, b),
         NEW n \in a + 1 .. b, IsWatched(blocks[n])
  PROVE  LET w == Watched(BlockRange(a + 1, b))
         IN  \E k \in DOMAIN w : w[k] = blocks[n]
<1>1. PICK r, i : r = BlockRange(a + 1, b) /\ i = n - a
  OBVIOUS
<1>2. a \in Nat /\ b \in Nat
  BY DEF Within
<1>3. i \in 1 .. b - a /\ a + i = n /\ a < b
  BY <1>1, <1>2
<1>4. r \in Seq(Events) /\ Len(r) = b - a /\ r[i] = blocks[n]
  BY <1>1, <1>3, RangeIs
<1>5. i \in Kept(r)
  BY <1>3, <1>4, LenProperties DEF Kept
<1>6. PICK k : k = Rank(Kept(r), i)
  OBVIOUS
<1>7. k \in 1 .. Cardinality(Kept(r))
  BY <1>4, <1>5, <1>6, KeptIsFinite, RankStep
<1>8. Place(r, k) = i
  BY <1>4, <1>5, <1>6, <1>7, PlaceOfRank
<1>9. /\ Watched(r) \in Seq(Events) /\ Len(Watched(r)) = Cardinality(Kept(r))
      /\ Watched(r)[k] = r[Place(r, k)]
  BY <1>4, <1>7, WatchedIs
<1>10. k \in DOMAIN Watched(r) /\ Watched(r)[k] = blocks[n]
  BY <1>4, <1>7, <1>8, <1>9, LenProperties
<1>11. QED
  BY <1>1, <1>10

LEMMA SentStands ==
  ASSUME SentSound, UNCHANGED <<up, cursor_file, poller, blocks>>
  PROVE  SentSound'
<1>1. UNCHANGED <<pollerAt, cursor, to, logs, startedAt, sent, origin>>
  BY DEF poller
<1>2. UNCHANGED <<SentFrom, Reach, Waiting>>
  BY <1>1 DEF SentFrom, Reach, Waiting
<1>3. QED
  BY <1>1, <1>2 DEF SentSound, SavedWasSent, NoneSkipped, Within

\* A run begins behind the saved cursor, or with nothing saved.
LEMMA StartSent ==
  ASSUME CursorsSound, SentSound, Start
  PROVE  SentSound'
<1>1. PICK c \in StartCursors : cursor' = c /\ startedAt' = c
  BY DEF Start
<1>2. ~up /\ UNCHANGED <<cursor_file, pollerAt, sent, origin, blocks>>
  BY DEF Start, world
<1>3. Reach' = c
  BY <1>1, <1>2 DEF Reach, CursorsSound
<1>4. SavedWasSent'
  BY <1>2 DEF SentSound, SavedWasSent
<1>5. c \in Nat
  BY StartCursor
<1>6. CASE cursor_file = 0
  <2>1. SentFrom' = c
    BY <1>1, <1>2, <1>6 DEF SentFrom
  <2>2. Within(SentFrom, Reach)'
    BY <1>3, <1>5, <2>1 DEF Within
  <2>3. NoneSkipped'
    BY <1>3, <1>5, <2>1 DEF NoneSkipped
  <2>4. QED
    BY <1>2, <1>4, <2>2, <2>3 DEF SentSound
<1>7. CASE cursor_file # 0
  <2>1. c = cursor_file
    BY <1>7, CursorFacts DEF StartCursors
  <2>2. SentFrom' = origin
    BY <1>2, <1>7 DEF SentFrom
  <2>3. Within(SentFrom, Reach)'
    BY <1>2, <1>3, <1>5, <2>1, <2>2 DEF SentSound, Within
  <2>4. NoneSkipped'
    BY <1>2, <1>3, <2>1, <2>2 DEF NoneSkipped, SentSound, SavedWasSent
  <2>5. QED
    BY <1>2, <1>4, <2>3, <2>4 DEF SentSound
<1>8. QED
  BY <1>6, <1>7

LEMMA CrashSent ==
  ASSUME SentSound, Crash
  PROVE  SentSound'
<1>1. ~up' /\ UNCHANGED <<cursor_file, sent, origin, blocks>>
  BY DEF Crash, world
<1>2. QED
  BY <1>1 DEF SentSound, SavedWasSent

\* What a batch brings waits to be sent.
LEMMA FetchSent ==
  ASSUME CursorsSound, ChainSound, SentSound, FlowSound, get_logs
  PROVE  SentSound'
<1>1. PICK a, b, c : a = SentFrom /\ b = cursor /\ c = to'
  OBVIOUS
<1>2. /\ up /\ pollerAt = "fetch" /\ pollerAt' = "send" /\ c = Nearer(b + BatchSize, latest)
      /\ logs' = Watched(BlockRange(b + 1, c))
      /\ UNCHANGED <<up, cursor_file, startedAt, sent, origin, blocks>>
  BY <1>1 DEF get_logs, service, world
<1>3. b < latest /\ latest <= Len(blocks) /\ blocks \in Seq(Events) /\ logs = <<>>
  BY <1>1, <1>2 DEF CursorsSound, FlowSound
<1>4. b \in Nat /\ c \in Nat /\ b < c /\ c <= Len(blocks)
  BY <1>1, <1>2, <1>3, CursorFacts DEF Nearer
<1>5. Reach = b /\ Reach' = c /\ SentFrom' = a
  BY <1>1, <1>2 DEF Reach, SentFrom
<1>6. a \in Nat /\ \A n \in a + 1 .. b : IsWatched(blocks[n]) => n \in sent
  <2>1. Within(a, b) /\ \A n \in a + 1 .. b : IsWatched(blocks[n]) => n \in sent \cup Waiting
    BY <1>1, <1>2, <1>5 DEF SentSound, NoneSkipped
  <2>2. Waiting = {}
    <3>1. DOMAIN <<>> = {}
      BY EmptySeq, LenProperties
    <3>2. QED
      BY <1>3, <3>1 DEF Waiting
  <2>3. QED
    BY <2>1, <2>2 DEF Within
<1>7. ASSUME NEW n \in b + 1 .. c, IsWatched(blocks[n])
      PROVE  n \in Waiting'
  <2>1. Within(b, c)
    BY <1>4 DEF Within
  <2>2. PICK k \in DOMAIN logs' : logs'[k] = blocks[n]
    BY <1>2, <1>3, <1>7, <2>1, NoneFilteredOut
  <2>3. n \in 1 .. Len(blocks)
    BY <1>3, <1>4, LenProperties
  <2>4. logs'[k].block = n
    BY <2>2, <2>3 DEF ChainSound
  <2>5. QED
    BY <2>4 DEF Waiting
<1>8. NoneSkipped'
  <2>1. SUFFICES ASSUME NEW n \in a + 1 .. c, IsWatched(blocks[n])
                 PROVE  n \in sent \cup Waiting'
    BY <1>2, <1>5 DEF NoneSkipped
  <2>2. n \in a + 1 .. b \/ n \in b + 1 .. c
    BY <1>4, <1>6
  <2>3. QED
    BY <1>6, <1>7, <2>1, <2>2
<1>9. Within(SentFrom, Reach)'
  BY <1>2, <1>4, <1>5, <1>6 DEF Within
<1>10. QED
  BY <1>2, <1>8, <1>9 DEF SentSound, SavedWasSent

\* The first that waits is put into the channel.
LEMMA SendSent ==
  ASSUME SentSound, FlowSound, send
  PROVE  SentSound'
<1>1. /\ up /\ logs # <<>> /\ logs' = Tail(logs) /\ sent' = sent \cup {Head(logs).block}
      /\ UNCHANGED <<up, cursor_file, pollerAt, cursor, to, startedAt, origin, blocks>>
  BY DEF send, service, world
<1>2. UNCHANGED <<SentFrom, Reach>>
  BY <1>1 DEF SentFrom, Reach
<1>3. logs \in Seq(Events)
  BY DEF FlowSound
<1>4. /\ Head(logs) \in Events /\ Head(logs) = logs[1]
      /\ Tail(logs) \in Seq(Events) /\ Len(Tail(logs)) = Len(logs) - 1
      /\ \A i \in 1 .. Len(Tail(logs)) : Tail(logs)[i] = logs[i + 1]
  BY <1>1, <1>3, HeadTailProperties
<1>5. sent' \subseteq Nat
  BY <1>1, <1>4 DEF SentSound, Events
<1>6. sent \cup Waiting \subseteq sent' \cup Waiting'
  <2>1. SUFFICES ASSUME NEW i \in DOMAIN logs
                 PROVE  logs[i].block \in sent' \cup Waiting'
    BY <1>1 DEF Waiting
  <2>2. CASE i = 1
    BY <1>1, <1>4, <2>2
  <2>3. CASE i # 1
    <3>1. PICK j : j = i - 1
      OBVIOUS
    <3>2. i \in 1 .. Len(logs) /\ Len(logs) \in Nat
      BY <1>3, LenProperties
    <3>3. j \in 1 .. Len(Tail(logs)) /\ j + 1 = i
      BY <1>4, <2>3, <3>1, <3>2
    <3>4. j \in DOMAIN logs' /\ logs'[j] = logs[i]
      <4>1. DOMAIN Tail(logs) = 1 .. Len(Tail(logs))
        BY <1>4, LenProperties
      <4>2. QED
        BY <1>1, <1>4, <3>3, <4>1
    <3>5. QED
      BY <3>4 DEF Waiting
  <2>4. QED
    BY <2>2, <2>3
<1>7. NoneSkipped'
  BY <1>1, <1>2, <1>6 DEF NoneSkipped, SentSound
<1>8. SavedWasSent'
  BY <1>1 DEF SavedWasSent, SentSound
<1>9. Within(SentFrom, Reach)'
  BY <1>1, <1>2 DEF SentSound, Within
<1>10. QED
  BY <1>1, <1>5, <1>7, <1>8, <1>9 DEF SentSound

\* The cursor is saved when nothing waits any more.
LEMMA SaveSent ==
  ASSUME CursorsSound, SentSound, write_last_block
  PROVE  SentSound'
<1>1. /\ up /\ pollerAt = "send" /\ pollerAt' # "send" /\ logs = <<>> /\ cursor' = to
      /\ UNCHANGED <<up, to, logs, startedAt, sent, blocks>>
      /\ cursor_file' \in {cursor_file, to}
      /\ origin' = IF cursor_file = 0 /\ cursor_file' > 0 THEN startedAt ELSE origin
  BY DEF write_last_block, SaveCursor, world
<1>2. cursor < to /\ to <= latest /\ latest <= Len(blocks)
  BY <1>1 DEF CursorsSound
<1>3. to > 0 /\ to <= Len(blocks)
  BY <1>2, CursorFacts
<1>4. Reach = to /\ Reach' = to
  BY <1>1 DEF Reach
<1>5. SentFrom' = SentFrom
  BY <1>1, <1>3, CursorFacts DEF SentFrom
<1>6. Waiting' = Waiting /\ Waiting = {}
  <2>1. DOMAIN <<>> = {}
    BY EmptySeq, LenProperties
  <2>2. QED
    BY <1>1, <2>1 DEF Waiting
<1>7. NoneSkipped' /\ Within(SentFrom, Reach)'
  BY <1>1, <1>4, <1>5, <1>6 DEF SentSound, NoneSkipped, Within
<1>8. SavedWasSent'
  <2>1. CASE cursor_file' = cursor_file /\ origin' = origin
    BY <1>1, <2>1 DEF SentSound, SavedWasSent
  <2>2. CASE cursor_file' = to
    <3>1. SentFrom' = origin'
      BY <1>3, <2>2, CursorFacts DEF SentFrom
    <3>2. \A n \in origin' + 1 .. to : IsWatched(blocks[n]) => n \in sent
      BY <1>1, <1>4, <1>5, <1>6, <3>1 DEF SentSound, NoneSkipped
    <3>3. QED
      BY <1>1, <2>2, <3>2 DEF SavedWasSent
  <2>3. QED
    BY <1>1, <2>1, <2>2, CursorFacts
<1>9. origin' \in Nat /\ cursor_file' <= Len(blocks)
  BY <1>1, <1>3, CursorFacts DEF SentSound
<1>10. QED
  BY <1>1, <1>7, <1>8, <1>9 DEF SentSound

\* Blocks are added behind everything that was saved or fetched.
LEMMA ChainSent ==
  ASSUME CursorsSound, SentSound, ChainStep
  PROVE  SentSound'
<1>1. UNCHANGED <<up, cursor_file, pollerAt, cursor, to, logs, startedAt, sent, origin>>
  BY DEF ChainStep, service, poller
<1>2. UNCHANGED <<SentFrom, Reach, Waiting>>
  BY <1>1 DEF SentFrom, Reach, Waiting
<1>3. PICK e \in Events : blocks' = Append(blocks, e)
  BY ChainOnlyGrows DEF ChainStep, CursorsSound
<1>4. /\ Len(blocks) \in Nat /\ Len(blocks') = Len(blocks) + 1
      /\ \A n \in 1 .. Len(blocks) : blocks'[n] = blocks[n]
  BY <1>3, AppendProperties, LenProperties DEF CursorsSound
<1>5. SavedWasSent'
  <2>1. SUFFICES ASSUME NEW n \in origin + 1 .. cursor_file, IsWatched(blocks'[n])
                 PROVE  n \in sent
    BY <1>1 DEF SavedWasSent
  <2>2. n \in 1 .. Len(blocks)
    BY <1>4, CursorFacts DEF SentSound
  <2>3. QED
    BY <1>4, <2>1, <2>2 DEF SentSound, SavedWasSent
<1>6. cursor_file' <= Len(blocks')
  BY <1>1, <1>4, CursorFacts DEF SentSound
<1>7. CASE up
  <2>1. Within(SentFrom, Reach) /\ NoneSkipped
    BY <1>7 DEF SentSound
  <2>2. Within(SentFrom, Reach)'
    BY <1>2, <1>4, <2>1 DEF Within
  <2>3. ASSUME NEW n \in SentFrom + 1 .. Reach, IsWatched(blocks'[n])
        PROVE  n \in sent \cup Waiting
    <3>1. n \in 1 .. Len(blocks)
      BY <1>4, <2>1 DEF Within
    <3>2. QED
      BY <1>4, <2>1, <2>3, <3>1 DEF NoneSkipped
  <2>4. NoneSkipped'
    BY <1>1, <1>2, <2>3 DEF NoneSkipped
  <2>5. QED
    BY <1>1, <1>5, <1>6, <2>2, <2>4 DEF SentSound
<1>8. CASE ~up
  BY <1>1, <1>5, <1>6, <1>8 DEF SentSound
<1>9. QED
  BY <1>7, <1>8

LEMMA SentNext ==
  ASSUME CursorsSound, ChainSound, SentSound, FlowSound, [Next]_vars
  PROVE  SentSound'
<1>1. CASE get_block_number
  <2>1. /\ pollerAt = "poll" /\ pollerAt' = "fetch"
        /\ UNCHANGED <<up, cursor_file, cursor, to, logs, startedAt, sent, origin, blocks>>
    BY <1>1 DEF get_block_number, service, world
  <2>2. UNCHANGED <<SentFrom, Reach, Waiting>>
    BY <2>1 DEF SentFrom, Reach, Waiting
  <2>3. QED
    BY <2>1, <2>2 DEF SentSound, SavedWasSent, NoneSkipped, Within
<1>2. CASE run_evm_poller
  BY <1>1, <1>2, FetchSent, SendSent, SaveSent DEF run_evm_poller
<1>3. CASE HandleEvent \/ publish_quote_request \/ handle_quote_request
  <2>1. UNCHANGED <<service, poller, world>>
    BY <1>3 DEF HandleEvent, handle_open, handle_lifecycle, publish_quote_request,
                handle_quote_request
  <2>2. QED
    BY <2>1, SentStands DEF service, world
<1>4. CASE connect_ws \/ WsInvalidKey \/ WsClosed \/ handle_ws_message
  BY <1>4, SentStands DEF connect_ws, WsInvalidKey, WsClosed, handle_ws_message, WsMoves,
                          service, world
<1>5. CASE DeadlinePasses \/ UNCHANGED vars
  BY <1>5, SentStands DEF DeadlinePasses, vars, service, world
<1>6. QED
  BY <1>2, <1>3, <1>4, <1>5, StartSent, CrashSent, ChainSent DEF Next

\* What is handled was in the channel.
LEMMA HandledNext ==
  ASSUME handled \subseteq Nat, FlowSound, [Next]_vars
  PROVE  (handled \subseteq Nat)'
<1>1. CASE HandleEvent
  <2>1. channel # <<>> /\ handled' = handled \cup {Head(channel).block}
    BY <1>1 DEF HandleEvent, handle_open, handle_lifecycle, Receive
  <2>2. Head(channel) \in Events
    BY <2>1, HeadIsEvent DEF FlowSound
  <2>3. QED
    BY <2>1, <2>2 DEF Events
<1>2. CASE Crash
  BY <1>2 DEF Crash
<1>3. CASE publish_quote_request
  BY <1>3 DEF publish_quote_request
<1>4. CASE Start \/ run_evm_poller \/ handle_quote_request
  BY <1>4 DEF Start, run_evm_poller, get_block_number, get_logs, send, write_last_block,
              handle_quote_request, router
<1>5. CASE connect_ws \/ WsInvalidKey \/ WsClosed \/ handle_ws_message
  BY <1>5 DEF connect_ws, WsInvalidKey, WsClosed, handle_ws_message, WsMoves, router
<1>6. CASE DeadlinePasses \/ ChainStep \/ UNCHANGED vars
  BY <1>6 DEF DeadlinePasses, ChainStep, vars, router
<1>7. QED
  BY <1>1, <1>2, <1>3, <1>4, <1>5, <1>6 DEF Next

-----------------------------------------------------------------------------
(* Chain and types *)

LEMMA ChainStandsSound ==
  ASSUME ChainSound, UNCHANGED chain
  PROVE  ChainSound'
BY DEF ChainSound, ChainTypeOK, OpensFirst, chain

LEMMA ChainSoundNext ==
  ASSUME ChainSound, [Next]_vars
  PROVE  ChainSound'
<1>1. CASE ChainStep
  BY <1>1, ChainKeepsSound DEF ChainStep
<1>2. CASE Start \/ Crash
  BY <1>2, ChainStandsSound DEF Start, Crash, world, chain
<1>3. CASE run_evm_poller
  BY <1>3, ChainStandsSound DEF run_evm_poller, get_block_number, get_logs, send,
                                write_last_block, world, chain
<1>4. CASE HandleEvent \/ publish_quote_request \/ handle_quote_request
  BY <1>4, ChainStandsSound DEF HandleEvent, handle_open, handle_lifecycle,
                                publish_quote_request, handle_quote_request, world, chain
<1>5. CASE connect_ws \/ WsInvalidKey \/ WsClosed \/ handle_ws_message
  BY <1>5, ChainStandsSound DEF connect_ws, WsInvalidKey, WsClosed, handle_ws_message,
                                WsMoves, world, chain
<1>6. CASE DeadlinePasses \/ UNCHANGED vars
  BY <1>6, ChainStandsSound DEF DeadlinePasses, vars, world, chain
<1>7. QED
  BY <1>1, <1>2, <1>3, <1>4, <1>5, <1>6 DEF Next

LEMMA ServiceNext ==
  ASSUME ServiceTypes, [Next]_vars
  PROVE  ServiceTypes'
<1>1. CASE Start
  <2>1. up' = TRUE /\ wsAt' \in {"off", "connecting"}
        /\ UNCHANGED <<crashes, lapsed, wsChannel>>
    BY <1>1 DEF Start, world
  <2>2. QED
    BY <2>1 DEF ServiceTypes
<1>2. CASE Crash
  <2>1. up' = FALSE /\ wsAt' = "off" /\ wsChannel' = 0 /\ lapsed' = lapsed
        /\ crashes < MaxCrashes /\ crashes' = crashes + 1
    BY <1>2 DEF Crash, world
  <2>2. crashes' \in 0 .. MaxCrashes /\ 0 \in 0 .. WsChannelSize
    BY <2>1, SizesAssumption DEF ServiceTypes
  <2>3. QED
    BY <2>1, <2>2 DEF ServiceTypes
<1>3. CASE handle_quote_request
  <2>1. UNCHANGED <<up, crashes, lapsed, wsAt>> /\ wsChannel > 0 /\ wsChannel' = wsChannel - 1
    BY <1>3 DEF handle_quote_request, service, world
  <2>2. wsChannel' \in 0 .. WsChannelSize
    BY <2>1, SizesAssumption DEF ServiceTypes
  <2>3. QED
    BY <2>1, <2>2 DEF ServiceTypes
<1>4. CASE connect_ws \/ WsInvalidKey \/ WsClosed
  <2>1. /\ UNCHANGED <<up, crashes, lapsed, wsChannel>>
        /\ wsAt' \in {"connecting", "listening", "refused"}
    BY <1>4 DEF connect_ws, WsInvalidKey, WsClosed, WsMoves, service, world
  <2>2. QED
    BY <2>1 DEF ServiceTypes
<1>5. CASE handle_ws_message
  <2>1. UNCHANGED <<up, crashes, lapsed, wsAt>> /\ wsChannel' = Nearer(wsChannel + 1, WsChannelSize)
    BY <1>5 DEF handle_ws_message, service, world
  <2>2. wsChannel' \in 0 .. WsChannelSize
    BY <2>1, SizesAssumption DEF ServiceTypes, Nearer
  <2>3. QED
    BY <2>1, <2>2 DEF ServiceTypes
<1>6. CASE DeadlinePasses
  <2>1. UNCHANGED <<up, crashes, wsAt, wsChannel>> /\ lapsed' \subseteq lapsed \cup Claims
    BY <1>6 DEF DeadlinePasses, service, ws
  <2>2. QED
    BY <2>1 DEF ServiceTypes
\* Nothing else touches them.
<1>7. ASSUME UNCHANGED <<up, crashes, lapsed, ws>>
      PROVE  ServiceTypes'
  BY <1>7 DEF ServiceTypes, ws
<1>8. CASE run_evm_poller
  BY <1>7, <1>8 DEF run_evm_poller, get_block_number, get_logs, send, write_last_block,
                    service, world
<1>9. CASE HandleEvent \/ publish_quote_request
  BY <1>7, <1>9 DEF HandleEvent, handle_open, handle_lifecycle, publish_quote_request,
                    service, world
<1>10. CASE ChainStep \/ UNCHANGED vars
  BY <1>7, <1>10 DEF ChainStep, vars, service, world
<1>11. QED
  BY <1>1, <1>2, <1>3, <1>4, <1>5, <1>6, <1>8, <1>9, <1>10 DEF Next

-----------------------------------------------------------------------------
(* The invariant *)

LEMMA RouterInit ==
  ASSUME Init
  PROVE  RouterInv
<1>1. blocks = <<>> /\ up = FALSE /\ cursor_file = 0 /\ pollerAt = "poll"
      /\ cursor = 0 /\ latest = 0 /\ to = 0 /\ startedAt = 0
      /\ logs = <<>> /\ channel = <<>>
      /\ intents = NothingTracked /\ handling = NoOrder
      /\ crashes = 0 /\ wsAt = "off" /\ wsChannel = 0 /\ lapsed = {}
      /\ status = [o \in Claims |-> "NONE"] /\ holder = [o \in Claims |-> Nobody]
  BY DEF Init, ChainInit, Ledger!Init
<1>2. blocks \in Seq(Events) /\ Len(blocks) = 0
  BY <1>1, EmptySeq
<1>3. CursorsSound
  BY <1>1, <1>2 DEF CursorsSound
<1>4. RequestsSound
  BY <1>1 DEF RequestsSound, NothingTracked
<1>5. ChainSound
  <2>1. ChainTypeOK
    BY <1>1, <1>2 DEF ChainTypeOK
  <2>2. 1 .. Len(blocks) = {}
    BY <1>2
  <2>3. QED
    BY <2>1, <2>2 DEF ChainSound, OpensFirst
<1>6. FlowSound
  BY <1>1, <1>2, NothingFetched
<1>7. ServiceTypes
  <2>1. 0 \in 0 .. MaxCrashes /\ 0 \in 0 .. WsChannelSize
    BY SizesAssumption
  <2>2. up \in BOOLEAN /\ lapsed \subseteq Claims
    BY <1>1
  <2>3. QED
    BY <1>1, <2>1, <2>2 DEF ServiceTypes
<1>8. SentSound
  <2>1. sent = {} /\ origin = 0
    BY DEF Init
  <2>2. cursor_file <= Len(blocks) /\ SavedWasSent
    BY <1>1, <1>2, <2>1 DEF SavedWasSent
  <2>3. QED
    BY <1>1, <2>1, <2>2 DEF SentSound
<1>9. handled \subseteq Nat
  BY DEF Init
<1>10. QED
  BY <1>3, <1>4, <1>5, <1>6, <1>7, <1>8, <1>9 DEF RouterInv

\* Batches end behind the head the poller saw, what was fetched is handled in its
\* order, and a quote request is under way for an intent that is open: no event of
\* its claim overtakes the answer.
THEOREM RouterInvariant == Spec => []RouterInv
<1>1. Init => RouterInv
  BY RouterInit
<1>2. RouterInv /\ [Next]_vars => RouterInv'
  <2>1. SUFFICES ASSUME RouterInv, [Next]_vars PROVE RouterInv'
    OBVIOUS
  <2>2. /\ ChainSound /\ CursorsSound /\ RequestsSound /\ FlowSound /\ SentSound
        /\ ServiceTypes /\ handled \subseteq Nat
    BY <2>1 DEF RouterInv
  <2>3. ChainSound' /\ CursorsSound' /\ ServiceTypes'
    BY <2>1, <2>2, ChainSoundNext, CursorsNext, ServiceNext
  <2>4. channel \in Seq(Events)
    BY <2>2 DEF FlowSound
  <2>5. RequestsSound'
    BY <2>1, <2>2, <2>4, RequestsNext
  <2>6. FlowSound' /\ SentSound' /\ (handled \subseteq Nat)'
    BY <2>1, <2>2, FlowNext, SentNext, HandledNext
  <2>7. QED
    BY <2>3, <2>5, <2>6 DEF RouterInv
<1>3. QED
  BY <1>1, <1>2, PTL DEF Spec

\* The variables keep the types TypeOK gives them, the bounds of the two channels
\* included (intents-router/src/main.rs).
THEOREM TypeSafety == Spec => []TypeOK
<1>1. RouterInv => TypeOK
  <2>1. SUFFICES ASSUME RouterInv PROVE TypeOK
    OBVIOUS
  <2>2. ChainTypeOK
    BY <2>1 DEF RouterInv, ChainSound
  <2>3. /\ {cursor_file, cursor, latest, to, startedAt} \subseteq Nat
        /\ pollerAt \in {"poll", "fetch", "send"}
    BY <2>1 DEF RouterInv, CursorsSound
  <2>4. logs \in Seq(Events) /\ channel \in Seq(Events) /\ Len(channel) <= ChannelSize
    BY <2>1 DEF RouterInv, FlowSound
  <2>5. /\ intents \in [Claims -> IntentLifecycle \cup {"Untracked"}]
        /\ handling \in Claims \cup {NoOrder}
    BY <2>1 DEF RouterInv, RequestsSound
  <2>6. ServiceTypes
    BY <2>1 DEF RouterInv
  <2>7. sent \subseteq Nat /\ origin \in Nat /\ handled \subseteq Nat
    BY <2>1 DEF RouterInv, SentSound
  <2>8. QED
    BY <2>2, <2>3, <2>4, <2>5, <2>6, <2>7 DEF TypeOK, ServiceTypes
<1>2. QED
  BY <1>1, RouterInvariant, PTL

\* What the service knows of every claim is the last event about it among those it
\* has received, for any sizes of batches and channels, any interleaving of its
\* tasks with the chain, and through crashes (intents-router/src/router.rs).
THEOREM MirrorsAlways == Spec => []MirrorsLog
<1>1. RouterInv => MirrorsLog
  <2>1. SUFFICES ASSUME RouterInv PROVE MirrorsLog
    OBVIOUS
  <2>2. logs \in Seq(Events) /\ channel \in Seq(Events)
    BY <2>1 DEF RouterInv, FlowSound
  <2>3. PICK h \in Seq(Events) : FlowsThrough(h)
    BY <2>1 DEF RouterInv, FlowSound
  <2>4. Scanned = h \o (channel \o logs)
    BY <2>3 DEF FlowsThrough
  <2>5. LET scanned == h \o (channel \o logs)
        IN  SubSeq(scanned, 1, Len(scanned) - Len(logs) - Len(channel)) = h
    BY <2>2, HandledPart
  <2>6. Handled = h
    BY <2>4, <2>5 DEF Handled
  <2>7. QED
    BY <2>3, <2>6 DEF MirrorsLog, FlowsThrough
<1>2. QED
  BY <1>1, RouterInvariant, PTL

\* Whatever its sizes, wherever it dies or fails to save, and however the chain
\* grows: no event between the block where the service began and its saved cursor
\* was left out of the channel (intents-router/src/evm/poller.rs).
THEOREM SavedBlocksWereSent == Spec => []SavedWasSent
<1>1. RouterInv => SavedWasSent
  BY DEF RouterInv, SentSound
<1>2. QED
  BY <1>1, RouterInvariant, PTL
=============================================================================
