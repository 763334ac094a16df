-------------------------- MODULE AyniIntentsRouter ---------------------------
(***************************************************************************)
(* intents-router/: a service that copies the claims' life from the chain. *)
(* Three tasks share channels: the poller fetches blocks and sends their   *)
(* events, the router handles them one at a time and asks the NEAR bus for *)
(* quotes, the WebSocket task forwards the bus's own requests.  A crash    *)
(* loses everything but the cursor file.  A failed RPC call is retried     *)
(* after a pause with nothing changed, and is a step that does not happen. *)
(***************************************************************************)
EXTENDS AyniEvents, FiniteSets, TLC

CONSTANTS
  NoOrder,
  BatchSize, Lookback, StartBlock,
  ChannelSize, WsChannelSize,
  HasSolverKey,
  MaxCrashes         \* bounds the crashes

ASSUME SizesAssumption ==
  /\ {BatchSize, ChannelSize, WsChannelSize} \subseteq Nat \ {0}
  /\ {Lookback, StartBlock, MaxCrashes} \subseteq Nat
  /\ NoOrder \notin Claims
  /\ HasSolverKey \in BOOLEAN

VARIABLES
  up, crashes, cursor_file,
  pollerAt, cursor, latest, to, logs,
  startedAt,         \* the cursor this run of the service began with
  channel,
  intents,           \* SharedState: the lifecycle of each intent it tracks
  handling,          \* the order whose quote request is under way
  lapsed,            \* claims whose fill deadline the service's clock has passed
  wsAt, wsChannel

\* For the properties alone.
VARIABLES
  sent,              \* the blocks whose events have been put into the channel, ever
  origin,            \* where the run that first saved a cursor had begun
  handled            \* the blocks whose events this run has handled

service == <<up, crashes, cursor_file>>
poller == <<pollerAt, cursor, latest, to, logs, startedAt, sent, origin>>
router == <<intents, handling, handled>>
ws == <<wsAt, wsChannel>>
world == <<status, holder, blocks, lapsed>>
vars == <<service, poller, channel, router, ws, world>>

IntentLifecycle ==
  {"Open", "PublishedToNear", "Filled", "Repaid", "Liquidated", "Cancelled", "Expired"}
Tracked(o) == intents[o] # "Untracked"
Idle == up /\ handling = NoOrder

Nearer(a, b) == IF a < b THEN a ELSE b

-----------------------------------------------------------------------------
\* What the poller fetches.

\* The topic filter lets every event pass but ClaimTransferred.  This is
\* SelectSeq without its recursion, so that facts about it can be proved.
IsWatched(event) == event.kind # "Transferred"
Kept(events) == {i \in DOMAIN events : IsWatched(events[i])}
Rank(places, i) == Cardinality({j \in places : j <= i})
Watched(events) ==
  LET kept == Kept(events)
  IN  [k \in 1..Cardinality(kept) |->
         events[CHOOSE i \in kept : Rank(kept, i) = k]]

-----------------------------------------------------------------------------
\* The process: start, crash.

StartCursors ==
  IF cursor_file > 0 THEN {cursor_file}
  ELSE IF StartBlock > 0 THEN {StartBlock}
  ELSE {0, IF Len(blocks) > Lookback THEN Len(blocks) - Lookback ELSE 0}

Start ==
  /\ ~up /\ up' = TRUE
  /\ \E c \in StartCursors : cursor' = c /\ startedAt' = c
  /\ wsAt' = IF HasSolverKey THEN "connecting" ELSE "off"
  /\ UNCHANGED <<crashes, cursor_file, pollerAt, latest, to, logs, sent, origin, channel,
                 router, wsChannel, world>>

NothingTracked == [o \in Claims |-> "Untracked"]

Crash ==
  /\ up /\ up' = FALSE
  /\ crashes < MaxCrashes /\ crashes' = crashes + 1
  /\ pollerAt' = "poll" /\ logs' = <<>> /\ channel' = <<>>
  /\ cursor' = 0 /\ latest' = 0 /\ to' = 0 /\ startedAt' = 0
  /\ intents' = NothingTracked /\ handling' = NoOrder /\ handled' = {}
  /\ wsAt' = "off" /\ wsChannel' = 0
  /\ UNCHANGED <<cursor_file, sent, origin, world>>

Init ==
  /\ ChainInit
  /\ up = FALSE /\ crashes = 0 /\ cursor_file = 0
  /\ pollerAt = "poll" /\ logs = <<>> /\ channel = <<>>
  /\ cursor = 0 /\ latest = 0 /\ to = 0 /\ startedAt = 0
  /\ intents = NothingTracked /\ handling = NoOrder
  /\ wsAt = "off" /\ wsChannel = 0
  /\ lapsed = {}
  /\ sent = {} /\ origin = 0 /\ handled = {}

-----------------------------------------------------------------------------
\* evm/poller.rs

BehindHead_bugOneBlock == Len(blocks) > cursor + 1

BehindHead == Len(blocks) > cursor

get_block_number ==
  /\ up /\ pollerAt = "poll" /\ BehindHead
  /\ latest' = Len(blocks) /\ pollerAt' = "fetch"
  /\ UNCHANGED <<cursor, to, logs, startedAt, sent, origin, service, channel, router, ws, world>>

\* Writing the cursor file may fail; the poller only warns and goes on.
SaveCursor(n) ==
  /\ cursor_file' \in {cursor_file, n}
  /\ origin' = IF cursor_file = 0 /\ cursor_file' > 0 THEN startedAt ELSE origin

get_logs_bugSavesFirst ==
  /\ up /\ pollerAt = "fetch"
  /\ to' = Nearer(cursor + BatchSize, latest)
  /\ logs' = Watched(BlockRange(cursor + 1, to'))
  /\ pollerAt' = "send" /\ SaveCursor(to')
  /\ UNCHANGED <<cursor, latest, startedAt, sent, up, crashes, channel, router, ws, world>>

get_logs ==
  /\ up /\ pollerAt = "fetch"
  /\ to' = Nearer(cursor + BatchSize, latest)
  /\ logs' = Watched(BlockRange(cursor + 1, to'))
  /\ pollerAt' = "send"
  /\ UNCHANGED <<cursor, latest, startedAt, sent, origin, service, channel, router, ws, world>>

send_bugUnbounded ==
  /\ up /\ pollerAt = "send" /\ logs # <<>>
  /\ channel' = Append(channel, Head(logs)) /\ logs' = Tail(logs)
  /\ sent' = sent \cup {Head(logs).block}
  /\ UNCHANGED <<pollerAt, cursor, latest, to, startedAt, origin, service, router, ws, world>>

send ==
  /\ up /\ pollerAt = "send" /\ logs # <<>>
  /\ Len(channel) < ChannelSize
  /\ channel' = Append(channel, Head(logs)) /\ logs' = Tail(logs)
  /\ sent' = sent \cup {Head(logs).block}
  /\ UNCHANGED <<pollerAt, cursor, latest, to, startedAt, origin, service, router, ws, world>>

write_last_block ==
  /\ up /\ pollerAt = "send" /\ logs = <<>>
  /\ cursor' = to /\ SaveCursor(to)
  /\ pollerAt' = IF to < latest THEN "fetch" ELSE "poll"
  /\ UNCHANGED <<latest, to, logs, startedAt, sent, up, crashes, channel, router, ws, world>>

run_evm_poller == get_block_number \/ get_logs \/ send \/ write_last_block

-----------------------------------------------------------------------------
\* router.rs

Receive_bugWhilePublishing ==
  /\ up /\ channel # <<>>
  /\ channel' = Tail(channel) /\ handled' = handled \cup {Head(channel).block}

\* The event at the head of the channel is taken out.
Receive ==
  /\ Idle /\ channel # <<>>
  /\ channel' = Tail(channel) /\ handled' = handled \cup {Head(channel).block}

SetLifecycle(o, l) == intents' = [intents EXCEPT ![o] = l]

handle_open_already_tracked(o) == Tracked(o) /\ UNCHANGED <<intents, handling>>

handle_open_expired(o) ==
  /\ ~Tracked(o) /\ o \in lapsed
  /\ SetLifecycle(o, "Expired") /\ UNCHANGED handling

handle_open_publish(o) ==
  /\ ~Tracked(o) /\ o \notin lapsed
  /\ SetLifecycle(o, "Open") /\ handling' = o

handle_open ==
  /\ Receive /\ Head(channel).kind = "Open"
  /\ LET o == Head(channel).order
     IN  \/ handle_open_already_tracked(o)
         \/ handle_open_expired(o)
         \/ handle_open_publish(o)
  /\ UNCHANGED <<service, poller, ws, world>>

Updated(o, kind) == IF Tracked(o) THEN kind ELSE "Untracked"
LifecycleEvents == {"Filled", "Cancelled", "Repaid", "Liquidated"}

handle_lifecycle ==
  /\ Receive /\ Head(channel).kind \in LifecycleEvents
  /\ LET event == Head(channel)
     IN  SetLifecycle(event.order, Updated(event.order, event.kind))
  /\ UNCHANGED <<handling, service, poller, ws, world>>

HandleEvent == handle_open \/ handle_lifecycle

\* An answer, an empty one included, or an error or timeout: then the intent
\* stays Open.
publish_quote_request ==
  /\ up /\ handling # NoOrder /\ handling' = NoOrder
  /\ intents' \in {intents, [intents EXCEPT ![handling] = "PublishedToNear"]}
  /\ UNCHANGED <<handled, service, poller, channel, ws, world>>

handle_quote_request ==
  /\ Idle /\ wsChannel > 0 /\ wsChannel' = wsChannel - 1
  /\ UNCHANGED <<wsAt, service, poller, channel, router, world>>

-----------------------------------------------------------------------------
\* near/ws.rs

WsMoves(from, new) ==
  /\ up /\ wsAt = from /\ wsAt' = new
  /\ UNCHANGED <<wsChannel, service, poller, channel, router, world>>

connect_ws == WsMoves("connecting", "listening")
WsInvalidKey == WsMoves("connecting", "refused")
WsClosed_bugGivesUp == WsMoves("listening", "off")
WsClosed == WsMoves("listening", "connecting")

\* A full channel drops the request.
handle_ws_message ==
  /\ up /\ wsAt = "listening"
  /\ wsChannel' = Nearer(wsChannel + 1, WsChannelSize)
  /\ UNCHANGED <<wsAt, service, poller, channel, router, world>>

-----------------------------------------------------------------------------
DeadlinePasses ==
  /\ \E o \in Claims : status[o] # "NONE" /\ lapsed' = lapsed \cup {o}
  /\ UNCHANGED <<status, holder, blocks, service, poller, channel, router, ws>>

ChainStep ==
  /\ ChainNext
  /\ UNCHANGED <<lapsed, service, poller, channel, router, ws>>

Next ==
  \/ Start \/ Crash
  \/ run_evm_poller
  \/ HandleEvent \/ publish_quote_request \/ handle_quote_request
  \/ connect_ws \/ WsInvalidKey \/ WsClosed \/ handle_ws_message
  \/ DeadlinePasses \/ ChainStep

\* The container is restarted (docker-compose.yml), a failed RPC call is
\* retried until it succeeds, a quote request ends by its timeout, and
\* tokio::select! takes a ready branch in the end.  Nothing is assumed of the
\* chain, of the bus's own requests or of how long a connection lasts.
Fairness ==
  /\ WF_vars(Start) /\ WF_vars(run_evm_poller)
  /\ WF_vars(HandleEvent) /\ WF_vars(publish_quote_request)
  /\ WF_vars(connect_ws)

Spec == Init /\ [][Next]_vars /\ Fairness

-----------------------------------------------------------------------------
\* Types: the values each variable takes.
TypeOK ==
  /\ ChainTypeOK
  /\ up \in BOOLEAN /\ crashes \in 0..MaxCrashes
  /\ {cursor_file, cursor, latest, to, startedAt} \subseteq Nat
  /\ pollerAt \in {"poll", "fetch", "send"}
  /\ logs \in Seq(Events)
  /\ channel \in Seq(Events) /\ Len(channel) <= ChannelSize
  /\ intents \in [Claims -> IntentLifecycle \cup {"Untracked"}]
  /\ handling \in Claims \cup {NoOrder}
  /\ lapsed \subseteq Claims
  /\ wsAt \in {"off", "connecting", "listening", "refused"}
  /\ wsChannel \in 0..WsChannelSize
  /\ sent \subseteq Nat /\ origin \in Nat /\ handled \subseteq Nat

\* The events this run has received: what was fetched, less what still waits in
\* the poller and in the channel.
Scanned == Watched(BlockRange(startedAt + 1, IF pollerAt = "send" THEN to ELSE cursor))
Handled ==
  LET scanned == Scanned
  IN  SubSeq(scanned, 1, Len(scanned) - Len(logs) - Len(channel))

\* What the service knows of a claim is the last event about it.
Mirrors(received, o) ==
  LET mine == {i \in DOMAIN received : received[i].order = o}
  IN  IF \A i \in mine : received[i].kind # "Open" THEN intents[o] = "Untracked"
      ELSE \E i \in mine :
             /\ \A j \in mine : j <= i
             /\ IF received[i].kind = "Open"
                THEN /\ intents[o] \in {"Open", "PublishedToNear", "Expired"}
                     /\ handling = o => intents[o] = "Open"
                ELSE intents[o] = received[i].kind

\* What is known of a claim is exactly the last event about it among those
\* received in the order of the chain, none skipped and none applied late,
\* wherever batches end and however long the bus takes to answer a request.
\* The last event is not always the claim's status: see IntentsReflectChain.
MirrorsLog ==
  LET received == Handled
  IN  \A o \in Claims : Mirrors(received, o)

\* A run resumes behind the saved cursor, so every event between the block where
\* the service once began and the saved cursor has been put into the channel,
\* wherever in a batch a run died or failed to save.  A service that dies before
\* its first save begins anew, and without a configured block further up the chain.
SavedWasSent ==
  \A n \in origin + 1 .. cursor_file : IsWatched(blocks[n]) => n \in sent

\* In a run that does not die, every event behind the block it began with is
\* eventually handled, and no request is then under way: no batch, full channel or
\* bus holds it up for ever.  What dies with a run, in the channel, was sent and not handled.
EventuallyHandled ==
  \A n \in 1..MaxBlocks :
    up /\ startedAt < n /\ n <= Len(blocks) /\ IsWatched(blocks[n])
      ~> ~up \/ (Idle /\ n \in handled)

\* "Reconnects automatically on disconnection" (near/ws.rs:21): with a
\* solver's key the service listens again and again, unless the bus refuses the key.
StaysSubscribed == HasSolverKey => []<>(wsAt \in {"listening", "refused"})

-----------------------------------------------------------------------------
\* "The in-memory intent state always reflects on-chain reality"
\* (intents-router/README.md:5), taken at its mildest: once the service has
\* caught up with the chain, an intent it tracks has its claim's status.
CaughtUp == Idle /\ pollerAt = "poll" /\ cursor = Len(blocks) /\ channel = <<>>
LifecycleOf ==
  [NONE |-> {}, OPEN |-> {"Open", "PublishedToNear", "Expired"}, FILLED |-> {"Filled"},
   CANCELLED |-> {"Cancelled"}, REPAID |-> {"Repaid"}, LIQUIDATED |-> {"Liquidated"}]
IntentsReflectChain ==
  CaughtUp => \A o \in Claims : Tracked(o) => intents[o] \in LifecycleOf[status[o]]
=============================================================================
