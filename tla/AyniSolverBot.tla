---------------------------- MODULE AyniSolverBot -----------------------------
(***************************************************************************)
(* intents-bot-solver/: one loop that reads the protocol's events, looks   *)
(* at each claim they name once and fills it if it can.  Between its look  *)
(* and its transaction, and between the transaction and the saved cursor,  *)
(* others may act, the transaction may be dropped and the bot may die: an  *)
(* RPC error outside try_fill_order ends the process as a crash does.      *)
(***************************************************************************)
EXTENDS AyniEvents, TLC

CONSTANTS
  Bot,               \* the wallet, one of the Traders
  Usdc,              \* the claims whose debt is USDC
  Principal,         \* a function
  InitialUsdc, MinUsdc,
  MaxUsdc,           \* bounds the wallet
  MaxBlockRange, Lookback, StartBlock,
  MaxCrashes         \* bounds the crashes

ASSUME BotAssumption == Bot \in Traders
ASSUME BotSizesAssumption ==
  /\ MaxBlockRange \in Nat \ {0}
  /\ {InitialUsdc, MinUsdc, MaxUsdc, Lookback, StartBlock, MaxCrashes} \subseteq Nat
  /\ Principal \in [Claims -> Nat] /\ Usdc \subseteq Claims

VARIABLES
  up, crashes, cursor_file,
  at, from_block, to_block, logs, seen_order_ids,
  balance, approved, \* the wallet's USDC; whether the settler may spend it
  mempool,           \* fills sent and not yet executed, in the wallet's order
  lapsed,            \* claims past their fill deadline
  considered,        \* claims that any run has asked the chain about
  paid               \* how often the wallet has paid for a claim

service == <<up, crashes, cursor_file>>
loop == <<at, from_block, to_block, logs, seen_order_ids>>
wallet == <<balance, approved, mempool, paid>>
world == <<status, holder, blocks, lapsed>>
vars == <<service, loop, wallet, world, considered>>

Nearer(a, b) == IF a < b THEN a ELSE b

-----------------------------------------------------------------------------
\* The process.

StartBlocks_bugSkips ==
  IF cursor_file > 0 THEN {cursor_file + 2} ELSE {StartBlock}

StartBlocks ==
  IF cursor_file > 0 THEN {cursor_file + 1}
  ELSE IF StartBlock > 0 THEN {StartBlock}
  ELSE {IF Len(blocks) > Lookback THEN Len(blocks) - Lookback ELSE 0}

Start ==
  /\ ~up /\ up' = TRUE
  /\ from_block' \in StartBlocks
  /\ UNCHANGED <<crashes, cursor_file, at, to_block, logs, seen_order_ids,
                 wallet, world, considered>>

Crash ==
  /\ up /\ up' = FALSE
  /\ crashes < MaxCrashes /\ crashes' = crashes + 1
  /\ at' = "scan" /\ from_block' = 0 /\ to_block' = 0
  /\ logs' = <<>> /\ seen_order_ids' = {}
  /\ UNCHANGED <<cursor_file, wallet, world, considered>>

Init ==
  /\ ChainInit /\ lapsed = {}
  /\ up = FALSE /\ crashes = 0 /\ cursor_file = 0
  /\ at = "scan" /\ from_block = 0 /\ to_block = 0
  /\ logs = <<>> /\ seen_order_ids = {}
  /\ balance = InitialUsdc /\ approved = FALSE /\ mempool = <<>>
  /\ paid = [o \in Claims |-> 0]
  /\ considered = {}

-----------------------------------------------------------------------------
\* The loop.

OrderOf(event) == event.order

get_logs_bugSavesFirst ==
  /\ up /\ at = "scan" /\ from_block <= Len(blocks)
  /\ to_block' = Nearer(from_block + MaxBlockRange - 1, Len(blocks))
  /\ logs' = BlockRange(from_block, to_block')
  /\ at' = "next" /\ cursor_file' = to_block'
  /\ UNCHANGED <<from_block, seen_order_ids, up, crashes, wallet, world, considered>>

\* extract_order_id takes the order of any event, transfers included.
get_logs ==
  /\ up /\ at = "scan" /\ from_block <= Len(blocks)
  /\ to_block' = Nearer(from_block + MaxBlockRange - 1, Len(blocks))
  /\ logs' = BlockRange(from_block, to_block')
  /\ at' = "next"
  /\ UNCHANGED <<from_block, seen_order_ids, service, wallet, world, considered>>

At(here, o) == up /\ at = here /\ logs # <<>> /\ o = OrderOf(Head(logs))
Goes(there) ==
  /\ at' = there
  /\ UNCHANGED <<from_block, to_block, logs, seen_order_ids, service, world>>

\* Whatever came of it, the order is not looked at again.
Done(o) ==
  /\ at' = "next" /\ logs' = Tail(logs)
  /\ seen_order_ids' = seen_order_ids \cup {o}
  /\ UNCHANGED <<from_block, to_block, service, world>>

skip_seen(o) ==
  /\ At("next", o) /\ o \in seen_order_ids
  /\ Done(o) /\ UNCHANGED <<wallet, considered>>

\* Claims that do not exist, too, have a status other than OPEN.
Fillable(o) ==
  /\ status[o] = "OPEN" /\ o \notin lapsed
  /\ o \in Usdc /\ Principal[o] > 0

\* Not fillable, or the call failed: an RPC error within try_fill_order is logged,
\* and the order is done with all the same.
get_debt_position(o) ==
  /\ At("next", o) /\ o \notin seen_order_ids
  /\ considered' = considered \cup {o}
  /\ \/ Fillable(o) /\ Goes("balance")
     \/ Done(o)
  /\ UNCHANGED wallet

Affordable(o) == balance >= Principal[o] /\ balance >= MinUsdc

\* Too little, or the call failed.
usdc_balance(o) ==
  /\ At("balance", o)
  /\ \/ Affordable(o) /\ Goes("approve")
     \/ Done(o)
  /\ UNCHANGED <<wallet, considered>>

allowance(o) ==
  /\ At("approve", o)
  /\ \/ approved /\ Goes("fill")
     \/ Done(o)
  /\ UNCHANGED <<wallet, considered>>

\* The wait for the receipt may fail although the approval is mined.
approve_max(o) ==
  /\ At("approve", o) /\ ~approved
  /\ \/ approved' = TRUE /\ Goes("fill")
     \/ approved' \in BOOLEAN /\ Done(o)
  /\ UNCHANGED <<balance, mempool, paid, considered>>

send_fill(o) ==
  /\ At("fill", o)
  /\ \/ mempool' = Append(mempool, o) /\ Goes("receipt")
     \/ UNCHANGED mempool /\ Done(o)
  /\ UNCHANGED <<balance, approved, paid, considered>>

\* Executed, reverted, dropped, or unknown because the RPC failed: all the same.
fill_receipt(o) ==
  /\ At("receipt", o)
  /\ Done(o) /\ UNCHANGED <<wallet, considered>>

process_order ==
  \E o \in Claims :
    \/ skip_seen(o) \/ get_debt_position(o) \/ usdc_balance(o)
    \/ allowance(o) \/ approve_max(o) \/ send_fill(o) \/ fill_receipt(o)

persist_cursor ==
  /\ up /\ at = "next" /\ logs = <<>>
  /\ cursor_file' = to_block /\ from_block' = to_block + 1
  /\ at' = "scan"
  /\ UNCHANGED <<up, crashes, to_block, logs, seen_order_ids, wallet, world, considered>>

BotStep == get_logs \/ process_order \/ persist_cursor

-----------------------------------------------------------------------------
\* The chain.

\* AyniDestinationSettler.fill: the transfer and confirm_fill, or neither.
ConfirmGuard_bugAnyStatus(o) == o \notin lapsed
ConfirmGuard(o) == status[o] = "OPEN" /\ o \notin lapsed
TransferGuard_bugUncovered(o) == approved /\ o \in Usdc
TransferGuard(o) == approved /\ o \in Usdc /\ balance >= Principal[o]

Leaves == mempool # <<>> /\ mempool' = Tail(mempool)

settle ==
  /\ Leaves
  /\ LET o == Head(mempool)
     IN  /\ ConfirmGuard(o) /\ TransferGuard(o)
         /\ balance' = balance - Principal[o]
         /\ paid' = [paid EXCEPT ![o] = @ + 1]
         /\ status' = [status EXCEPT ![o] = "FILLED"]
         /\ holder' = [holder EXCEPT ![o] = Bot]
         /\ Emit("Filled", o)
  /\ UNCHANGED <<approved, lapsed, service, loop, considered>>

\* Reverted or dropped from the mempool.
fails ==
  /\ Leaves
  /\ UNCHANGED <<balance, approved, paid, service, loop, world, considered>>

FundsArrive ==
  /\ balance < MaxUsdc /\ balance' \in (balance + 1)..MaxUsdc
  /\ UNCHANGED <<approved, mempool, paid, service, loop, world, considered>>

DeadlinePasses ==
  /\ \E o \in Claims : status[o] = "OPEN" /\ lapsed' = lapsed \cup {o}
  /\ UNCHANGED <<status, holder, blocks, wallet, service, loop, considered>>

\* Others fill in time, and never in the bot's name.
ChainStep ==
  /\ ChainNext
  /\ \A o \in Claims :
       status[o] = "OPEN" /\ status'[o] = "FILLED" => o \notin lapsed /\ holder'[o] # Bot
  /\ UNCHANGED <<lapsed, wallet, service, loop, considered>>

Next ==
  \/ Start \/ Crash \/ BotStep
  \/ settle \/ fails \/ FundsArrive
  \/ DeadlinePasses \/ ChainStep

\* The operator restarts the bot, its loop goes on as long as it runs, and a
\* transaction is executed or dropped in the end.
Fairness == WF_vars(Start) /\ WF_vars(BotStep) /\ WF_vars(settle \/ fails)

Spec == Init /\ [][Next]_vars /\ Fairness

-----------------------------------------------------------------------------
\* Types: the values each variable takes.
TypeOK ==
  /\ ChainTypeOK
  /\ up \in BOOLEAN /\ crashes \in 0..MaxCrashes
  /\ {cursor_file, from_block, to_block} \subseteq Nat
  /\ at \in {"scan", "next", "balance", "approve", "fill", "receipt"}
  /\ at \notin {"scan", "next"} => logs # <<>>
  /\ logs \in Seq(Events)
  /\ balance \in Nat /\ approved \in BOOLEAN
  /\ mempool \in Seq(Claims) /\ paid \in [Claims -> Nat]
  /\ {seen_order_ids, considered, lapsed} \subseteq SUBSET Claims

\* The wallet pays at most once for a claim, although a bot that dies between
\* its transaction and its cursor looks at the claim again and may send a
\* second fill while the first is still waiting.
PaysOncePerClaim == \A o \in Claims : paid[o] <= 1

\* The saved cursor never covers an event whose claim no run has asked the chain
\* about: dying anywhere in a batch, the bot does the rest of it after the restart.
NoOrderMissed ==
  \A n \in StartBlock..cursor_file : n > 0 => blocks[n].order \in considered

\* With a first block configured, every claim named since is eventually taken up: the
\* bot asks for its position, though a call that fails then leaves it unfilled.
EveryOrderConsidered ==
  \A o \in Claims :
    (\E n \in StartBlock..Len(blocks) : n > 0 /\ blocks[n].order = o) ~> o \in considered
=============================================================================
