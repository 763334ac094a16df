-------------------------- MODULE AyniSolverBotProofs --------------------------
(* Theorems about the solver bot: what it pays for and what it has looked at. *)
EXTENDS AyniSolverBot, SequenceTheorems, TLAPS

\* A claim that has been filled, or is closed, is never open again.
Past(o) == status[o] \notin {"NONE", "OPEN"}

\* A claim paid for is past its only fill.
PaidSound ==
  /\ paid \in [Claims -> Nat]
  /\ \A o \in Claims : paid[o] > 0 => paid[o] = 1 /\ Past(o)

\* All the blocks from the configured one to k have been looked at.
Covered(k) ==
  \A n \in Nat \ {0} : StartBlock <= n /\ n <= k => n <= Len(blocks) /\ blocks[n].order \in considered

\* Every block of the batch is behind the bot or ahead of it.
BatchSound ==
  \A n \in Nat \ {0} : from_block <= n /\ n <= to_block =>
    /\ n <= Len(blocks)
    /\ blocks[n].order \in considered \/ \E i \in 1 .. Len(logs) : logs[i] = blocks[n]

LoopSound ==
  /\ at \notin {"scan", "next"} => logs # <<>> /\ OrderOf(Head(logs)) \in considered
  /\ at # "scan" => up
  /\ seen_order_ids \subseteq considered
  /\ Covered(cursor_file)
  /\ up => from_block > 0 /\ Covered(from_block - 1)
  /\ at # "scan" => BatchSound

BotTypes ==
  /\ up \in BOOLEAN /\ crashes \in 0 .. MaxCrashes
  /\ {cursor_file, from_block, to_block} \subseteq Nat
  /\ at \in {"scan", "next", "balance", "approve", "fill", "receipt"}
  /\ at \notin {"scan", "next"} => logs # <<>>
  /\ logs \in Seq(Events)
  /\ balance \in Nat /\ approved \in BOOLEAN
  /\ mempool \in Seq(Claims)
  /\ {seen_order_ids, considered, lapsed} \subseteq SUBSET Claims

\* The inductive invariants: what holds whatever the bot was configured with, and
\* what holds when it was told a first block.
BotInv == ChainTypeOK /\ BotTypes /\ PaidSound
SeenInv == BotInv /\ LoopSound
-----------------------------------------------------------------------------
(* The chain *)

Statuses == {"NONE", "OPEN", "FILLED", "CANCELLED", "REPAID", "LIQUIDATED"}
HolderSet == Traders \cup Pools \cup {Nobody}

\* One event more, and claims move forward only.
Progress ==
  /\ ChainTypeOK'
  /\ \A o \in Claims : Past(o) => Past(o)'
  /\ \E e \in Events : blocks' = Append(blocks, e)

LEMMA EmitProgress ==
  ASSUME ChainTypeOK, NEW kind \in EventKinds, NEW o \in Claims, Emit(kind, o),
         status' \in [Claims -> Statuses], holder' \in [Claims -> HolderSet],
         \A p \in Claims : Past(p) => Past(p)'
  PROVE  Progress
<1>1. PICK e : e = [kind |-> kind, order |-> o, block |-> Len(blocks) + 1]
  OBVIOUS
<1>2. blocks \in Seq(Events)
  BY DEF ChainTypeOK
<1>3. Len(blocks) + 1 \in Nat \ {0}
  BY <1>2, LenProperties
<1>4. e \in Events /\ blocks' = Append(blocks, e)
  BY <1>1, <1>3 DEF Emit, Events
<1>5. blocks' \in Seq(Events)
  BY <1>2, <1>4, AppendProperties
<1>6. QED
  BY <1>4, <1>5 DEF Progress, ChainTypeOK, Statuses, HolderSet

\* A claim that becomes something other than open is past, if it was.
LEMMA BecomeProgress ==
  ASSUME ChainTypeOK, NEW o \in Claims, NEW new \in Statuses \ {"NONE"},
         new = "OPEN" => status[o] = "NONE", Ledger!Become(o, new)
  PROVE  status' \in [Claims -> Statuses] /\ \A p \in Claims : Past(p) => Past(p)'
BY DEF ChainTypeOK, Statuses, Ledger!Become, Past

LEMMA ChainProgress ==
  ASSUME ChainTypeOK, ChainNext
  PROVE  Progress
<1>1. PICK o \in Claims :
        \/ open(o) \/ borrow_from_pool(o) \/ fill(o) \/ cancel_claim(o)
        \/ transfer_claim(o) \/ repay_in_full(o) \/ repay_in_part(o)
        \/ liquidate_claim(o)
  BY DEF ChainNext
<1>2. status \in [Claims -> Statuses] /\ holder \in [Claims -> HolderSet]
  BY DEF ChainTypeOK, Statuses, HolderSet
<1>3. ASSUME NEW h \in HolderSet, Ledger!GoesTo(o, h)
      PROVE  holder' \in [Claims -> HolderSet]
  BY <1>2, <1>3 DEF Ledger!GoesTo
<1>4. CASE open(o)
  <2>1. Ledger!Become(o, "OPEN") /\ status[o] = "NONE" /\ holder' = holder
    BY <1>4 DEF open, Ledger!Open
  <2>2. QED
    BY <1>2, <1>4, <2>1, BecomeProgress, EmitProgress DEF open, EventKinds, Statuses
<1>5. CASE borrow_from_pool(o)
  <2>1. Ledger!Become(o, "FILLED") /\ \E h \in HolderSet : Ledger!GoesTo(o, h)
    BY <1>5 DEF borrow_from_pool, Ledger!Borrow, HolderSet
  <2>2. QED
    BY <1>3, <1>5, <2>1, BecomeProgress, EmitProgress DEF borrow_from_pool, EventKinds, Statuses
<1>6. CASE fill(o)
  <2>1. Ledger!Become(o, "FILLED") /\ \E h \in HolderSet : Ledger!GoesTo(o, h)
    BY <1>6 DEF fill, Ledger!Fill, HolderSet
  <2>2. QED
    BY <1>3, <1>6, <2>1, BecomeProgress, EmitProgress DEF fill, EventKinds, Statuses
<1>7. CASE cancel_claim(o)
  <2>1. Ledger!Become(o, "CANCELLED") /\ holder' = holder
    BY <1>7 DEF cancel_claim, Ledger!Cancel
  <2>2. QED
    BY <1>2, <1>7, <2>1, BecomeProgress, EmitProgress DEF cancel_claim, EventKinds, Statuses
<1>8. CASE transfer_claim(o)
  <2>1. status' = status /\ \E h \in HolderSet : Ledger!GoesTo(o, h)
    BY <1>8 DEF transfer_claim, Ledger!Transfer, HolderSet
  <2>2. QED
    BY <1>2, <1>3, <1>8, <2>1, EmitProgress DEF transfer_claim, EventKinds, Past
<1>9. ASSUME Ledger!Close(o)
      PROVE  /\ status' \in [Claims -> Statuses] /\ holder' \in [Claims -> HolderSet]
             /\ \A p \in Claims : Past(p) => Past(p)'
  <2>1. PICK new \in {"REPAID", "LIQUIDATED"} : Ledger!Become(o, new)
    BY <1>9 DEF Ledger!Close
  <2>2. Ledger!GoesTo(o, Nobody)
    BY <1>9 DEF Ledger!Close
  <2>3. QED
    BY <1>3, <2>1, <2>2, BecomeProgress DEF Statuses, HolderSet
<1>10. CASE repay_in_full(o)
  BY <1>9, <1>10, EmitProgress DEF repay_in_full, EventKinds
<1>11. CASE repay_in_part(o)
  <2>1. status' = status /\ holder' = holder
    BY <1>11 DEF repay_in_part
  <2>2. QED
    BY <1>2, <1>11, <2>1, EmitProgress DEF repay_in_part, EventKinds, Past
<1>12. CASE liquidate_claim(o)
  BY <1>9, <1>12, EmitProgress DEF liquidate_claim, EventKinds
<1>13. QED
  BY <1>1, <1>4, <1>5, <1>6, <1>7, <1>8, <1>10, <1>11, <1>12

LEMMA ChainStands ==
  ASSUME ChainTypeOK, UNCHANGED chain
  PROVE  ChainTypeOK' /\ \A o \in Claims : Past(o) => Past(o)'
BY DEF ChainTypeOK, chain, Past

-----------------------------------------------------------------------------
(* Types *)

LEMMA Sizes ==
  /\ MaxBlockRange \in Nat \ {0} /\ InitialUsdc \in Nat /\ MinUsdc \in Nat
  /\ MaxUsdc \in Nat /\ Lookback \in Nat /\ StartBlock \in Nat /\ MaxCrashes \in Nat
  /\ Principal \in [Claims -> Nat] /\ Usdc \subseteq Claims
BY BotSizesAssumption

LEMMA StartBlocksAreBlocks ==
  ASSUME BotTypes, ChainTypeOK
  PROVE  StartBlocks \subseteq Nat
<1>1. Len(blocks) \in Nat
  BY LenProperties DEF ChainTypeOK
<1>2. cursor_file \in Nat /\ StartBlock \in Nat /\ Lookback \in Nat
  BY Sizes DEF BotTypes
<1>3. QED
  BY <1>1, <1>2 DEF StartBlocks

\* A batch is a piece of the log.
LEMMA BatchTypes ==
  ASSUME BotTypes, ChainTypeOK, up, get_logs
  PROVE  /\ to_block' \in Nat /\ to_block' <= Len(blocks)
         /\ logs' \in Seq(Events)
         /\ \A n \in Nat \ {0} : from_block <= n /\ n <= to_block' =>
              n <= Len(blocks) /\ \E i \in 1 .. Len(logs') : logs'[i] = blocks[n]
<1> DEFINE first == IF from_block = 0 THEN 1 ELSE from_block
<1>1. PICK last : last = to_block'
  OBVIOUS
<1>2. /\ from_block <= Len(blocks)
      /\ last = Nearer(from_block + MaxBlockRange - 1, Len(blocks))
      /\ logs' = SubSeq(blocks, first, last)
  BY <1>1 DEF get_logs, BlockRange
<1>3. blocks \in Seq(Events) /\ Len(blocks) \in Nat /\ from_block \in Nat
  BY LenProperties DEF ChainTypeOK, BotTypes
<1>4. last \in Nat /\ last <= Len(blocks)
  BY <1>2, <1>3, Sizes DEF Nearer
<1>5. first \in Nat \ {0} /\ from_block <= first
  BY <1>3
<1>6. \A i \in first .. last : blocks[i] \in Events
  BY <1>3, <1>4, <1>5, ElementOfSeq
<1> HIDE DEF first
<1>7. PICK piece : piece = SubSeq(blocks, first, last)
  OBVIOUS
<1>8. /\ piece \in Seq(Events)
      /\ Len(piece) = IF first <= last THEN last - first + 1 ELSE 0
      /\ \A i \in 1 .. last - first + 1 : piece[i] = blocks[first + i - 1]
  BY <1>4, <1>5, <1>6, <1>7, SubSeqProperties
<1>9. ASSUME NEW n \in Nat \ {0}, from_block <= n, n <= last
      PROVE  n <= Len(blocks) /\ \E i \in 1 .. Len(piece) : piece[i] = blocks[n]
  <2>1. first <= n
    BY <1>3, <1>9 DEF first
  <2>2. PICK i : i = n - first + 1
    OBVIOUS
  <2>3. i \in 1 .. last - first + 1 /\ first + i - 1 = n /\ Len(piece) = last - first + 1
    BY <1>3, <1>4, <1>5, <1>8, <1>9, <2>1, <2>2
  <2>4. piece[i] = blocks[n]
    BY <1>8, <2>3
  <2>5. QED
    BY <1>3, <1>4, <1>9, <2>3, <2>4
<1>10. QED
  BY <1>1, <1>2, <1>4, <1>7, <1>8, <1>9

\* The head of the batch is an event of a claim, and the rest is a batch.
LEMMA BatchShrinks ==
  ASSUME BotTypes, logs # <<>>
  PROVE  /\ OrderOf(Head(logs)) \in Claims /\ Head(logs) = logs[1]
         /\ Tail(logs) \in Seq(Events)
         /\ \A i \in 1 .. Len(logs) :
              logs[i] = Head(logs) \/ \E j \in 1 .. Len(Tail(logs)) : Tail(logs)[j] = logs[i]
<1>1. logs \in Seq(Events) /\ Len(logs) \in Nat /\ Len(logs) # 0
  BY EmptySeq, LenProperties DEF BotTypes
<1>2. /\ Head(logs) \in Events /\ Tail(logs) \in Seq(Events)
      /\ Len(Tail(logs)) = Len(logs) - 1
      /\ \A i \in 1 .. Len(Tail(logs)) : Tail(logs)[i] = logs[i + 1]
  BY <1>1, HeadTailProperties
<1>3. Head(logs) = logs[1]
  BY <1>1
<1>4. ASSUME NEW i \in 1 .. Len(logs)
      PROVE  logs[i] = Head(logs) \/ \E j \in 1 .. Len(Tail(logs)) : Tail(logs)[j] = logs[i]
  <2>1. CASE i = 1
    BY <1>3, <2>1
  <2>2. CASE i # 1
    <3>1. i - 1 \in 1 .. Len(Tail(logs)) /\ (i - 1) + 1 = i
      BY <1>1, <1>2, <2>2
    <3>2. Tail(logs)[i - 1] = logs[i]
      BY <1>2, <3>1
    <3>3. QED
      BY <3>1, <3>2
  <2>3. QED
    BY <2>1, <2>2
<1>5. OrderOf(Head(logs)) \in Claims
  BY <1>2 DEF OrderOf, Events
<1>6. QED
  BY <1>2, <1>3, <1>4, <1>5

LEMMA DoneTypes ==
  ASSUME BotTypes, NEW o \in Claims, Done(o), logs # <<>>,
         balance' = balance, approved' \in BOOLEAN, mempool' = mempool,
         considered' \in SUBSET Claims
  PROVE  BotTypes'
<1>1. Tail(logs) \in Seq(Events)
  BY BatchShrinks
<1>2. QED
  BY <1>1 DEF Done, BotTypes, service, world

LEMMA GoesTypes ==
  ASSUME BotTypes, NEW there \in {"balance", "approve", "fill", "receipt"}, Goes(there),
         logs # <<>>, balance' = balance, approved' \in BOOLEAN, mempool' \in Seq(Claims),
         considered' \in SUBSET Claims
  PROVE  BotTypes'
BY DEF Goes, BotTypes, service, world

Active(o) == \E here \in {"next", "balance", "approve", "fill", "receipt"} : At(here, o)

\* What the steps of one order come to: it is done with, or taken further.
Moves(o) ==
  /\ Active(o)
  /\ balance' = balance /\ paid' = paid /\ approved' \in BOOLEAN
  /\ \/ considered' = considered
     \/ at = "next" /\ o \notin seen_order_ids /\ considered' = considered \cup {o}
  /\ at = "next" => o \in seen_order_ids \/ considered' = considered \cup {o}
  /\ \/ Done(o) /\ mempool' = mempool
     \/ \E there \in {"balance", "approve", "fill", "receipt"} :
          Goes(there) /\ mempool' \in {mempool, Append(mempool, o)}

LEMMA ProcessMoves ==
  ASSUME BotTypes, NEW o \in Claims,
         \/ skip_seen(o) \/ get_debt_position(o) \/ usdc_balance(o)
         \/ allowance(o) \/ approve_max(o) \/ send_fill(o) \/ fill_receipt(o)
  PROVE  Moves(o)
<1> DEFINE Ahead == {"balance", "approve", "fill", "receipt"}
           Outcome == \/ Done(o) /\ mempool' = mempool
                      \/ \E there \in Ahead :
                           Goes(there) /\ mempool' \in {mempool, Append(mempool, o)}
<1>1. approved \in BOOLEAN
  BY DEF BotTypes
\* Past its first look an order leaves alone what the bot has looked at.
<1>2. ASSUME NEW here \in Ahead, At(here, o), balance' = balance, paid' = paid,
             approved' \in BOOLEAN, considered' = considered, Outcome
      PROVE  Moves(o)
  <2>1. at # "next" /\ Active(o)
    BY <1>2 DEF At, Active
  <2>2. QED
    BY <1>2, <2>1, Zenon DEF Moves
<1>3. CASE skip_seen(o)
  <2>1. At("next", o) /\ o \in seen_order_ids /\ Done(o) /\ UNCHANGED <<wallet, considered>>
    BY <1>3 DEF skip_seen
  <2>2. balance' = balance /\ paid' = paid /\ approved' \in BOOLEAN /\ mempool' = mempool
        /\ considered' = considered
    BY <1>1, <2>1 DEF wallet
  <2>3. Active(o)
    BY <2>1 DEF Active
  <2>4. QED
    BY <2>1, <2>2, <2>3, Zenon DEF Moves
<1>4. CASE get_debt_position(o)
  <2>1. /\ At("next", o) /\ o \notin seen_order_ids /\ considered' = considered \cup {o}
        /\ (Goes("balance") \/ Done(o))
    BY <1>4 DEF get_debt_position
  <2>2. balance' = balance /\ paid' = paid /\ approved' \in BOOLEAN /\ mempool' = mempool
    BY <1>1, <1>4 DEF get_debt_position, wallet
  <2>3. at = "next"
    BY <2>1 DEF At
  <2>4. Outcome /\ Active(o)
    BY <2>1, <2>2 DEF Active
  <2>5. QED
    BY <2>1, <2>2, <2>3, <2>4, Zenon DEF Moves
<1>5. CASE usdc_balance(o)
  <2>1. /\ At("balance", o) /\ (Goes("approve") \/ Done(o))
        /\ balance' = balance /\ paid' = paid /\ approved' = approved /\ mempool' = mempool
        /\ considered' = considered
    BY <1>5 DEF usdc_balance, wallet
  <2>2. Outcome /\ "balance" \in Ahead
    BY <2>1
  <2>3. QED
    BY <1>1, <1>2, <2>1, <2>2, Zenon
<1>6. CASE allowance(o)
  <2>1. /\ At("approve", o) /\ (Goes("fill") \/ Done(o))
        /\ balance' = balance /\ paid' = paid /\ approved' = approved /\ mempool' = mempool
        /\ considered' = considered
    BY <1>6 DEF allowance, wallet
  <2>2. Outcome /\ "approve" \in Ahead
    BY <2>1
  <2>3. QED
    BY <1>1, <1>2, <2>1, <2>2, Zenon
<1>7. CASE approve_max(o)
  <2>1. /\ At("approve", o) /\ (Goes("fill") \/ Done(o))
        /\ balance' = balance /\ paid' = paid /\ approved' \in BOOLEAN /\ mempool' = mempool
        /\ considered' = considered
    BY <1>7 DEF approve_max
  <2>2. Outcome /\ "approve" \in Ahead
    BY <2>1
  <2>3. QED
    BY <1>2, <2>1, <2>2, Zenon
<1>8. CASE send_fill(o)
  <2>1. /\ At("fill", o)
        /\ \/ Done(o) /\ mempool' = mempool
           \/ Goes("receipt") /\ mempool' = Append(mempool, o)
        /\ balance' = balance /\ paid' = paid /\ approved' = approved
        /\ considered' = considered
    BY <1>8 DEF send_fill
  <2>2. Outcome /\ "fill" \in Ahead
    BY <2>1
  <2>3. QED
    BY <1>1, <1>2, <2>1, <2>2, Zenon
<1>9. CASE fill_receipt(o)
  <2>1. /\ At("receipt", o) /\ Done(o)
        /\ balance' = balance /\ paid' = paid /\ approved' = approved /\ mempool' = mempool
        /\ considered' = considered
    BY <1>9 DEF fill_receipt, wallet
  <2>2. Outcome /\ "receipt" \in Ahead
    BY <2>1
  <2>3. QED
    BY <1>1, <1>2, <2>1, <2>2, Zenon
<1>10. QED
  BY <1>3, <1>4, <1>5, <1>6, <1>7, <1>8, <1>9

LEMMA MovesTypes ==
  ASSUME BotTypes, NEW o \in Claims, Moves(o)
  PROVE  BotTypes' /\ UNCHANGED chain /\ paid' = paid
<1>1. logs # <<>>
  BY DEF Moves, Active, At
<1>2. considered' \in SUBSET Claims /\ balance' = balance /\ approved' \in BOOLEAN /\ paid' = paid
  BY DEF Moves, BotTypes
<1>3. CASE Done(o) /\ mempool' = mempool
  BY <1>1, <1>2, <1>3, DoneTypes DEF Done, world, chain
<1>4. CASE \E there \in {"balance", "approve", "fill", "receipt"} :
             Goes(there) /\ mempool' \in {mempool, Append(mempool, o)}
  <2>1. mempool \in Seq(Claims) /\ Append(mempool, o) \in Seq(Claims)
    BY AppendProperties DEF BotTypes
  <2>2. mempool' \in Seq(Claims)
    BY <1>4, <2>1
  <2>3. QED
    BY <1>1, <1>2, <1>4, <2>2, GoesTypes DEF Goes, world, chain
<1>5. QED
  BY <1>3, <1>4 DEF Moves

-----------------------------------------------------------------------------
(* What every step keeps: types, and that a claim is paid for once *)

LEMMA PaidStands ==
  ASSUME PaidSound, paid' = paid, \A o \in Claims : Past(o) => Past(o)'
  PROVE  PaidSound'
BY DEF PaidSound

\* The fill goes through only for an open claim, and the claim is past with it.
LEMMA SettleStep ==
  ASSUME BotInv, settle
  PROVE  BotInv' /\ Progress
<1>1. PICK o : o = Head(mempool)
  OBVIOUS
<1>2. /\ mempool # <<>> /\ mempool' = Tail(mempool)
      /\ ConfirmGuard(o) /\ TransferGuard(o)
      /\ balance' = balance - Principal[o]
      /\ paid' = [paid EXCEPT ![o] = @ + 1]
      /\ status' = [status EXCEPT ![o] = "FILLED"]
      /\ holder' = [holder EXCEPT ![o] = Bot]
      /\ Emit("Filled", o)
      /\ UNCHANGED <<approved, lapsed, service, loop, considered>>
  BY <1>1 DEF settle, Leaves
<1>3. o \in Claims /\ mempool' \in Seq(Claims)
  BY <1>1, <1>2, HeadTailProperties DEF BotInv, BotTypes
<1>4. status[o] = "OPEN" /\ balance >= Principal[o]
  BY <1>2 DEF ConfirmGuard, TransferGuard
<1>5. /\ status' \in [Claims -> Statuses] /\ holder' \in [Claims -> HolderSet]
      /\ \A p \in Claims : Past(p) => Past(p)'
      /\ Past(o)'
  BY <1>2, <1>3, <1>4, BotAssumption DEF BotInv, ChainTypeOK, Statuses, HolderSet, Past
<1>6. Progress
  BY <1>2, <1>3, <1>5, EmitProgress DEF BotInv, EventKinds
<1>7. balance' \in Nat
  <2>1. Principal[o] \in Nat /\ balance \in Nat
    BY <1>3, Sizes DEF BotInv, BotTypes
  <2>2. QED
    BY <1>2, <1>4, <2>1
<1>8. BotTypes'
  BY <1>2, <1>3, <1>7 DEF BotInv, BotTypes, service, loop
<1>9. PaidSound'
  <2>1. paid[o] = 0
    BY <1>3, <1>4 DEF BotInv, PaidSound, Past
  <2>2. paid' \in [Claims -> Nat] /\ paid'[o] = 1 /\ \A p \in Claims \ {o} : paid'[p] = paid[p]
    BY <1>2, <1>3, <2>1 DEF BotInv, PaidSound
  <2>3. QED
    BY <1>5, <2>2 DEF BotInv, PaidSound
<1>10. QED
  BY <1>6, <1>8, <1>9 DEF BotInv, Progress

\* What the loop and the service do, they do without a transaction.
LEMMA OwnStep ==
  ASSUME BotInv, UNCHANGED chain, paid' = paid, BotTypes'
  PROVE  BotInv'
BY ChainStands, PaidStands DEF BotInv

LEMMA LoopTypes ==
  ASSUME BotInv, Start \/ Crash \/ get_logs \/ persist_cursor
  PROVE  BotTypes' /\ UNCHANGED chain /\ paid' = paid
<1>1. BotTypes /\ ChainTypeOK
  BY DEF BotInv
<1>2. <<>> \in Seq(Events)
  BY EmptySeq
<1>3. CASE Start
  <2>1. from_block' \in Nat
    BY <1>1, <1>3, StartBlocksAreBlocks DEF Start
  <2>2. QED
    BY <1>1, <1>3, <2>1 DEF Start, BotTypes, wallet, world, chain
<1>4. CASE Crash
  <2>1. crashes' \in 0 .. MaxCrashes
    BY <1>1, <1>4, Sizes DEF Crash, BotTypes
  <2>2. logs' \in Seq(Events)
    BY <1>2, <1>4 DEF Crash
  <2>3. UNCHANGED <<cursor_file, balance, approved, mempool, paid, status, holder, blocks,
                    lapsed, considered>>
    BY <1>4 DEF Crash, wallet, world
  <2>4. up' = FALSE /\ at' = "scan" /\ from_block' = 0 /\ to_block' = 0 /\ seen_order_ids' = {}
    BY <1>4 DEF Crash
  <2>5. BotTypes'
    <3>1. up' \in BOOLEAN /\ (at' \notin {"scan", "next"} => logs' # <<>>)
          /\ at' \in {"scan", "next", "balance", "approve", "fill", "receipt"}
      BY <2>4
    <3>2. {cursor_file', from_block', to_block'} \subseteq Nat
      BY <1>1, <2>3, <2>4 DEF BotTypes
    <3>3. {seen_order_ids', considered', lapsed'} \subseteq SUBSET Claims
      BY <1>1, <2>3, <2>4 DEF BotTypes
    <3>4. balance' \in Nat /\ approved' \in BOOLEAN /\ mempool' \in Seq(Claims)
      BY <1>1, <2>3 DEF BotTypes
    <3>5. QED
      BY <2>1, <2>2, <3>1, <3>2, <3>3, <3>4, Zenon DEF BotTypes
  <2>6. QED
    BY <2>3, <2>5 DEF chain
<1>5. CASE get_logs
  <2>1. to_block' \in Nat /\ logs' \in Seq(Events)
    BY <1>1, <1>5, BatchTypes DEF get_logs
  <2>2. QED
    BY <1>1, <1>5, <2>1 DEF get_logs, BotTypes, service, wallet, world, chain
<1>6. CASE persist_cursor
  <2>1. from_block' \in Nat /\ cursor_file' \in Nat /\ to_block \in Nat
    BY <1>1, <1>6 DEF persist_cursor, BotTypes
  <2>2. QED
    BY <1>1, <1>6, <2>1 DEF persist_cursor, BotTypes, wallet, world, chain
<1>7. QED
  BY <1>3, <1>4, <1>5, <1>6

\* Steps of the world outside that pay nothing.
LEMMA WorldTypes ==
  ASSUME BotInv, fails \/ FundsArrive \/ DeadlinePasses \/ ChainStep \/ UNCHANGED vars
  PROVE  BotTypes' /\ paid' = paid /\ (Progress \/ UNCHANGED chain)
<1>1. BotTypes /\ ChainTypeOK
  BY DEF BotInv
<1>2. CASE fails
  <2>1. mempool' \in Seq(Claims)
    BY <1>1, <1>2, HeadTailProperties DEF fails, Leaves, BotTypes
  <2>2. QED
    BY <1>1, <1>2, <2>1 DEF fails, BotTypes, service, loop, world, chain
<1>3. CASE FundsArrive
  <2>1. balance' \in Nat
    BY <1>1, <1>3, Sizes DEF FundsArrive, BotTypes
  <2>2. QED
    BY <1>1, <1>3, <2>1 DEF FundsArrive, BotTypes, service, loop, world, chain
<1>4. CASE DeadlinePasses
  <2>1. PICK o \in Claims : lapsed' = lapsed \cup {o}
    BY <1>4 DEF DeadlinePasses
  <2>2. QED
    BY <1>1, <1>4, <2>1 DEF DeadlinePasses, BotTypes, service, loop, wallet, chain
<1>5. CASE ChainStep
  <2>1. Progress
    BY <1>1, <1>5, ChainProgress DEF ChainStep
  <2>2. QED
    BY <1>1, <1>5, <2>1 DEF ChainStep, BotTypes, service, loop, wallet
<1>6. CASE UNCHANGED vars
  BY <1>1, <1>6 DEF vars, BotTypes, service, loop, wallet, world, chain
<1>7. QED
  BY <1>2, <1>3, <1>4, <1>5, <1>6

LEMMA BotInvNext ==
  ASSUME BotInv, [Next]_vars
  PROVE  BotInv'
<1>1. CASE Start \/ Crash \/ get_logs \/ persist_cursor
  BY <1>1, LoopTypes, OwnStep
<1>2. CASE process_order
  <2>1. PICK o \in Claims : Moves(o)
    BY <1>2, ProcessMoves DEF process_order, BotInv
  <2>2. QED
    BY <2>1, MovesTypes, OwnStep DEF BotInv
<1>3. CASE settle
  BY <1>3, SettleStep
<1>4. CASE fails \/ FundsArrive \/ DeadlinePasses \/ ChainStep \/ UNCHANGED vars
  <2>1. BotTypes' /\ paid' = paid /\ (Progress \/ UNCHANGED chain)
    BY <1>4, WorldTypes
  <2>2. QED
    BY <2>1, PaidStands, OwnStep DEF BotInv, Progress
<1>5. QED
  BY <1>1, <1>2, <1>3, <1>4 DEF Next, BotStep

LEMMA BotInvInit ==
  ASSUME Init
  PROVE  BotInv
<1>1. <<>> \in Seq(Events) /\ <<>> \in Seq(Claims)
  BY EmptySeq
<1>2. ChainTypeOK
  BY <1>1 DEF Init, ChainInit, Ledger!Init, ChainTypeOK
<1>3. BotTypes
  <2>1. logs \in Seq(Events) /\ mempool \in Seq(Claims)
    BY <1>1 DEF Init
  <2>2. /\ up = FALSE /\ crashes = 0 /\ cursor_file = 0 /\ at = "scan"
        /\ from_block = 0 /\ to_block = 0 /\ approved = FALSE
    BY DEF Init
  <2>3. balance \in Nat /\ crashes \in 0 .. MaxCrashes
    BY <2>2, Sizes DEF Init
  <2>4. seen_order_ids = {} /\ considered = {} /\ lapsed = {}
    BY DEF Init
  <2>5. up \in BOOLEAN /\ approved \in BOOLEAN /\ (at \notin {"scan", "next"} => logs # <<>>)
        /\ at \in {"scan", "next", "balance", "approve", "fill", "receipt"}
    BY <2>2
  <2>6. {cursor_file, from_block, to_block} \subseteq Nat
        /\ {seen_order_ids, considered, lapsed} \subseteq SUBSET Claims
    BY <2>2, <2>4
  <2>7. QED
    BY <2>1, <2>3, <2>5, <2>6, Zenon DEF BotTypes
<1>4. PaidSound
  BY DEF Init, PaidSound
<1>5. QED
  BY <1>2, <1>3, <1>4 DEF BotInv

\* Types, and that a claim paid for is past its only fill.
THEOREM BotInvariant == Spec => []BotInv
<1>1. Init => BotInv
  BY BotInvInit
<1>2. BotInv /\ [Next]_vars => BotInv'
  BY BotInvNext
<1>3. QED
  BY <1>1, <1>2, PTL DEF Spec

\* Every variable of the bot, of its wallet and of the chain keeps its type.
THEOREM TypeSafety == Spec => []TypeOK
<1>1. BotInv => TypeOK
  BY DEF BotInv, BotTypes, PaidSound, TypeOK
<1>2. QED
  BY <1>1, BotInvariant, PTL

\* However often the bot dies, looks again and sends again, its wallet pays at
\* most once for a claim (intents-bot-solver/src/main.rs, AyniDestinationSettler.sol).
THEOREM NeverPaysTwice == Spec => []PaysOncePerClaim
<1>1. BotInv => PaysOncePerClaim
  <2>1. SUFFICES ASSUME BotInv, NEW o \in Claims
                 PROVE  paid[o] <= 1
    BY DEF PaysOncePerClaim
  <2>2. PaidSound
    BY <2>1 DEF BotInv
  <2>3. paid[o] \in Nat /\ (paid[o] > 0 => paid[o] = 1)
    BY <2>2 DEF PaidSound
  <2>4. QED
    BY <2>3
<1>2. QED
  BY <1>1, BotInvariant, PTL

-----------------------------------------------------------------------------
(* What the bot has looked at, when it was told a first block *)

\* The chain and what has been looked at only grow.
Grows ==
  /\ considered \subseteq considered'
  /\ \A n \in 1 .. Len(blocks) : n <= Len(blocks') /\ blocks'[n] = blocks[n]

LEMMA ChainGrows ==
  ASSUME ChainTypeOK, Progress \/ UNCHANGED chain, considered \subseteq considered'
  PROVE  Grows
<1>1. blocks \in Seq(Events) /\ Len(blocks) \in Nat
  BY LenProperties DEF ChainTypeOK
<1>2. CASE UNCHANGED chain
  BY <1>1, <1>2 DEF Grows, chain
<1>3. CASE Progress
  <2>1. PICK e \in Events : blocks' = Append(blocks, e)
    BY <1>3 DEF Progress
  <2>2. /\ Len(blocks') = Len(blocks) + 1
        /\ \A n \in 1 .. Len(blocks) : blocks'[n] = blocks[n]
    BY <1>1, <2>1, AppendProperties
  <2>3. QED
    BY <1>1, <2>2 DEF Grows
<1>4. QED
  BY <1>2, <1>3

LEMMA CoveredStays ==
  ASSUME Grows, ChainTypeOK, NEW k, Covered(k)
  PROVE  Covered(k)'
<1>1. Len(blocks) \in Nat
  BY LenProperties DEF ChainTypeOK
<1>2. QED
  BY <1>1 DEF Grows, Covered

\* The first block is configured: it is not block 0.
LEMMA NothingBeforeTheFirst ==
  ASSUME StartBlock > 0
  PROVE  Covered(StartBlock - 1)
BY Sizes DEF Covered

LEMMA LoopStands ==
  ASSUME BotInv, LoopSound, Grows, UNCHANGED <<service, loop, considered>>
  PROVE  LoopSound'
<1>1. ChainTypeOK /\ Len(blocks) \in Nat
  BY LenProperties DEF BotInv, ChainTypeOK
<1>2. /\ cursor_file' = cursor_file /\ from_block' = from_block /\ to_block' = to_block
      /\ up' = up /\ at' = at /\ logs' = logs /\ seen_order_ids' = seen_order_ids
      /\ considered' = considered
  BY DEF service, loop
<1>3. Covered(cursor_file)'
  BY <1>1, <1>2, CoveredStays DEF LoopSound, Covered
<1>4. up => Covered(from_block - 1)'
  <2>1. PICK k : k = from_block - 1
    OBVIOUS
  <2>2. up => Covered(k)'
    BY <1>1, <2>1, CoveredStays DEF LoopSound
  <2>3. QED
    BY <1>2, <2>1, <2>2 DEF Covered
<1>5. at # "scan" => BatchSound'
  BY <1>1, <1>2 DEF LoopSound, BatchSound, Grows
<1>6. QED
  BY <1>2, <1>3, <1>4, <1>5 DEF LoopSound, OrderOf

LEMMA StartSeen ==
  ASSUME BotInv, LoopSound, StartBlock > 0, Start
  PROVE  LoopSound'
<1>1. /\ ~up /\ up' = TRUE /\ from_block' \in StartBlocks
      /\ UNCHANGED <<cursor_file, at, to_block, logs, seen_order_ids, blocks, considered>>
  BY DEF Start, world
<1>2. cursor_file \in Nat /\ StartBlock \in Nat
  BY Sizes DEF BotInv, BotTypes
<1>3. from_block' = IF cursor_file > 0 THEN cursor_file + 1 ELSE StartBlock
  BY <1>1 DEF StartBlocks
<1>4. at = "scan"
  BY <1>1 DEF LoopSound
<1>5. PICK k : k = from_block' - 1
  OBVIOUS
<1>6. k = IF cursor_file > 0 THEN cursor_file ELSE StartBlock - 1
  BY <1>2, <1>3, <1>5
<1>7. Covered(k)
  BY <1>6, NothingBeforeTheFirst DEF LoopSound
<1>8. Covered(k)' /\ Covered(cursor_file)'
  BY <1>1, <1>7 DEF Covered, LoopSound
<1>9. Covered(from_block - 1)' /\ from_block' > 0
  BY <1>2, <1>3, <1>5, <1>8 DEF Covered
<1>10. QED
  BY <1>1, <1>4, <1>8, <1>9 DEF LoopSound

LEMMA CrashSeen ==
  ASSUME LoopSound, Crash
  PROVE  LoopSound'
<1>1. /\ up' = FALSE /\ at' = "scan" /\ seen_order_ids' = {}
      /\ UNCHANGED <<cursor_file, blocks, considered>>
  BY DEF Crash, world
<1>2. Covered(cursor_file)'
  BY <1>1 DEF LoopSound, Covered
<1>3. QED
  BY <1>1, <1>2 DEF LoopSound

LEMMA FetchSeen ==
  ASSUME BotInv, LoopSound, get_logs
  PROVE  LoopSound'
<1>1. /\ up /\ at' = "next"
      /\ UNCHANGED <<up, cursor_file, from_block, seen_order_ids, blocks, considered>>
  BY DEF get_logs, service, world
<1>2. \A n \in Nat \ {0} : from_block <= n /\ n <= to_block' =>
        n <= Len(blocks) /\ \E i \in 1 .. Len(logs') : logs'[i] = blocks[n]
  BY <1>1, BatchTypes DEF BotInv
<1>3. BatchSound'
  BY <1>1, <1>2 DEF BatchSound
<1>4. Covered(cursor_file)' /\ Covered(from_block - 1)' /\ from_block' > 0
  BY <1>1 DEF LoopSound, Covered
<1>5. QED
  BY <1>1, <1>3, <1>4 DEF LoopSound

\* The cursor is saved when the batch is behind the bot, and covers it.
LEMMA PersistSeen ==
  ASSUME BotInv, LoopSound, persist_cursor
  PROVE  LoopSound'
<1>1. /\ at = "next" /\ logs = <<>> /\ at' = "scan" /\ up /\ up' = up
      /\ cursor_file' = to_block /\ from_block' = to_block + 1
      /\ UNCHANGED <<seen_order_ids, blocks, considered>>
  BY DEF persist_cursor, world
<1>2. to_block \in Nat /\ from_block \in Nat
  BY DEF BotInv, BotTypes
<1>3. Covered(from_block - 1) /\ BatchSound
  BY <1>1 DEF LoopSound
<1>4. Len(logs) = 0
  BY <1>1, EmptySeq
<1>5. ASSUME NEW n \in Nat \ {0}, StartBlock <= n, n <= to_block
      PROVE  n <= Len(blocks) /\ blocks[n].order \in considered
  <2>1. CASE n <= from_block - 1
    BY <1>3, <1>5, <2>1 DEF Covered
  <2>2. CASE from_block <= n
    BY <1>3, <1>4, <1>5, <2>2 DEF BatchSound
  <2>3. QED
    BY <1>2, <2>1, <2>2
<1>6. PICK k : k = from_block' - 1
  OBVIOUS
<1>7. k = to_block /\ from_block' > 0
  BY <1>1, <1>2, <1>6
<1>8. Covered(k)' /\ Covered(cursor_file)'
  BY <1>1, <1>5, <1>7 DEF Covered
<1>9. Covered(from_block - 1)'
  BY <1>6, <1>8 DEF Covered
<1>10. QED
  BY <1>1, <1>7, <1>8, <1>9 DEF LoopSound

\* An order leaves the batch only when it has been looked at.
LEMMA MovesSeen ==
  ASSUME BotInv, LoopSound, NEW o \in Claims, Moves(o)
  PROVE  LoopSound'
<1>1. /\ up /\ logs # <<>> /\ o = OrderOf(Head(logs)) /\ at # "scan"
      /\ at \in {"next", "balance", "approve", "fill", "receipt"}
  BY DEF Moves, Active, At
<1>2. considered \subseteq considered' /\ o \in considered'
  BY <1>1 DEF Moves, LoopSound
<1>3. UNCHANGED <<up, cursor_file, from_block, to_block, blocks>>
  BY DEF Moves, Done, Goes, service, world
<1>4. Covered(cursor_file)' /\ Covered(from_block - 1)' /\ from_block' > 0
  BY <1>1, <1>2, <1>3 DEF LoopSound, Covered
<1>5. BatchSound
  BY <1>1 DEF LoopSound
<1>6. CASE Done(o)
  <2>1. at' = "next" /\ logs' = Tail(logs) /\ seen_order_ids' = seen_order_ids \cup {o}
    BY <1>6 DEF Done
  <2>3. \A i \in 1 .. Len(logs) :
          logs[i] = Head(logs) \/ \E j \in 1 .. Len(Tail(logs)) : Tail(logs)[j] = logs[i]
    BY <1>1, BatchShrinks DEF BotInv
  <2>4. ASSUME NEW n \in Nat \ {0}, from_block <= n, n <= to_block
        PROVE  /\ n <= Len(blocks)
               /\ \/ blocks[n].order \in considered'
                  \/ \E j \in 1 .. Len(Tail(logs)) : Tail(logs)[j] = blocks[n]
    <3>1. /\ n <= Len(blocks)
          /\ blocks[n].order \in considered \/ \E i \in 1 .. Len(logs) : logs[i] = blocks[n]
      BY <1>5, <2>4 DEF BatchSound
    <3>2. CASE \E i \in 1 .. Len(logs) : logs[i] = blocks[n]
      <4>1. PICK i \in 1 .. Len(logs) : logs[i] = blocks[n]
        BY <3>2
      <4>2. CASE logs[i] = Head(logs)
        BY <1>1, <1>2, <3>1, <4>1, <4>2 DEF OrderOf
      <4>3. QED
        BY <2>3, <3>1, <4>1, <4>2
    <3>3. QED
      BY <1>2, <3>1, <3>2
  <2>5. BatchSound'
    BY <1>3, <2>1, <2>4 DEF BatchSound
  <2>6. QED
    BY <1>1, <1>2, <1>3, <1>4, <2>1, <2>5 DEF LoopSound
<1>7. CASE \E there \in {"balance", "approve", "fill", "receipt"} : Goes(there)
  <2>1. at' # "scan" /\ logs' = logs /\ seen_order_ids' = seen_order_ids
    BY <1>7 DEF Goes
  <2>2. BatchSound'
    BY <1>2, <1>3, <1>5, <2>1 DEF BatchSound
  <2>3. QED
    BY <1>1, <1>2, <1>3, <1>4, <2>1, <2>2 DEF LoopSound, OrderOf
<1>8. QED
  BY <1>6, <1>7 DEF Moves

LEMMA SeenNext ==
  ASSUME StartBlock > 0, SeenInv, [Next]_vars
  PROVE  SeenInv'
<1> USE DEF SeenInv
<1>1. BotInv'
  BY BotInvNext
<1>2. CASE settle \/ fails \/ FundsArrive \/ DeadlinePasses \/ ChainStep \/ UNCHANGED vars
  <2>1. Progress \/ UNCHANGED chain
    BY <1>2, SettleStep, WorldTypes
  <2>2. UNCHANGED <<service, loop, considered>>
    BY <1>2 DEF settle, fails, FundsArrive, DeadlinePasses, ChainStep, vars
  <2>3. Grows
    BY <2>1, <2>2, ChainGrows DEF BotInv
  <2>4. QED
    BY <1>1, <2>2, <2>3, LoopStands
<1>3. CASE process_order
  <2>1. PICK o \in Claims : Moves(o)
    BY <1>3, ProcessMoves DEF process_order, BotInv
  <2>2. QED
    BY <1>1, <2>1, MovesSeen
<1>4. QED
  BY <1>1, <1>2, <1>3, StartSeen, CrashSeen, FetchSeen, PersistSeen DEF Next, BotStep

LEMMA SeenInit ==
  ASSUME StartBlock > 0, Init
  PROVE  SeenInv
<1>1. Covered(cursor_file)
  <2>1. cursor_file <= StartBlock - 1 /\ cursor_file = 0
    BY Sizes DEF Init
  <2>2. QED
    BY <2>1, NothingBeforeTheFirst, Sizes DEF Covered
<1>2. up = FALSE /\ at = "scan" /\ seen_order_ids = {}
  BY DEF Init
<1>3. LoopSound
  BY <1>1, <1>2 DEF LoopSound
<1>4. QED
  BY <1>3, BotInvInit DEF SeenInv

\* A bot that was told its first block (START_BLOCK) has asked the chain about
\* the order of every block behind its saved cursor, wherever in a batch it died
\* (intents-bot-solver/src/main.rs).  Without one it may skip what its first run saw.
THEOREM OrdersAreNeverMissed ==
  ASSUME StartBlock > 0
  PROVE  Spec => []NoOrderMissed
<1>1. Init => SeenInv
  BY SeenInit
<1>2. SeenInv /\ [Next]_vars => SeenInv'
  BY SeenNext
<1>3. SeenInv => NoOrderMissed
  <2>1. SUFFICES ASSUME Covered(cursor_file), cursor_file \in Nat,
                        NEW n \in StartBlock .. cursor_file, n > 0
                 PROVE  blocks[n].order \in considered
    BY DEF SeenInv, LoopSound, BotInv, BotTypes, NoOrderMissed
  <2>2. n \in Nat \ {0} /\ StartBlock <= n /\ n <= cursor_file
    BY <2>1, Sizes
  <2>3. QED
    BY <2>1, <2>2 DEF Covered
<1>4. QED
  BY <1>1, <1>2, <1>3, PTL DEF Spec
=============================================================================
