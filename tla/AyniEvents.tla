------------------------------ MODULE AyniEvents ------------------------------
(***************************************************************************)
(* The chain as the off-chain services see it: claims that live by         *)
(* AyniClaimLedger (which the contracts implement) and the log of events   *)
(* that src/AyniProtocol.sol emits for them.  Each transaction is a block  *)
(* of its own: the services fetch ranges of blocks, so several events of   *)
(* one block are several blocks that happen to be fetched together.        *)
(***************************************************************************)
EXTENDS Naturals, Sequences

CONSTANTS
  Claims,
  Borrower,          \* a function: whose claim it is
  Traders,           \* who fills claims
  Pools,             \* who funds claims
  Nobody,
  MaxBlocks          \* bounds the chain

ASSUME BlocksAssumption == MaxBlocks \in Nat
ASSUME BorrowerAssumption == DOMAIN Borrower = Claims

VARIABLES status, holder, blocks

chain == <<status, holder, blocks>>

BorrowerOf(o) == Borrower[o]
Ledger == INSTANCE AyniClaimLedger

EventKinds == {"Open", "Filled", "Transferred", "Cancelled", "Repaid", "Liquidated"}
\* An event as the services receive it, with the number of its block.
Events == [kind : EventKinds, order : Claims, block : Nat \ {0}]

ChainInit == Ledger!Init /\ blocks = <<>>

Emit(kind, o) ==
  /\ Len(blocks) < MaxBlocks
  /\ blocks' = Append(blocks, [kind |-> kind, order |-> o, block |-> Len(blocks) + 1])

open(o) == Ledger!Open(o) /\ Emit("Open", o)

\* The pool serves the borrower at once: a claim that no Open announces.
borrow_from_pool(o) == Ledger!Borrow(o) /\ Emit("Filled", o)

fill(o) == Ledger!Fill(o) /\ Emit("Filled", o)
cancel_claim(o) == Ledger!Cancel(o) /\ Emit("Cancelled", o)
transfer_claim(o) == Ledger!Transfer(o) /\ Emit("Transferred", o)

repay_in_full(o) ==
  /\ Ledger!Close(o) /\ status'[o] = "REPAID"
  /\ Emit("Repaid", o)

liquidate_claim(o) ==
  /\ Ledger!Close(o) /\ status'[o] = "LIQUIDATED"
  /\ Emit("Liquidated", o)

\* ClaimRepaid is emitted for every payment, the claim stays open for the rest.
repay_in_part(o) ==
  /\ status[o] = "FILLED"
  /\ Emit("Repaid", o)
  /\ UNCHANGED <<status, holder>>

ChainNext ==
  \E o \in Claims :
    \/ open(o) \/ borrow_from_pool(o) \/ fill(o) \/ cancel_claim(o)
    \/ transfer_claim(o) \/ repay_in_full(o) \/ repay_in_part(o)
    \/ liquidate_claim(o)

ChainTypeOK ==
  /\ status \in [Claims -> {"NONE", "OPEN", "FILLED", "CANCELLED", "REPAID", "LIQUIDATED"}]
  /\ holder \in [Claims -> Traders \cup Pools \cup {Nobody}]
  /\ blocks \in Seq(Events)

\* Block 0, the genesis, holds no event.
BlockRange(from, to) == SubSeq(blocks, IF from = 0 THEN 1 ELSE from, to)
=============================================================================
