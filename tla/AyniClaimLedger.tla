--------------------------- MODULE AyniClaimLedger ---------------------------
(***************************************************************************)
(* What the protocol promises about claims, with no vault, pool, price or  *)
(* time: every claim runs through the statuses of ClaimStatus              *)
(* (src/AyniProtocol.sol) once, a borrower has one live claim at a time, a *)
(* filled claim has one holder, who alone may pass it on, and a claim that *)
(* the lenders' pool holds is never passed on.  AyniProtocol implements it.*)
(***************************************************************************)

CONSTANTS
  Claims, BorrowerOf(_),
  Traders,           \* who may fill claims and pass them on
  Pools,             \* who may fund claims, and keeps them
  Nobody

VARIABLES status, holder

vars == <<status, holder>>

Live(o) == status[o] \in {"OPEN", "FILLED"}
MayBorrow(b) == \A o \in Claims : BorrowerOf(o) = b => ~Live(o)

Init ==
  /\ status = [o \in Claims |-> "NONE"]
  /\ holder = [o \in Claims |-> Nobody]

Become(o, new) == status' = [status EXCEPT ![o] = new]
GoesTo(o, h) == holder' = [holder EXCEPT ![o] = h]

Open(o) ==
  /\ status[o] = "NONE" /\ MayBorrow(BorrowerOf(o))
  /\ Become(o, "OPEN") /\ UNCHANGED holder

\* A borrower whom the pool serves at once never waits for a filler.
Borrow(o) ==
  /\ status[o] = "NONE" /\ MayBorrow(BorrowerOf(o))
  /\ Become(o, "FILLED") /\ \E pool \in Pools : GoesTo(o, pool)

Cancel(o) == status[o] = "OPEN" /\ Become(o, "CANCELLED") /\ UNCHANGED holder

Fill(o) ==
  /\ status[o] = "OPEN"
  /\ Become(o, "FILLED") /\ \E h \in Traders \cup Pools : GoesTo(o, h)

Transfer(o) ==
  /\ status[o] = "FILLED" /\ holder[o] \in Traders
  /\ \E h \in Traders \cup Pools : GoesTo(o, h)
  /\ UNCHANGED status

Close(o) ==
  /\ status[o] = "FILLED"
  /\ \E new \in {"REPAID", "LIQUIDATED"} : Become(o, new)
  /\ GoesTo(o, Nobody)

Next ==
  \E o \in Claims :
    Open(o) \/ Borrow(o) \/ Cancel(o) \/ Fill(o) \/ Transfer(o) \/ Close(o)

Spec == Init /\ [][Next]_vars
=============================================================================
