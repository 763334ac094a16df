-------------------------- MODULE AyniProtocolProofs --------------------------
(***************************************************************************)
(* Invariants of AyniProtocol for every set of users, solvers, amounts,    *)
(* prices, rate models and parameter choices, and that it implements       *)
(* AyniClaimLedger.  What one vault and one pool guarantee on their own is *)
(* proved in AyniVaultProofs and AyniPoolProofs; the router calls them     *)
(* with some of the amounts, fees and answers allowed there.               *)
(***************************************************************************)
EXTENDS AyniProtocol, AyniMathProofs

VaultLaws == INSTANCE AyniVaultProofs WITH
  Recipients <- Holders, StrayUsdc <- 0, Amounts <- Nat, FeeChoices <- 0 .. Vault!BPS,
  RouterAnswers <- [managed : BOOLEAN, debt : Nat]
PoolLaws == INSTANCE AyniPoolProofs WITH
  LPs <- {Owner}, Borrowers <- Users, LoanAmounts <- Nat, ShareAmounts <- Nat, Approvals <- {}

USE RouterAssumption, MarketAssumption

\* Fees stay below 100%: what is left of a repayment after the fee is not negative.
FeesSound ==
  params["borrow_fee_bps"] <= 500 /\ pending["borrow_fee_bps"].value <= 500

\* The borrower of a claim is the user its id was derived from.
OwnClaims == \A o \in OrderIds : claims[o].status # "NONE" => claims[o].borrower = Borrower(o)

\* Nobody funds the other deployment, so no claim is routed to it.
RoutedHere == \A o \in OrderIds : claim_pools[o] \in {NoUser, ThisPool}

RouterInv ==
  TypeOK /\ OwnClaims /\ StatusMirror /\ HolderIffFilled /\ RoutedHere /\ LoansAreClaims

(* The inductive invariant: the contracts' own, and the router's.  A new id is *)
(* unused because the nonces say so, the vault's order is the one the router   *)
(* means because the two records mirror each other, and the pool's answers are *)
(* amounts because its loans and its index are sound.                          *)
ProtocolInv == VaultLaws!IInv /\ PoolLaws!PoolInv /\ FeesSound /\ RouterInv
-----------------------------------------------------------------------------
(* The contracts' assumptions hold, and the router calls the operations their  *)
(* laws are about                                                              *)

LEMMA IdsFinite == IsFiniteSet(OrderIds)
<1>1. IsFiniteSet(1 .. MaxNonce)
  BY FS_Interval
<1>2. QED  BY <1>1, FS_Product DEF OrderIds

LEMMA VaultParameters ==
  /\ VaultLaws!UsersAssumption /\ VaultLaws!OrderAssumption /\ VaultLaws!AmountAssumption
  /\ VaultLaws!ClockAssumption /\ VaultLaws!UnitAssumption
<1>1. IsFiniteSet(Holders)
  <2>1. /\ IsFiniteSet({Owner}) /\ IsFiniteSet({ThisPool}) /\ IsFiniteSet({AnotherPool})
    BY FS_Singleton
  <2>2. IsFiniteSet({Owner} \cup {ThisPool})
    BY <2>1, FS_Union
  <2>3. IsFiniteSet(({Owner} \cup {ThisPool}) \cup {AnotherPool})
    BY <2>1, <2>2, FS_Union
  <2>4. IsFiniteSet(Solvers \cup (({Owner} \cup {ThisPool}) \cup {AnotherPool}))
    BY <2>3, FS_Union
  <2>5. Holders = Solvers \cup (({Owner} \cup {ThisPool}) \cup {AnotherPool})
    BY DEF Holders
  <2>6. QED  BY <2>4, <2>5
<1>2. VaultLaws!UsersAssumption
  BY <1>1 DEF IsFiniteSet, VaultLaws!IsFiniteSet
<1>3. VaultLaws!OrderAssumption
  OBVIOUS
<1>4. VaultLaws!AmountAssumption
  BY DEF Vault!BPS, VaultLaws!BPS, Vault!ParamNames, VaultLaws!ParamNames
<1>5. VaultLaws!ClockAssumption
  OBVIOUS
<1>6. VaultLaws!UnitAssumption
  OBVIOUS
<1>7. QED  BY <1>2, <1>3, <1>4, <1>5, <1>6

LEMMA PoolParameters ==
  /\ PoolLaws!PoolSetsAssumption /\ PoolLaws!PoolClockAssumption /\ PoolLaws!PoolModelAssumption
<1>1. IsFiniteSet({Owner})
  BY FS_Singleton
<1>2. PoolLaws!PoolSetsAssumption
  BY <1>1, IdsFinite DEF IsFiniteSet, PoolLaws!IsFiniteSet
<1>3. PoolLaws!PoolClockAssumption
  OBVIOUS
<1>4. PoolLaws!PoolModelAssumption
  BY DEF Pool!RateModels, PoolLaws!RateModels, Pool!ValidModel, PoolLaws!ValidModel
<1>5. QED  BY <1>2, <1>3, <1>4

LEMMA VaultReads ==
  /\ \A u, status : Vault!ActiveIs(u, status) = VaultLaws!ActiveIs(u, status)
  /\ \A u, sync : Vault!Managed(u, sync) = VaultLaws!Managed(u, sync)
  /\ \A u, sync : Vault!AccruedDebt(u, sync) = VaultLaws!AccruedDebt(u, sync)
  /\ \A u, sync : Vault!AccrualDelta(u, sync) = VaultLaws!AccrualDelta(u, sync)
  /\ \A c, d : Vault!Healthy(c, d) = VaultLaws!Healthy(c, d)
  /\ \A c : Vault!CollateralValue(c) = VaultLaws!CollateralValue(c)
BY DEF Vault!ActiveIs, VaultLaws!ActiveIs, Vault!Managed, VaultLaws!Managed, Vault!Interest,
   VaultLaws!Interest, Vault!AccruedDebt, VaultLaws!AccruedDebt, Vault!AccrualDelta,
   VaultLaws!AccrualDelta, Vault!CollateralValue, VaultLaws!CollateralValue, Vault!Healthy,
   VaultLaws!Healthy, Vault!BPS, VaultLaws!BPS

LEMMA VaultEffects ==
  /\ \A u, c, d : Vault!SetPosition(u, c, d) <=> VaultLaws!SetPosition(u, c, d)
  /\ \A c, d : Vault!MoveTotals(c, d) <=> VaultLaws!MoveTotals(c, d)
  /\ \A u, o : Vault!SetActive(u, o) <=> VaultLaws!SetActive(u, o)
  /\ \A o, r : Vault!SetOrder(o, r) <=> VaultLaws!SetOrder(o, r)
  /\ \A a, x : Vault!PayOut(a, x) <=> VaultLaws!PayOut(a, x)
  /\ \A w, a, x : Vault!Credit(w, a, x) = VaultLaws!Credit(w, a, x)
BY DEF Vault!SetPosition, VaultLaws!SetPosition, Vault!MoveTotals, VaultLaws!MoveTotals,
   Vault!SetActive, VaultLaws!SetActive, Vault!SetOrder, VaultLaws!SetOrder, Vault!PayOut,
   VaultLaws!PayOut, Vault!Credit, VaultLaws!Credit

LEMMA VaultCalls ==
  ASSUME NEW u, NEW o, NEW h, NEW x, NEW y, NEW e, NEW f, NEW sync
  PROVE  /\ Vault!deposit_for(u, x, sync) <=> VaultLaws!deposit_for(u, x, sync)
         /\ Vault!withdraw_for(u, x, sync) <=> VaultLaws!withdraw_for(u, x, sync)
         /\ Vault!open_solver_borrow_for(o, u, x, y, e, f, sync)
              <=> VaultLaws!open_solver_borrow_for(o, u, x, y, e, f, sync)
         /\ Vault!cancel_solver_borrow_for(o, u) <=> VaultLaws!cancel_solver_borrow_for(o, u)
         /\ Vault!mark_solver_borrow_filled(o, x, sync)
              <=> VaultLaws!mark_solver_borrow_filled(o, x, sync)
         /\ Vault!increase_solver_borrow_for(o, u, x, sync)
              <=> VaultLaws!increase_solver_borrow_for(o, u, x, sync)
         /\ Vault!repay_claim_for(o, u, x, sync) <=> VaultLaws!repay_claim_for(o, u, x, sync)
         /\ Vault!liquidate_claim_for(o, h, x, sync) <=> VaultLaws!liquidate_claim_for(o, h, x, sync)
         /\ Vault!liquidate_pool_claim_for(o, h, sync)
              <=> VaultLaws!liquidate_pool_claim_for(o, h, sync)
<1> USE VaultReads, VaultEffects DEF Vault!tokenVars, VaultLaws!tokenVars,
        Vault!adminVars, VaultLaws!adminVars, Vault!envVars, VaultLaws!envVars
<1>1. Vault!deposit_for(u, x, sync) <=> VaultLaws!deposit_for(u, x, sync)
  BY DEF Vault!deposit_for, VaultLaws!deposit_for
<1>2. Vault!withdraw_for(u, x, sync) <=> VaultLaws!withdraw_for(u, x, sync)
  BY DEF Vault!withdraw_for, VaultLaws!withdraw_for, Vault!WithdrawGuard, VaultLaws!WithdrawGuard
<1>3. Vault!open_solver_borrow_for(o, u, x, y, e, f, sync)
        <=> VaultLaws!open_solver_borrow_for(o, u, x, y, e, f, sync)
  BY DEF Vault!open_solver_borrow_for, VaultLaws!open_solver_borrow_for, Vault!OpenGuard,
     VaultLaws!OpenGuard, Vault!OpenedOrder, VaultLaws!OpenedOrder
<1>4. Vault!cancel_solver_borrow_for(o, u) <=> VaultLaws!cancel_solver_borrow_for(o, u)
  BY DEF Vault!cancel_solver_borrow_for, VaultLaws!cancel_solver_borrow_for
<1>5. Vault!mark_solver_borrow_filled(o, x, sync)
        <=> VaultLaws!mark_solver_borrow_filled(o, x, sync)
  BY DEF Vault!mark_solver_borrow_filled, VaultLaws!mark_solver_borrow_filled, Vault!CoversFill,
     VaultLaws!CoversFill
<1>6. Vault!increase_solver_borrow_for(o, u, x, sync)
        <=> VaultLaws!increase_solver_borrow_for(o, u, x, sync)
  BY DEF Vault!increase_solver_borrow_for, VaultLaws!increase_solver_borrow_for
<1>7. Vault!repay_claim_for(o, u, x, sync) <=> VaultLaws!repay_claim_for(o, u, x, sync)
  BY DEF Vault!repay_claim_for, VaultLaws!repay_claim_for, Vault!RepaidAmount,
     VaultLaws!RepaidAmount, Vault!Smaller, VaultLaws!Smaller
<1>8. Vault!SeizePosition(o, sync) <=> VaultLaws!SeizePosition(o, sync)
  BY DEF Vault!SeizePosition, VaultLaws!SeizePosition, Vault!Unhealthy, VaultLaws!Unhealthy
<1>9. Vault!liquidate_claim_for(o, h, x, sync) <=> VaultLaws!liquidate_claim_for(o, h, x, sync)
  BY <1>8 DEF Vault!liquidate_claim_for, VaultLaws!liquidate_claim_for, Vault!ProtocolProceeds,
     VaultLaws!ProtocolProceeds, Vault!MulDiv, VaultLaws!MulDiv, Vault!BPS, VaultLaws!BPS
<1>10. Vault!liquidate_pool_claim_for(o, h, sync)
         <=> VaultLaws!liquidate_pool_claim_for(o, h, sync)
  BY <1>8 DEF Vault!liquidate_pool_claim_for, VaultLaws!liquidate_pool_claim_for
<1>11. QED  BY <1>1, <1>2, <1>3, <1>4, <1>5, <1>6, <1>7, <1>9, <1>10

LEMMA VaultOwner ==
  ASSUME NEW p, NEW v
  PROVE  /\ Vault!set_param(p, v) <=> VaultLaws!set_param(p, v)
         /\ Vault!apply_param(p) <=> VaultLaws!apply_param(p)
BY DEF Vault!set_param, VaultLaws!set_param, Vault!apply_param, VaultLaws!apply_param,
   Vault!SettableValue, VaultLaws!SettableValue, Vault!AppliableValue, VaultLaws!AppliableValue,
   Vault!NoChange, VaultLaws!NoChange, Vault!bookVars, VaultLaws!bookVars, Vault!tokenVars,
   VaultLaws!tokenVars, Vault!envVars, VaultLaws!envVars

LEMMA PoolReads ==
  /\ Pool!CurrentIndex = PoolLaws!CurrentIndex
  /\ \A o : Pool!currentDebt(o) = PoolLaws!currentDebt(o)
  /\ \A s, i : Pool!Owed(s, i) = PoolLaws!Owed(s, i) /\ Pool!Scaled(s, i) = PoolLaws!Scaled(s, i)
  /\ Pool!availableLiquidity = PoolLaws!availableLiquidity
  /\ Pool!totalAssets = PoolLaws!totalAssets
BY DEF Pool!CurrentIndex, PoolLaws!CurrentIndex, Pool!currentDebt, PoolLaws!currentDebt,
   Pool!Owed, PoolLaws!Owed, Pool!Scaled, PoolLaws!Scaled, Pool!MulDiv, PoolLaws!MulDiv,
   Pool!availableLiquidity, PoolLaws!availableLiquidity, Pool!IdleOf, PoolLaws!IdleOf,
   Pool!totalAssets, PoolLaws!totalAssets, Pool!TotalAssetsWith, PoolLaws!TotalAssetsWith

LEMMA PoolQuotes ==
  /\ \A x : /\ Pool!convertToShares(x) = PoolLaws!convertToShares(x)
            /\ Pool!convertToAssets(x) = PoolLaws!convertToAssets(x)
            /\ Pool!previewWithdraw(x) = PoolLaws!previewWithdraw(x)
            /\ Pool!previewMint(x) = PoolLaws!previewMint(x)
BY PoolReads DEF Pool!convertToShares, PoolLaws!convertToShares, Pool!convertToAssets,
   PoolLaws!convertToAssets, Pool!previewWithdraw, PoolLaws!previewWithdraw, Pool!previewMint,
   PoolLaws!previewMint, Pool!Unpriced, PoolLaws!Unpriced, Pool!MulDiv, PoolLaws!MulDiv,
   Pool!MulDivUp, PoolLaws!MulDivUp

LEMMA PoolAccrual ==
  ASSUME NEW held, NEW m
  PROVE  Pool!AccrueWith(held, m) <=> PoolLaws!AccrueWith(held, m)
BY PoolReads DEF Pool!AccrueWith, PoolLaws!AccrueWith, Pool!Solvent, PoolLaws!Solvent,
   Pool!CalculateRate, PoolLaws!CalculateRate, Pool!UtilizationWith, PoolLaws!UtilizationWith,
   Pool!TotalAssetsWith, PoolLaws!TotalAssetsWith, Pool!IdleOf, PoolLaws!IdleOf, Pool!MulDiv,
   PoolLaws!MulDiv, Pool!Smaller, PoolLaws!Smaller

LEMMA PoolCalls ==
  ASSUME NEW o, NEW b, NEW x
  PROVE  /\ Pool!fundClaim(o, x, b) <=> PoolLaws!fundClaim(o, x, b)
         /\ Pool!increaseClaim(o, x) <=> PoolLaws!increaseClaim(o, x)
         /\ Pool!settleRepayment(o, x) <=> PoolLaws!settleRepayment(o, x)
         /\ Pool!settleLiquidation(o, x) <=> PoolLaws!settleLiquidation(o, x)
<1> USE PoolReads, PoolAccrual DEF Pool!Accrue, PoolLaws!Accrue, Pool!SetLoan, PoolLaws!SetLoan,
        Pool!MoveDebt, PoolLaws!MoveDebt, Pool!shareVars, PoolLaws!shareVars,
        Pool!modelVars, PoolLaws!modelVars
<1>1. Pool!fundClaim(o, x, b) <=> PoolLaws!fundClaim(o, x, b)
  BY DEF Pool!fundClaim, PoolLaws!fundClaim
<1>2. Pool!increaseClaim(o, x) <=> PoolLaws!increaseClaim(o, x)
  BY DEF Pool!increaseClaim, PoolLaws!increaseClaim
<1>3. Pool!settleRepayment(o, x) <=> PoolLaws!settleRepayment(o, x)
  BY DEF Pool!settleRepayment, PoolLaws!settleRepayment, Pool!ScaledReduction,
     PoolLaws!ScaledReduction, Pool!Smaller, PoolLaws!Smaller, Pool!MulDiv, PoolLaws!MulDiv
<1>4. Pool!settleLiquidation(o, x) <=> PoolLaws!settleLiquidation(o, x)
  BY DEF Pool!settleLiquidation, PoolLaws!settleLiquidation, Pool!ReserveUsed,
     PoolLaws!ReserveUsed, Pool!Smaller, PoolLaws!Smaller
<1>5. QED  BY <1>1, <1>2, <1>3, <1>4

LEMMA PoolProviders ==
  ASSUME NEW x, NEW a, NEW c
  PROVE  /\ Pool!deposit(x, a) <=> PoolLaws!deposit(x, a)
         /\ Pool!mint(x, a) <=> PoolLaws!mint(x, a)
         /\ Pool!withdraw(x, c, a) <=> PoolLaws!withdraw(x, c, a)
         /\ Pool!redeem(x, c, a) <=> PoolLaws!redeem(x, c, a)
         /\ Pool!cooldown(a) <=> PoolLaws!cooldown(a)
<1> USE PoolReads, PoolQuotes, PoolAccrual DEF Pool!Accrue, PoolLaws!Accrue,
        Pool!Mint, PoolLaws!Mint, Pool!Burn, PoolLaws!Burn, Pool!loanVars, PoolLaws!loanVars,
        Pool!modelVars, PoolLaws!modelVars
<1>1. Pool!deposit(x, a) <=> PoolLaws!deposit(x, a)
  BY DEF Pool!deposit, PoolLaws!deposit
<1>2. Pool!mint(x, a) <=> PoolLaws!mint(x, a)
  BY DEF Pool!mint, PoolLaws!mint
<1>3. \A v, s : Pool!TakeOut(v, s, c, a) <=> PoolLaws!TakeOut(v, s, c, a)
  BY DEF Pool!TakeOut, PoolLaws!TakeOut, Pool!CooledDown, PoolLaws!CooledDown,
     Pool!SpendAllowance, PoolLaws!SpendAllowance, Pool!NoCooldown, PoolLaws!NoCooldown
<1>4. Pool!withdraw(x, c, a) <=> PoolLaws!withdraw(x, c, a)
  BY <1>3 DEF Pool!withdraw, PoolLaws!withdraw
<1>5. Pool!redeem(x, c, a) <=> PoolLaws!redeem(x, c, a)
  BY <1>3 DEF Pool!redeem, PoolLaws!redeem
<1>6. Pool!cooldown(a) <=> PoolLaws!cooldown(a)
  BY DEF Pool!cooldown, PoolLaws!cooldown
<1>7. QED  BY <1>1, <1>2, <1>4, <1>5, <1>6

LEMMA PoolOwner == Pool!OwnerCall <=> PoolLaws!OwnerCall
BY PoolAccrual
   DEF Pool!OwnerCall, PoolLaws!OwnerCall, Pool!apply_rate_model, PoolLaws!apply_rate_model,
       Pool!set_rate_model, PoolLaws!set_rate_model, Pool!ValidModel, PoolLaws!ValidModel,
       Pool!NoPendingModel, PoolLaws!NoPendingModel, Pool!shareVars, PoolLaws!shareVars,
       Pool!indexVars, PoolLaws!indexVars, Pool!loanVars, PoolLaws!loanVars
-----------------------------------------------------------------------------
(* Claims *)

\* What the vault and the pool answer when they are asked about a user's debt.
Answers == [managed : BOOLEAN, debt : Nat]

LEMMA DebtOfClaim ==
  ASSUME PoolLaws!PoolInv, NEW o \in OrderIds
  PROVE  Pool!currentDebt(o) \in Nat
BY PoolReads, PoolParameters, PoolLaws!DebtType DEF PoolLaws!PoolInv

LEMMA SyncType ==
  ASSUME VaultLaws!IInv, PoolLaws!PoolInv, NEW u \in Users
  PROVE  Sync(u) \in Answers
<1>1. active_solver_order[u] \in OrderIds \cup {NoOrder}
  BY DEF VaultLaws!IInv, VaultLaws!TypeOK
<1>2. CASE active_solver_order[u] = NoOrder
  BY <1>2 DEF Sync, claim_debt_state, ClaimIs, Answers
<1>3. CASE active_solver_order[u] \in OrderIds
  BY <1>3, DebtOfClaim DEF Sync, claim_debt_state, Answers
<1>4. QED  BY <1>1, <1>2, <1>3

\* A live claim is the one that locks its borrower's account, in both records.
LEMMA LiveClaim ==
  ASSUME ProtocolInv, NEW o \in OrderIds, claims[o].status \in {"OPEN", "FILLED"}
  PROVE  /\ o # NoOrder /\ Borrower(o) \in Users
         /\ claims[o] \in Claims /\ claims[o].borrower = Borrower(o)
         /\ solver_orders[o] \in VaultLaws!Orders /\ solver_orders[o].borrower = Borrower(o)
         /\ solver_orders[o].status = claims[o].status
         /\ solver_orders[o].principal = claims[o].principal
         /\ solver_orders[o].filled_at = claims[o].filled_at
         /\ active_solver_order[Borrower(o)] = o
<1>1. /\ claims[o] \in Claims /\ claims[o].borrower = Borrower(o)
      /\ solver_orders[o].borrower = claims[o].borrower
      /\ solver_orders[o].status = claims[o].status
      /\ solver_orders[o].principal = claims[o].principal
      /\ solver_orders[o].filled_at = claims[o].filled_at
  BY DEF ProtocolInv, RouterInv, TypeOK, OwnClaims, StatusMirror
<1>2. solver_orders[o] \in VaultLaws!Orders
  BY DEF ProtocolInv, VaultLaws!IInv, VaultLaws!TypeOK
<1>3. /\ solver_orders[o].borrower \in Users
      /\ active_solver_order[solver_orders[o].borrower] = o
  BY <1>1 DEF ProtocolInv, VaultLaws!IInv, VaultLaws!ActiveOrders
<1>4. o # NoOrder
  OBVIOUS
<1>5. QED  BY <1>1, <1>2, <1>3, <1>4

\* An unlocked account has no live claim.
LEMMA UnlockedOwesNone ==
  ASSUME ProtocolInv, NEW u \in Users, active_solver_order[u] = NoOrder,
         NEW q \in OrderIds, Borrower(q) = u
  PROVE  claims[q].status \notin {"OPEN", "FILLED"}
BY LiveClaim

\* The nonces never lead to an id that was used before.
LEMMA FreshClaim ==
  ASSUME ProtocolInv, NEW u \in Users, order_nonce[u] < MaxNonce
  PROVE  LET o == NextOrder(u)
         IN  /\ o \in OrderIds /\ Borrower(o) = u /\ o # NoOrder
             /\ claims[o].status = "NONE" /\ solver_orders[o].status = "NONE"
             /\ claim_holder[o] = NoUser /\ claim_pools[o] = NoUser /\ ~loans[o].active
<1> DEFINE o == NextOrder(u)
<1>1. order_nonce[u] \in 0 .. MaxNonce
  BY DEF ProtocolInv, RouterInv, TypeOK
<1>2. o \in OrderIds /\ o[1] = u /\ o[2] = order_nonce[u] + 1
  BY <1>1 DEF NextOrder, OrderIds
<1> HIDE DEF o
<1>3. claims[o].status = "NONE"
  BY <1>1, <1>2 DEF ProtocolInv, RouterInv, TypeOK
<1>4. claim_holder[o] = NoUser /\ solver_orders[o].status = "NONE"
  BY <1>2, <1>3 DEF ProtocolInv, RouterInv, HolderIffFilled, StatusMirror
<1>5. claim_pools[o] = NoUser
  BY <1>2, <1>4 DEF ProtocolInv, RouterInv, HolderIffFilled
<1>6. ~loans[o].active
  BY <1>2, <1>5 DEF ProtocolInv, RouterInv, LoansAreClaims, Holders
<1>7. QED  BY <1>2, <1>3, <1>4, <1>5, <1>6 DEF Borrower, o

\* The nonces count one claim more.
Counted(o) ==
  /\ order_nonce' \in [Users -> 0 .. MaxNonce]
  /\ \A q \in OrderIds : q[2] <= order_nonce'[q[1]] <=> (q = o \/ q[2] <= order_nonce[q[1]])

LEMMA NonceStep ==
  ASSUME ProtocolInv, NEW u \in Users, order_nonce[u] < MaxNonce,
         order_nonce' = [order_nonce EXCEPT ![u] = @ + 1]
  PROVE  Counted(NextOrder(u))
<1>1. order_nonce \in [Users -> 0 .. MaxNonce]
  BY DEF ProtocolInv, RouterInv, TypeOK
<1>2. order_nonce' \in [Users -> 0 .. MaxNonce]
  BY <1>1
<1>3. ASSUME NEW q \in OrderIds
      PROVE  q[2] <= order_nonce'[q[1]] <=> (q = NextOrder(u) \/ q[2] <= order_nonce[q[1]])
  <2>1. PICK v \in Users, n \in 1 .. MaxNonce : q = <<v, n>>
    BY <1>3 DEF OrderIds
  <2>2. CASE v = u
    BY <1>1, <2>1, <2>2 DEF NextOrder
  <2>3. CASE v # u
    BY <1>1, <2>1, <2>3 DEF NextOrder
  <2>4. QED  BY <2>2, <2>3
<1>4. QED  BY <1>2, <1>3 DEF Counted

LEMMA NoncesStand ==
  ASSUME ProtocolInv, NEW o \in OrderIds, claims[o].status # "NONE", UNCHANGED order_nonce
  PROVE  Counted(o)
BY DEF ProtocolInv, RouterInv, TypeOK, Counted

\* The vault's record of a claim says what the router's says.
Mirrors(claim, order) ==
  /\ order.status = claim.status /\ order.borrower = claim.borrower
  /\ order.principal = claim.principal /\ order.filled_at = claim.filled_at

LoansKept(S) ==
  \A q \in S : loans'[q].active = loans[q].active /\ loans'[q].borrower = loans[q].borrower

\* Both records keep their types and go on mirroring each other when the claim is
\* filled or moves to another status.
LEMMA FilledRecords ==
  ASSUME NEW claim \in Claims, NEW order \in VaultLaws!Orders, Mirrors(claim, order), now \in Nat
  PROVE  LET marked == [order EXCEPT !.status = "FILLED", !.filled_at = now]
         IN  /\ Filled(claim) \in Claims /\ marked \in VaultLaws!Orders
             /\ Filled(claim).status = "FILLED" /\ marked.status = "FILLED"
             /\ Filled(claim).borrower = claim.borrower /\ marked.borrower = order.borrower
             /\ Mirrors(Filled(claim), marked)
<1> DEFINE marked == [order EXCEPT !.status = "FILLED", !.filled_at = now]
<1>1. /\ Filled(claim).status = "FILLED" /\ Filled(claim).filled_at = now
      /\ Filled(claim).borrower = claim.borrower /\ Filled(claim).principal = claim.principal
  BY DEF Claims, Filled
<1>2. /\ marked.status = "FILLED" /\ marked.filled_at = now
      /\ marked.borrower = order.borrower /\ marked.principal = order.principal
  BY DEF VaultLaws!Orders
<1>3. Filled(claim) \in Claims
  BY DEF Claims, Vault!Statuses, Filled
<1>4. marked \in VaultLaws!Orders
  BY DEF VaultLaws!Orders, VaultLaws!Statuses
<1>5. QED  BY <1>1, <1>2, <1>3, <1>4 DEF Mirrors

LEMMA MovedRecords ==
  ASSUME NEW claim \in Claims, NEW order \in VaultLaws!Orders, Mirrors(claim, order),
         NEW s \in Vault!Statuses
  PROVE  LET moved == [claim EXCEPT !.status = s]
             marked == [order EXCEPT !.status = s]
         IN  /\ moved \in Claims /\ moved.status = s /\ moved.borrower = claim.borrower
             /\ Mirrors(moved, marked)
<1>1. /\ [claim EXCEPT !.status = s].status = s
      /\ [claim EXCEPT !.status = s].borrower = claim.borrower
      /\ [claim EXCEPT !.status = s].principal = claim.principal
      /\ [claim EXCEPT !.status = s].filled_at = claim.filled_at
  BY DEF Claims
<1>2. /\ [order EXCEPT !.status = s].status = s
      /\ [order EXCEPT !.status = s].borrower = order.borrower
      /\ [order EXCEPT !.status = s].principal = order.principal
      /\ [order EXCEPT !.status = s].filled_at = order.filled_at
  BY DEF VaultLaws!Orders
<1>3. [claim EXCEPT !.status = s] \in Claims
  BY DEF Claims
<1>4. QED  BY <1>1, <1>2, <1>3 DEF Mirrors

\* One claim is rewritten, in the router, the vault and the pool alike.
LEMMA ClaimStep ==
  ASSUME ProtocolInv, NEW o \in OrderIds, NEW claim \in Claims, NEW order,
         NEW h \in Holders \cup {NoUser}, NEW p \in {NoUser, ThisPool},
         SetClaim(o, claim), Hold(o, h, p), VaultLaws!SetOrder(o, order), Counted(o),
         claim.status # "NONE", claim.borrower = Borrower(o), Mirrors(claim, order),
         h # NoUser <=> claim.status = "FILLED", p # NoUser => h = p,
         LoansKept(OrderIds \ {o}), loans'[o].active <=> p = ThisPool,
         loans'[o].active => loans'[o].borrower = claim.borrower,
         UNCHANGED configVars
  PROVE  RouterInv'
<1>1. /\ claims' \in [OrderIds -> Claims] /\ claims'[o] = claim
      /\ \A q \in OrderIds \ {o} : claims'[q] = claims[q]
  BY DEF SetClaim, ProtocolInv, RouterInv, TypeOK
<1>2. /\ claim_holder' \in [OrderIds -> Holders \cup {NoUser}] /\ claim_holder'[o] = h
      /\ \A q \in OrderIds \ {o} : claim_holder'[q] = claim_holder[q]
  BY DEF Hold, ProtocolInv, RouterInv, TypeOK
<1>3. /\ claim_pools' \in [OrderIds -> {NoUser, ThisPool, AnotherPool}] /\ claim_pools'[o] = p
      /\ \A q \in OrderIds \ {o} : claim_pools'[q] = claim_pools[q]
  BY DEF Hold, ProtocolInv, RouterInv, TypeOK
<1>4. /\ solver_orders'[o] = order
      /\ \A q \in OrderIds \ {o} : solver_orders'[q] = solver_orders[q]
  BY DEF VaultLaws!SetOrder, ProtocolInv, VaultLaws!IInv, VaultLaws!TypeOK
<1>5. TypeOK'
  BY <1>1, <1>2, <1>3 DEF ProtocolInv, RouterInv, TypeOK, Counted, configVars
<1>6. OwnClaims' /\ StatusMirror'
  BY <1>1, <1>4 DEF ProtocolInv, RouterInv, OwnClaims, StatusMirror, Mirrors
<1>7. HolderIffFilled' /\ RoutedHere'
  BY <1>1, <1>2, <1>3 DEF ProtocolInv, RouterInv, HolderIffFilled, RoutedHere
<1>8. LoansAreClaims'
  BY <1>1, <1>3 DEF ProtocolInv, RouterInv, LoansAreClaims, LoansKept
<1>9. QED  BY <1>5, <1>6, <1>7, <1>8 DEF RouterInv

\* No claim is rewritten.
LEMMA ClaimsFrame ==
  ASSUME ProtocolInv, UNCHANGED <<claimVars, solver_orders>>, LoansKept(OrderIds),
         liquidity_pool' \in Pools \cup {NoUser}, destination_settler' \in Settlers \cup {NoUser}
  PROVE  RouterInv'
<1>1. UNCHANGED <<claims, claim_holder, claim_pools, order_nonce, solver_orders>>
  BY DEF claimVars
<1>2. TypeOK' /\ OwnClaims' /\ StatusMirror' /\ HolderIffFilled' /\ RoutedHere'
  BY <1>1 DEF ProtocolInv, RouterInv, TypeOK, OwnClaims, StatusMirror, HolderIffFilled, RoutedHere
<1>3. LoansAreClaims'
  BY <1>1 DEF ProtocolInv, RouterInv, LoansAreClaims, LoansKept
<1>4. QED  BY <1>2, <1>3 DEF RouterInv
-----------------------------------------------------------------------------
(* What a step of one contract leaves alone in another *)

LEMMA VaultStands ==
  ASSUME ProtocolInv, UNCHANGED <<vaultVars, now>>
  PROVE  VaultLaws!IInv' /\ FeesSound' /\ UNCHANGED solver_orders
<1>1. UNCHANGED VaultLaws!vars
  BY DEF vaultVars, tokenVars, riskVars, VaultLaws!vars, VaultLaws!bookVars, VaultLaws!tokenVars,
     VaultLaws!adminVars, VaultLaws!envVars
<1>2. VaultLaws!IInv'
  BY <1>1, VaultParameters, VaultLaws!QuietActions DEF ProtocolInv
<1>3. QED
  BY <1>2 DEF ProtocolInv, FeesSound, vaultVars, riskVars

LEMMA PoolStands ==
  ASSUME ProtocolInv, UNCHANGED poolVars, now' \in Nat, now' >= now
  PROVE  PoolLaws!PoolInv' /\ LoansKept(OrderIds)
<1>1. UNCHANGED PoolLaws!poolVars
  BY DEF poolVars, pooledVars, PoolLaws!poolVars, PoolLaws!shareVars, PoolLaws!indexVars,
     PoolLaws!loanVars, PoolLaws!modelVars
<1>2. PoolLaws!PoolInv'
  BY <1>1, PoolParameters, PoolLaws!QuietStep DEF ProtocolInv
<1>3. QED
  BY <1>2 DEF LoansKept, poolVars, pooledVars
-----------------------------------------------------------------------------
(* What every step of the router does: it keeps the invariant, makes one move  *)
(* of the ledger at most, and asks of the pool what the pool's laws are about, *)
(* a liquidation at the whole debt, or pays it as the holder of some claim.    *)

LedgerStep == Ledger!Next \/ UNCHANGED Ledger!vars

Receipt == \E amount \in Nat : cash' = cash + amount /\ UNCHANGED <<pooledVars, now>>
PoolStep ==
  \/ PoolLaws!LPCall \/ PoolLaws!OwnerCall \/ PoolLaws!Tick \/ UNCHANGED PoolLaws!vars
  \/ \E o \in OrderIds, amount \in Nat : PoolLaws!FairTrade(o, amount)
  \/ Receipt

Sound == ProtocolInv' /\ LedgerStep /\ PoolStep

LEMMA LedgerStands ==
  ASSUME UNCHANGED <<claims, claim_holder>>
  PROVE  LedgerStep
BY DEF LedgerStep, Ledger!vars

LEMMA LedgerMove ==
  ASSUME NEW o \in OrderIds,
         \/ Ledger!Open(o) \/ Ledger!Borrow(o) \/ Ledger!Cancel(o)
         \/ Ledger!Fill(o) \/ Ledger!Transfer(o) \/ Ledger!Close(o)
  PROVE  LedgerStep
BY Zenon DEF LedgerStep, Ledger!Next

\* Rewriting one claim moves one status of the ledger, or none.
LEMMA Becomes ==
  ASSUME ProtocolInv, NEW o \in OrderIds, NEW claim, SetClaim(o, claim)
  PROVE  /\ Ledger!Become(o, claim.status)
         /\ claim.status = claims[o].status => UNCHANGED [q \in OrderIds |-> claims[q].status]
<1>1. /\ claims'[o] = claim
      /\ \A q \in OrderIds \ {o} : claims'[q] = claims[q]
  BY DEF SetClaim, ProtocolInv, RouterInv, TypeOK
<1>2. QED  BY <1>1, Zenon DEF Ledger!Become

LEMMA PoolQuiet ==
  ASSUME UNCHANGED <<poolVars, now>>
  PROVE  UNCHANGED PoolLaws!vars
BY DEF poolVars, pooledVars, PoolLaws!vars, PoolLaws!poolVars, PoolLaws!shareVars,
   PoolLaws!indexVars, PoolLaws!loanVars, PoolLaws!modelVars

\* A call that only moves collateral or a user's debt.
LEMMA OnlyPositions ==
  ASSUME ProtocolInv, VaultLaws!IInv',
         UNCHANGED <<routerVars, poolVars, solver_orders, riskVars, now>>
  PROVE  Sound
<1>1. PoolLaws!PoolInv' /\ LoansKept(OrderIds)
  BY PoolStands DEF ProtocolInv, PoolLaws!PoolInv, PoolLaws!TypeOK
<1>2. RouterInv'
  BY <1>1, ClaimsFrame DEF routerVars, configVars, ProtocolInv, RouterInv, TypeOK
<1>3. FeesSound'
  BY DEF ProtocolInv, FeesSound, riskVars
<1>4. LedgerStep
  BY LedgerStands DEF routerVars, claimVars
<1>5. PoolStep
  BY PoolQuiet DEF PoolStep
<1>6. QED  BY <1>1, <1>2, <1>3, <1>4, <1>5 DEF Sound, ProtocolInv

LEMMA DepositCall ==
  ASSUME ProtocolInv, NEW user \in Users, NEW amount \in Nat, deposit(user, amount)
  PROVE  Sound
<1>1. Sync(user) \in Answers
  BY SyncType DEF ProtocolInv
<1>2. VaultLaws!deposit_for(user, amount, Sync(user)) /\ UNCHANGED <<routerVars, poolVars>>
  BY VaultCalls DEF deposit
<1>3. VaultLaws!IInv'
  BY <1>1, <1>2, VaultParameters, VaultLaws!DepositStep DEF ProtocolInv, Answers
<1>4. UNCHANGED <<solver_orders, riskVars, now>>
  BY <1>2 DEF VaultLaws!deposit_for, VaultLaws!adminVars, VaultLaws!envVars, riskVars
<1>5. QED  BY <1>2, <1>3, <1>4, OnlyPositions

LEMMA WithdrawCall ==
  ASSUME ProtocolInv, NEW user \in Users, NEW amount \in Nat, withdraw(user, amount)
  PROVE  Sound
<1>1. Sync(user) \in Answers
  BY SyncType DEF ProtocolInv
<1>2. VaultLaws!withdraw_for(user, amount, Sync(user)) /\ UNCHANGED <<routerVars, poolVars>>
  BY VaultCalls DEF withdraw
<1>3. VaultLaws!IInv'
  BY <1>1, <1>2, VaultParameters, VaultLaws!WithdrawStep DEF ProtocolInv, Answers
<1>4. UNCHANGED <<solver_orders, riskVars, now>>
  BY <1>2 DEF VaultLaws!withdraw_for, VaultLaws!adminVars, VaultLaws!envVars, riskVars
<1>5. QED  BY <1>2, <1>3, <1>4, OnlyPositions

LEMMA TransferCall ==
  ASSUME ProtocolInv, NEW o \in OrderIds, NEW new_holder \in Solvers \cup {ThisPool},
         transfer_claim(o, new_holder)
  PROVE  Sound
<1>1. /\ claims[o].status = "FILLED" /\ claim_holder[o] \in Solvers
      /\ claim_holder' = [claim_holder EXCEPT ![o] = new_holder]
      /\ UNCHANGED <<claims, claim_pools, order_nonce, configVars, vaultVars, poolVars, now>>
  BY DEF transfer_claim, ClaimIs
<1>2. claim_pools[o] = NoUser
  BY <1>1 DEF ProtocolInv, RouterInv, RoutedHere, HolderIffFilled
<1>3. new_holder \in Holders /\ new_holder # NoUser
  BY DEF Holders
<1>4. /\ claim_holder' \in [OrderIds -> Holders \cup {NoUser}]
      /\ claim_holder'[o] = new_holder
      /\ \A q \in OrderIds \ {o} : claim_holder'[q] = claim_holder[q]
  BY <1>1, <1>3 DEF ProtocolInv, RouterInv, TypeOK
<1>5. VaultLaws!IInv' /\ FeesSound' /\ UNCHANGED solver_orders
  BY <1>1, VaultStands
<1>6. PoolLaws!PoolInv' /\ LoansKept(OrderIds)
  BY <1>1, PoolStands DEF ProtocolInv, PoolLaws!PoolInv, PoolLaws!TypeOK
<1>7. TypeOK'
  BY <1>1, <1>4 DEF ProtocolInv, RouterInv, TypeOK, configVars
<1>8. OwnClaims' /\ StatusMirror' /\ RoutedHere'
  BY <1>1, <1>5 DEF ProtocolInv, RouterInv, OwnClaims, StatusMirror, RoutedHere
<1>9. HolderIffFilled'
  BY <1>1, <1>2, <1>3, <1>4 DEF ProtocolInv, RouterInv, HolderIffFilled
<1>10. LoansAreClaims'
  BY <1>1, <1>6 DEF ProtocolInv, RouterInv, LoansAreClaims, LoansKept
<1>11. LedgerStep
  <2>1. Ledger!Transfer(o)
    BY <1>1 DEF Ledger!Transfer, Ledger!GoesTo
  <2>2. QED  BY <2>1, LedgerMove
<1>12. PoolStep
  BY <1>1, PoolQuiet DEF PoolStep
<1>13. QED
  BY <1>5, <1>6, <1>7, <1>8, <1>9, <1>10, <1>11, <1>12 DEF Sound, ProtocolInv, RouterInv
-----------------------------------------------------------------------------
(* Administration, the providers' own calls, and the environment *)

\* A change of the market's settings.
LEMMA SettingsCall ==
  ASSUME ProtocolInv, UNCHANGED <<claimVars, vaultVars, poolVars, now>>,
         liquidity_pool' \in Pools \cup {NoUser}, destination_settler' \in Settlers \cup {NoUser}
  PROVE  Sound
<1>1. VaultLaws!IInv' /\ FeesSound' /\ UNCHANGED solver_orders
  BY VaultStands
<1>2. PoolLaws!PoolInv' /\ LoansKept(OrderIds)
  BY PoolStands DEF ProtocolInv, PoolLaws!PoolInv, PoolLaws!TypeOK
<1>3. RouterInv'
  BY <1>1, <1>2, ClaimsFrame
<1>4. LedgerStep
  BY LedgerStands DEF claimVars
<1>5. PoolStep
  BY PoolQuiet DEF PoolStep
<1>6. QED  BY <1>1, <1>2, <1>3, <1>4, <1>5 DEF Sound, ProtocolInv

\* A call that reaches the pool alone, from a provider or the pool's owner.
LEMMA PoolOnly ==
  ASSUME ProtocolInv, PoolLaws!LPCall \/ PoolLaws!OwnerCall, UNCHANGED <<routerVars, vaultVars>>
  PROVE  Sound
<1>1. PoolLaws!PoolInv'
  BY PoolParameters, PoolLaws!LPSteps, PoolLaws!OwnerSteps DEF ProtocolInv
<1>2. UNCHANGED <<loans, now>>
  BY DEF PoolLaws!LPCall, PoolLaws!OwnerCall, PoolLaws!deposit, PoolLaws!mint, PoolLaws!withdraw,
     PoolLaws!redeem, PoolLaws!TakeOut, PoolLaws!cooldown, PoolLaws!apply_rate_model,
     PoolLaws!set_rate_model, PoolLaws!loanVars
<1>3. VaultLaws!IInv' /\ FeesSound' /\ UNCHANGED solver_orders
  BY <1>2, VaultStands
<1>4. RouterInv'
  BY <1>2, <1>3, ClaimsFrame
     DEF routerVars, configVars, LoansKept, ProtocolInv, RouterInv, TypeOK
<1>5. LedgerStep
  BY LedgerStands DEF routerVars, claimVars
<1>6. PoolStep
  BY DEF PoolStep
<1>7. QED  BY <1>1, <1>3, <1>4, <1>5, <1>6 DEF Sound, ProtocolInv

LEMMA AdminCalls == ProtocolInv /\ AdminCall => Sound
<1>1. ASSUME ProtocolInv, NEW settler \in Settlers, set_destination_settler(settler)
      PROVE  Sound
  BY <1>1, SettingsCall DEF set_destination_settler, ProtocolInv, RouterInv, TypeOK
<1>2. ASSUME ProtocolInv, NEW pool \in Pools, set_liquidity_pool(pool)
      PROVE  Sound
  BY <1>2, SettingsCall DEF set_liquidity_pool, ProtocolInv, RouterInv, TypeOK
<1>3. ASSUME ProtocolInv, NEW assets \in SeedAmounts,
             totalSupply + Pool!convertToShares(assets) <= MaxShares, seed_liquidity_pool(assets)
      PROVE  Sound
  <2>1. /\ PoolLaws!deposit(assets, Owner) /\ UNCHANGED <<routerVars, vaultVars>>
        /\ totalSupply + PoolLaws!convertToShares(assets) <= MaxShares
    BY <1>3, PoolProviders, PoolQuotes DEF seed_liquidity_pool
  <2>2. assets \in Nat
    OBVIOUS
  <2>3. PoolLaws!LPCall
    BY <2>1, <2>2, Zenon DEF PoolLaws!LPCall
  <2>4. QED  BY <1>3, <2>1, <2>3, PoolOnly
<1>4. QED  BY <1>1, <1>2, <1>3, Zenon DEF AdminCall

LEMMA ProviderCalls == Pool!LPCall => PoolLaws!LPCall
<1>1. SUFFICES ASSUME NEW amount \in ShareAmounts,
                      \/ /\ totalSupply + Pool!convertToShares(amount) <= MaxShares
                         /\ Pool!deposit(amount, Owner)
                      \/ totalSupply + amount <= MaxShares /\ Pool!mint(amount, Owner)
                      \/ Pool!withdraw(amount, Owner, Owner) \/ Pool!redeem(amount, Owner, Owner)
                      \/ Pool!cooldown(Owner)
               PROVE  PoolLaws!LPCall
  BY DEF Pool!LPCall
<1>2. \/ /\ totalSupply + PoolLaws!convertToShares(amount) <= MaxShares
         /\ PoolLaws!deposit(amount, Owner)
      \/ totalSupply + amount <= MaxShares /\ PoolLaws!mint(amount, Owner)
      \/ PoolLaws!withdraw(amount, Owner, Owner) \/ PoolLaws!redeem(amount, Owner, Owner)
      \/ PoolLaws!cooldown(Owner)
  BY <1>1, PoolProviders, PoolQuotes
<1>3. amount \in Nat
  OBVIOUS
<1>4. QED  BY <1>2, <1>3, Zenon DEF PoolLaws!LPCall

\* A change of the vault's parameters, scheduled or put in force.
LEMMA ParameterCall ==
  ASSUME ProtocolInv, UNCHANGED <<routerVars, poolVars>>,
         \/ \E choice \in ParamChoices : Vault!set_param(choice[1], choice[2])
         \/ \E p \in Vault!ParamNames : Vault!apply_param(p)
  PROVE  Sound
<1>1. \/ \E choice \in ParamChoices : VaultLaws!set_param(choice[1], choice[2])
      \/ \E p \in VaultLaws!ParamNames : VaultLaws!apply_param(p)
  BY VaultOwner DEF Vault!ParamNames, VaultLaws!ParamNames
<1>2. VaultLaws!IInv'
  BY <1>1, VaultParameters, VaultLaws!QuietActions DEF ProtocolInv, VaultLaws!OwnerCall
<1>3. UNCHANGED <<solver_orders, now>>
  BY <1>1 DEF VaultLaws!set_param, VaultLaws!apply_param, VaultLaws!bookVars, VaultLaws!envVars
<1>4. PoolLaws!PoolInv' /\ LoansKept(OrderIds)
  BY <1>3, PoolStands DEF ProtocolInv, PoolLaws!PoolInv, PoolLaws!TypeOK
<1>5. RouterInv'
  BY <1>3, <1>4, ClaimsFrame DEF routerVars, configVars, ProtocolInv, RouterInv, TypeOK
<1>6. FeesSound'
  <2>1. /\ params["borrow_fee_bps"] <= 500 /\ pending["borrow_fee_bps"].value <= 500
        /\ params \in [VaultLaws!ParamNames -> Nat]
        /\ pending \in [VaultLaws!ParamNames -> VaultLaws!Changes]
        /\ "borrow_fee_bps" \in VaultLaws!ParamNames
    BY DEF ProtocolInv, FeesSound, VaultLaws!IInv, VaultLaws!TypeOK, VaultLaws!ParamNames
  <2>2. ASSUME NEW choice \in ParamChoices, VaultLaws!set_param(choice[1], choice[2])
        PROVE  FeesSound'
    <3>1. choice[1] \in VaultLaws!ParamNames /\ choice[2] \in Nat
      BY DEF Vault!ParamNames, VaultLaws!ParamNames
    <3>2. choice[1] = "borrow_fee_bps" => choice[2] <= 500
      BY <2>2 DEF VaultLaws!set_param, VaultLaws!SettableValue
    <3>3. QED  BY <2>1, <2>2, <3>1, <3>2 DEF VaultLaws!set_param, FeesSound
  <2>3. ASSUME NEW p \in VaultLaws!ParamNames, VaultLaws!apply_param(p)
        PROVE  FeesSound'
    BY <2>1, <2>3 DEF VaultLaws!apply_param, VaultLaws!NoChange, FeesSound
  <2>4. QED  BY <1>1, <2>2, <2>3
<1>7. LedgerStep
  BY LedgerStands DEF routerVars, claimVars
<1>8. PoolStep
  BY <1>3, PoolQuiet DEF PoolStep
<1>9. QED  BY <1>2, <1>4, <1>5, <1>6, <1>7, <1>8 DEF Sound, ProtocolInv

LEMMA DirectCalls == ProtocolInv /\ DirectCall => Sound
<1>1. SUFFICES ASSUME ProtocolInv, DirectCall PROVE Sound
  OBVIOUS
<1>2. CASE Pool!LPCall /\ UNCHANGED <<routerVars, vaultVars>>
  BY <1>1, <1>2, ProviderCalls, PoolOnly
<1>3. CASE Pool!OwnerCall /\ UNCHANGED <<routerVars, vaultVars>>
  BY <1>1, <1>3, PoolOwner, PoolOnly
<1>4. CASE /\ \/ \E choice \in ParamChoices : Vault!set_param(choice[1], choice[2])
              \/ \E p \in Vault!ParamNames : Vault!apply_param(p)
           /\ UNCHANGED <<routerVars, poolVars>>
  BY <1>1, <1>4, ParameterCall
<1>5. QED  BY <1>1, <1>2, <1>3, <1>4 DEF DirectCall

LEMMA Environment == ProtocolInv /\ (Tick \/ SetPrice \/ UNCHANGED vars) => Sound
<1>1. SUFFICES ASSUME ProtocolInv, Tick \/ SetPrice \/ UNCHANGED vars PROVE Sound
  OBVIOUS
<1>2. /\ UNCHANGED <<routerVars, poolVars, solver_orders, riskVars>>
      /\ now \in Nat /\ now' \in Nat /\ now' >= now
  BY <1>1 DEF Tick, SetPrice, Vault!SetPrice, Vault!bookVars, Vault!adminVars, vars, vaultVars,
     riskVars, ProtocolInv, PoolLaws!PoolInv, PoolLaws!TypeOK
<1>3. VaultLaws!IInv'
  <2>1. VaultLaws!Tick \/ VaultLaws!SetPrice \/ UNCHANGED VaultLaws!vars
    BY <1>1 DEF Tick, SetPrice, vars, vaultVars, tokenVars, riskVars, Vault!SetPrice,
       Vault!bookVars, Vault!tokenVars, Vault!adminVars, VaultLaws!Tick, VaultLaws!SetPrice,
       VaultLaws!vars, VaultLaws!bookVars, VaultLaws!tokenVars, VaultLaws!adminVars,
       VaultLaws!envVars
  <2>2. QED  BY <1>1, <2>1, VaultParameters, VaultLaws!QuietActions DEF ProtocolInv
<1>4. PoolLaws!PoolInv' /\ LoansKept(OrderIds)
  BY <1>1, <1>2, PoolStands
<1>5. RouterInv'
  BY <1>1, <1>2, <1>4, ClaimsFrame DEF routerVars, configVars, ProtocolInv, RouterInv, TypeOK
<1>6. FeesSound'
  BY <1>1, <1>2 DEF ProtocolInv, FeesSound, riskVars
<1>7. LedgerStep
  BY <1>2, LedgerStands DEF routerVars, claimVars
<1>8. PoolStep
  <2>1. PoolLaws!Tick \/ UNCHANGED <<poolVars, now>>
    BY <1>1 DEF Tick, SetPrice, Vault!SetPrice, vars, PoolLaws!Tick, poolVars, pooledVars,
       PoolLaws!poolVars, PoolLaws!shareVars, PoolLaws!indexVars, PoolLaws!loanVars,
       PoolLaws!modelVars
  <2>2. QED  BY <2>1, PoolQuiet DEF PoolStep
<1>9. QED  BY <1>3, <1>4, <1>5, <1>6, <1>7, <1>8 DEF Sound, ProtocolInv
-----------------------------------------------------------------------------
(* Opening and filling claims *)

\* A claim is held as before when both of its holders are.
LEMMA HoldStands ==
  ASSUME ProtocolInv, NEW o \in OrderIds, UNCHANGED <<claim_holder, claim_pools>>
  PROVE  /\ Hold(o, claim_holder[o], claim_pools[o])
         /\ claim_holder[o] \in Holders \cup {NoUser} /\ claim_pools[o] \in {NoUser, ThisPool}
BY DEF Hold, ProtocolInv, RouterInv, TypeOK, RoutedHere

\* The account of a borrower who may open a claim is unlocked, in the ledger's sense too.
LEMMA MayBorrowWhenUnlocked ==
  ASSUME ProtocolInv, NEW u \in Users, active_solver_order[u] = NoOrder
  PROVE  Ledger!MayBorrow(u)
BY UnlockedOwesNone DEF Ledger!MayBorrow, Ledger!Live

LEMMA FeeType == ProtocolInv => params["borrow_fee_bps"] \in 0 .. Vault!BPS
<1>1. SUFFICES ASSUME ProtocolInv PROVE params["borrow_fee_bps"] \in 0 .. Vault!BPS
  OBVIOUS
<1>2. params["borrow_fee_bps"] <= 500
  BY <1>1 DEF ProtocolInv, FeesSound
<1>3. params["borrow_fee_bps"] \in Nat
  BY <1>1 DEF ProtocolInv, VaultLaws!IInv, VaultLaws!TypeOK, VaultLaws!ParamNames
<1>4. ASSUME NEW fee \in Nat, fee <= 500 PROVE fee \in 0 .. Vault!BPS
  <2>1. Vault!BPS = 10000
    BY DEF Vault!BPS
  <2>2. fee \in 0 .. 10000
    BY <1>4
  <2>3. QED  BY <2>1, <2>2
<1>5. QED  BY <1>2, <1>3, <1>4

LEMMA OpenCall ==
  ASSUME ProtocolInv, NEW user \in Users, NEW amount \in Nat, NEW deadline \in Nat,
         OpenIntent(user, amount, deadline)
  PROVE  Sound
<1>0. PICK o : o = NextOrder(user)
  OBVIOUS
<1> DEFINE fee == params["borrow_fee_bps"]
           debt == amount + MulDiv(amount, fee, Vault!BPS)
           claim == [status |-> "OPEN", borrower |-> user, principal |-> amount,
                     protocol_fee_bps |-> fee, fill_deadline |-> deadline, filled_at |-> 0]
           order == VaultLaws!OpenedOrder(user, amount, debt, deadline, fee)
<1>1. /\ o \in OrderIds /\ Borrower(o) = user
      /\ claims[o].status = "NONE" /\ solver_orders[o].status = "NONE"
      /\ claim_holder[o] = NoUser /\ claim_pools[o] = NoUser /\ ~loans[o].active
  BY <1>0, FreshClaim DEF OpenIntent
<1>2. fee \in 0 .. Vault!BPS
  BY FeeType
<1>3. debt \in Nat
  <2> HIDE DEF fee
  <2>1. MulDiv(amount, fee, Vault!BPS) \in 0 .. amount
    <3>1. Vault!BPS \in Nat \ {0}
      BY DEF Vault!BPS
    <3>2. QED  BY <1>2, <3>1, MulDivShare
  <2>2. QED  BY <2>1
<1>4. /\ SetClaim(o, claim) /\ Counted(o)
      /\ VaultLaws!open_solver_borrow_for(o, user, amount, debt, deadline, fee, Sync(user))
      /\ UNCHANGED <<claim_holder, claim_pools, configVars, poolVars>>
  BY <1>0, VaultCalls, NonceStep DEF OpenIntent, Register, SetClaim
<1> HIDE DEF debt, fee
<1>5. Sync(user) \in Answers
  BY SyncType DEF ProtocolInv
<1>6. VaultLaws!IInv'
  BY <1>1, <1>2, <1>3, <1>4, <1>5, VaultParameters, VaultLaws!OpenStep DEF ProtocolInv, Answers
<1>7. /\ VaultLaws!SetOrder(o, order) /\ active_solver_order[user] = NoOrder
      /\ UNCHANGED <<riskVars, now>>
  BY <1>4 DEF VaultLaws!open_solver_borrow_for, VaultLaws!OpenGuard, VaultLaws!adminVars,
     VaultLaws!envVars, riskVars
<1>8. PoolLaws!PoolInv' /\ LoansKept(OrderIds)
  BY <1>4, <1>7, PoolStands DEF ProtocolInv, PoolLaws!PoolInv, PoolLaws!TypeOK
<1>9. RouterInv'
  <2>1. claim \in Claims
    BY <1>2 DEF Claims, Vault!Statuses
  <2>2. Mirrors(claim, order)
    BY DEF Mirrors, VaultLaws!OpenedOrder
  <2>3. Hold(o, NoUser, NoUser)
    BY <1>1, <1>4, HoldStands
  <2>4. ~loans'[o].active /\ LoansKept(OrderIds \ {o})
    BY <1>1, <1>8 DEF LoansKept
  <2>5. claim.status = "OPEN" /\ claim.borrower = Borrower(o) /\ NoUser # ThisPool
    BY <1>1 DEF Holders
  <2> HIDE DEF claim, order
  <2>6. QED  BY <1>1, <1>4, <1>7, <2>1, <2>2, <2>3, <2>4, <2>5, ClaimStep
<1>10. FeesSound'
  BY <1>7 DEF ProtocolInv, FeesSound, riskVars
<1>11. LedgerStep
  <2>1. Ledger!Open(o)
    <3>1. Ledger!Become(o, "OPEN")
      BY <1>1, <1>4, Becomes
    <3>2. Ledger!MayBorrow(Borrower(o))
      BY <1>1, <1>7, MayBorrowWhenUnlocked
    <3>3. QED  BY <1>1, <1>4, <3>1, <3>2 DEF Ledger!Open
  <2>2. QED  BY <1>1, <2>1, LedgerMove
<1>12. PoolStep
  BY <1>4, <1>7, PoolQuiet DEF PoolStep
<1>13. QED
  BY <1>6, <1>8, <1>9, <1>10, <1>11, <1>12 DEF Sound, ProtocolInv

\* Lending on a claim is one of the pool's own steps.
LEMMA Funding ==
  ASSUME ProtocolInv, NEW o \in OrderIds, NEW principal \in Nat, NEW user \in Users,
         PoolLaws!fundClaim(o, principal, user)
  PROVE  /\ PoolLaws!PoolInv' /\ PoolStep /\ UNCHANGED now /\ ~loans[o].active
         /\ LoansKept(OrderIds \ {o}) /\ loans'[o].active /\ loans'[o].borrower = user
<1>1. PoolLaws!PoolInv'
  BY PoolParameters, PoolLaws!FundStep DEF ProtocolInv
<1>2. PoolStep
  BY DEF PoolStep, PoolLaws!FairTrade
<1>3. loans \in [OrderIds -> PoolLaws!Loans]
  BY DEF ProtocolInv, PoolLaws!PoolInv, PoolLaws!TypeOK
<1>4. QED
  BY <1>1, <1>2, <1>3 DEF PoolLaws!fundClaim, PoolLaws!SetLoan, LoansKept

LEMMA BorrowFromPoolCall ==
  ASSUME ProtocolInv, NEW user \in Users, NEW amount \in Nat, liquidity_pool = ThisPool,
         BorrowFromPool(user, amount)
  PROVE  Sound
<1>0. PICK o : o = NextOrder(user)
  OBVIOUS
<1> DEFINE claim == Filled([status |-> "OPEN", borrower |-> user, principal |-> amount,
                            protocol_fee_bps |-> 0, fill_deadline |-> now + 1,
                            filled_at |-> 0])
           order == [Vault!OpenedOrder(user, amount, amount, now + 1, 0)
                       EXCEPT !.status = "FILLED", !.filled_at = now]
<1>1. /\ o \in OrderIds /\ Borrower(o) = user
      /\ claims[o].status = "NONE" /\ solver_orders[o].status = "NONE"
  BY <1>0, FreshClaim DEF BorrowFromPool
<1>2. /\ SetClaim(o, claim) /\ Counted(o) /\ Hold(o, ThisPool, ThisPool)
      /\ PoolLaws!fundClaim(o, amount, user)
      /\ UNCHANGED <<configVars, tokenVars, riskVars, price>>
  <2> HIDE DEF claim
  <2>1. SetClaim(o, claim) /\ Counted(o)
    BY <1>0, NonceStep DEF BorrowFromPool, Register, SetClaim, claim
  <2>2. QED  BY <1>0, <2>1, PoolCalls DEF BorrowFromPool
<1>3. /\ VaultLaws!SetPosition(user, positions[user].collateral, amount)
      /\ VaultLaws!MoveTotals(0, VaultLaws!AccrualDelta(user, Sync(user)) + amount)
      /\ VaultLaws!SetActive(user, o) /\ VaultLaws!SetOrder(o, order)
      /\ active_solver_order[user] = NoOrder /\ VaultLaws!AccruedDebt(user, Sync(user)) = 0
  <2>1. Vault!SetOrder(o, order)
    BY <1>0 DEF BorrowFromPool
  <2> HIDE DEF order
  <2>2. QED  BY <1>0, <2>1, VaultReads, VaultEffects DEF BorrowFromPool, Vault!OpenGuard
<1>4. /\ PoolLaws!PoolInv' /\ PoolStep /\ UNCHANGED now /\ ~loans[o].active
      /\ LoansKept(OrderIds \ {o}) /\ loans'[o].active /\ loans'[o].borrower = user
  BY <1>1, <1>2, Funding
<1>5. /\ claim \in Claims /\ claim.status = "FILLED" /\ claim.borrower = user
      /\ order \in VaultLaws!Orders /\ order.status = "FILLED" /\ order.borrower = user
      /\ Mirrors(claim, order)
  <2> DEFINE opened == [status |-> "OPEN", borrower |-> user, principal |-> amount,
                        protocol_fee_bps |-> 0, fill_deadline |-> now + 1, filled_at |-> 0]
             locked == Vault!OpenedOrder(user, amount, amount, now + 1, 0)
  <2>1. now \in Nat
    BY DEF ProtocolInv, PoolLaws!PoolInv, PoolLaws!TypeOK
  <2>2. 0 \in 0 .. Vault!BPS /\ 0 \in 0 .. VaultLaws!BPS
    BY DEF Vault!BPS, VaultLaws!BPS
  <2>3. opened \in Claims
    BY <2>1, <2>2 DEF Claims, Vault!Statuses
  <2>4. locked \in VaultLaws!Orders
    BY <2>1, <2>2 DEF VaultLaws!Orders, VaultLaws!Statuses, Vault!OpenedOrder
  <2>5. Mirrors(opened, locked) /\ opened.borrower = user /\ locked.borrower = user
    BY DEF Mirrors, Vault!OpenedOrder
  <2> HIDE DEF opened, locked
  <2>6. QED  BY <2>1, <2>3, <2>4, <2>5, FilledRecords DEF opened, locked
<1> HIDE DEF claim, order
<1>6. VaultLaws!IInv'
  <2>1. Sync(user) \in Answers
    BY SyncType DEF ProtocolInv
  <2>2. VaultLaws!AccrualDelta(user, Sync(user)) + amount = amount - positions[user].debt
    <3>1. /\ VaultLaws!AccrualDelta(user, Sync(user)) \in Int /\ positions[user].debt \in Nat
          /\ 0 = positions[user].debt + VaultLaws!AccrualDelta(user, Sync(user))
      BY <1>3, <2>1, VaultParameters, VaultLaws!Accrual
         DEF ProtocolInv, VaultLaws!IInv, VaultLaws!TypeOK, VaultLaws!Positions, Answers
    <3>2. QED  BY <3>1
  <2>3. VaultLaws!MoveTotals(0, amount - positions[user].debt)
    BY <1>3, <2>2
  <2>4. UNCHANGED <<VaultLaws!tokenVars, VaultLaws!adminVars, VaultLaws!envVars>>
    BY <1>2, <1>4 DEF tokenVars, riskVars, VaultLaws!tokenVars, VaultLaws!adminVars,
       VaultLaws!envVars
  <2>5. QED
    BY <1>1, <1>3, <1>5, <2>3, <2>4, VaultParameters, VaultLaws!LockStep DEF ProtocolInv
<1>7. RouterInv'
  <2>1. ThisPool \in Holders /\ ThisPool # NoUser
    BY DEF Holders
  <2>2. QED
    BY <1>1, <1>2, <1>3, <1>4, <1>5, <2>1, ClaimStep
<1>8. FeesSound'
  BY <1>2 DEF ProtocolInv, FeesSound, riskVars
<1>9. LedgerStep
  <2>1. Ledger!Borrow(o)
    <3>1. Ledger!Become(o, "FILLED")
      BY <1>1, <1>2, <1>5, Becomes
    <3>2. Ledger!GoesTo(o, ThisPool)
      BY <1>2 DEF Hold, Ledger!GoesTo
    <3>3. Ledger!MayBorrow(Borrower(o))
      BY <1>1, <1>3, MayBorrowWhenUnlocked
    <3>4. QED  BY <1>1, <3>1, <3>2, <3>3 DEF Ledger!Borrow
  <2>2. QED  BY <1>1, <2>1, LedgerMove
<1>10. QED  BY <1>4, <1>6, <1>7, <1>8, <1>9 DEF Sound, ProtocolInv

LEMMA IncreasedRecords ==
  ASSUME NEW claim \in Claims, NEW order \in VaultLaws!Orders, Mirrors(claim, order),
         NEW x \in Nat
  PROVE  LET raised == [claim EXCEPT !.principal = @ + x]
             marked == [order EXCEPT !.principal = @ + x, !.debt_amount = @ + x]
         IN  /\ raised \in Claims /\ raised.status = claim.status
             /\ raised.borrower = claim.borrower /\ Mirrors(raised, marked)
<1> DEFINE raised == [claim EXCEPT !.principal = @ + x]
           marked == [order EXCEPT !.principal = @ + x, !.debt_amount = @ + x]
<1>1. /\ raised.status = claim.status /\ raised.borrower = claim.borrower
      /\ raised.principal = claim.principal + x /\ raised.filled_at = claim.filled_at
  BY DEF Claims
<1>2. /\ marked.status = order.status /\ marked.borrower = order.borrower
      /\ marked.principal = order.principal + x /\ marked.filled_at = order.filled_at
  BY DEF VaultLaws!Orders
<1>3. claim.principal \in Nat /\ claim.principal + x \in Nat
  BY DEF Claims
<1>4. raised \in Claims
  BY <1>3 DEF Claims
<1>5. QED  BY <1>1, <1>2, <1>4 DEF Mirrors

LEMMA Increasing ==
  ASSUME ProtocolInv, NEW o \in OrderIds, NEW amount \in Nat, PoolLaws!increaseClaim(o, amount)
  PROVE  /\ PoolLaws!PoolInv' /\ PoolStep /\ UNCHANGED now
         /\ LoansKept(OrderIds \ {o}) /\ loans[o].active /\ loans'[o].active
         /\ loans'[o].borrower = loans[o].borrower
<1>1. PoolLaws!PoolInv'
  BY PoolParameters, PoolLaws!IncreaseStep DEF ProtocolInv
<1>2. PoolStep
  BY DEF PoolStep, PoolLaws!FairTrade
<1>3. loans \in [OrderIds -> PoolLaws!Loans] /\ loans[o] \in PoolLaws!Loans
  BY DEF ProtocolInv, PoolLaws!PoolInv, PoolLaws!TypeOK
<1> DEFINE scaled == PoolLaws!Scaled(amount, PoolLaws!CurrentIndex)
           loan == [loans[o] EXCEPT !.scaledPrincipal = @ + scaled, !.rawPrincipal = @ + amount]
<1>4. loans' = [loans EXCEPT ![o] = loan] /\ loans[o].active /\ UNCHANGED now
  BY DEF PoolLaws!increaseClaim, PoolLaws!SetLoan
<1>5. (loan.active <=> loans[o].active) /\ loan.borrower = loans[o].borrower
  BY <1>3 DEF PoolLaws!Loans
<1> HIDE DEF loan
<1>6. QED
  BY <1>1, <1>2, <1>3, <1>4, <1>5 DEF LoansKept

LEMMA BorrowMoreCall ==
  ASSUME ProtocolInv, NEW user \in Users, NEW o \in OrderIds, NEW amount \in Nat,
         liquidity_pool = ThisPool, BorrowMoreFromPool(user, o, amount)
  PROVE  Sound
<1> DEFINE claim == [claims[o] EXCEPT !.principal = @ + amount]
           order == [solver_orders[o] EXCEPT !.principal = @ + amount, !.debt_amount = @ + amount]
<1>1. /\ SetClaim(o, claim) /\ claim_pools[o] = ThisPool
      /\ VaultLaws!increase_solver_borrow_for(o, user, amount, Sync(user))
      /\ PoolLaws!increaseClaim(o, amount)
      /\ UNCHANGED <<claim_holder, claim_pools, order_nonce, configVars>>
  BY VaultCalls, PoolCalls DEF BorrowMoreFromPool
<1>2. /\ solver_orders[o].status = "FILLED" /\ VaultLaws!SetOrder(o, order)
      /\ UNCHANGED <<riskVars, now>>
  BY <1>1 DEF VaultLaws!increase_solver_borrow_for, VaultLaws!adminVars, VaultLaws!envVars, riskVars
<1>3. claims[o].status = "FILLED"
  BY <1>2 DEF ProtocolInv, RouterInv, StatusMirror
<1>4. /\ claims[o] \in Claims /\ claims[o].borrower = Borrower(o)
      /\ solver_orders[o] \in VaultLaws!Orders /\ Mirrors(claims[o], solver_orders[o])
  BY <1>3, LiveClaim DEF Mirrors
<1>5. /\ claim \in Claims /\ claim.status = claims[o].status
      /\ claim.borrower = claims[o].borrower /\ Mirrors(claim, order)
  BY <1>4, IncreasedRecords
<1> HIDE DEF claim, order
<1>6. VaultLaws!IInv'
  BY <1>1, SyncType, VaultParameters, VaultLaws!IncreaseStep DEF ProtocolInv, Answers
<1>7. /\ PoolLaws!PoolInv' /\ PoolStep
      /\ LoansKept(OrderIds \ {o}) /\ loans[o].active /\ loans'[o].active
      /\ loans'[o].borrower = loans[o].borrower
  BY <1>1, Increasing
<1>8. RouterInv'
  <2>1. /\ Hold(o, claim_holder[o], claim_pools[o])
        /\ claim_holder[o] \in Holders \cup {NoUser} /\ claim_pools[o] \in {NoUser, ThisPool}
    BY <1>1, HoldStands
  <2>2. /\ claim_holder[o] # NoUser /\ (claim_pools[o] # NoUser => claim_holder[o] = claim_pools[o])
        /\ loans[o].borrower = claims[o].borrower
    BY <1>3, <1>7 DEF ProtocolInv, RouterInv, HolderIffFilled, LoansAreClaims
  <2>3. Counted(o)
    BY <1>1, <1>3, NoncesStand
  <2>4. QED
    BY <1>1, <1>2, <1>3, <1>4, <1>5, <1>7, <2>1, <2>2, <2>3, ClaimStep
<1>9. FeesSound'
  BY <1>2 DEF ProtocolInv, FeesSound, riskVars
<1>10. LedgerStep
  BY <1>1, <1>5, Becomes DEF LedgerStep, Ledger!vars
<1>11. QED  BY <1>6, <1>7, <1>8, <1>9, <1>10 DEF Sound, ProtocolInv

LEMMA BorrowCall ==
  ASSUME ProtocolInv, NEW user \in Users, NEW amount \in Nat, borrow(user, amount)
  PROVE  Sound
<1>1. CASE OwesThePool(user) /\ Available >= amount
           /\ BorrowMoreFromPool(user, active_solver_order[user], amount)
  <2>1. PICK o : o = active_solver_order[user]
    OBVIOUS
  <2>2. o \in OrderIds
    BY <1>1, <2>1 DEF OwesThePool, ClaimIs, ProtocolInv, VaultLaws!IInv, VaultLaws!TypeOK
  <2>3. amount > 0
    BY <1>1 DEF BorrowMoreFromPool, Vault!increase_solver_borrow_for
  <2>4. liquidity_pool = ThisPool
    BY <1>1, <2>3 DEF Available
  <2>5. QED  BY <1>1, <2>1, <2>2, <2>4, BorrowMoreCall
<1>2. CASE Available >= amount /\ BorrowFromPool(user, amount)
  <2>1. amount > 0
    BY <1>2 DEF BorrowFromPool, Vault!OpenGuard
  <2>2. liquidity_pool = ThisPool
    BY <1>2, <2>1 DEF Available
  <2>3. QED  BY <1>2, <2>2, BorrowFromPoolCall
<1>3. CASE OpenIntent(user, amount, now + FillWindow)
  <2>1. now + FillWindow \in Nat
    BY DEF ProtocolInv, PoolLaws!PoolInv, PoolLaws!TypeOK
  <2>2. QED  BY <1>3, <2>1, OpenCall
<1>4. QED  BY <1>1, <1>2, <1>3 DEF borrow

\* A claim that nobody has filled is routed to no pool.
LEMMA Unfilled ==
  ASSUME ProtocolInv, NEW o \in OrderIds, claims[o].status # "FILLED"
  PROVE  claim_holder[o] = NoUser /\ claim_pools[o] = NoUser /\ ~loans[o].active
BY DEF ProtocolInv, RouterInv, HolderIffFilled, LoansAreClaims, Holders

LEMMA CancelCall ==
  ASSUME ProtocolInv, NEW o \in OrderIds, cancel_claim(o)
  PROVE  Sound
<1> DEFINE claim == [claims[o] EXCEPT !.status = "CANCELLED"]
           order == [solver_orders[o] EXCEPT !.status = "CANCELLED"]
<1>1. /\ claims[o].status = "OPEN" /\ SetClaim(o, claim)
      /\ VaultLaws!cancel_solver_borrow_for(o, claims[o].borrower)
      /\ UNCHANGED <<claim_holder, claim_pools, order_nonce, configVars, poolVars>>
  BY VaultCalls DEF cancel_claim, ClaimIs
<1>2. /\ claims[o] \in Claims /\ claims[o].borrower = Borrower(o) /\ Borrower(o) \in Users
      /\ solver_orders[o] \in VaultLaws!Orders /\ Mirrors(claims[o], solver_orders[o])
  BY <1>1, LiveClaim DEF Mirrors
<1>3. VaultLaws!SetOrder(o, order) /\ UNCHANGED <<riskVars, now>>
  BY <1>1 DEF VaultLaws!cancel_solver_borrow_for, VaultLaws!adminVars, VaultLaws!envVars, riskVars
<1>4. /\ claim \in Claims /\ claim.status = "CANCELLED" /\ claim.borrower = claims[o].borrower
      /\ Mirrors(claim, order)
  <2>1. "CANCELLED" \in Vault!Statuses
    BY DEF Vault!Statuses
  <2>2. QED  BY <1>2, <2>1, MovedRecords
<1> HIDE DEF claim, order
<1>5. VaultLaws!IInv'
  BY <1>1, <1>2, VaultParameters, VaultLaws!CancelStep DEF ProtocolInv
<1>6. PoolLaws!PoolInv' /\ LoansKept(OrderIds)
  BY <1>1, <1>3, PoolStands DEF ProtocolInv, PoolLaws!PoolInv, PoolLaws!TypeOK
<1>7. claim_holder[o] = NoUser /\ claim_pools[o] = NoUser /\ ~loans[o].active
  BY <1>1, Unfilled
<1>8. RouterInv'
  <2>1. Hold(o, NoUser, NoUser)
    BY <1>1, <1>7, HoldStands
  <2>2. ~loans'[o].active /\ LoansKept(OrderIds \ {o}) /\ NoUser # ThisPool
    BY <1>6, <1>7 DEF LoansKept, Holders
  <2>3. Counted(o)
    BY <1>1, NoncesStand
  <2>4. QED  BY <1>1, <1>2, <1>3, <1>4, <2>1, <2>2, <2>3, ClaimStep
<1>9. FeesSound'
  BY <1>3 DEF ProtocolInv, FeesSound, riskVars
<1>10. LedgerStep
  <2>1. Ledger!Become(o, "CANCELLED")
    BY <1>1, <1>4, Becomes
  <2>2. Ledger!Cancel(o)
    BY <1>1, <2>1 DEF Ledger!Cancel
  <2>3. QED  BY <2>2, LedgerMove
<1>11. PoolStep
  BY <1>1, <1>3, PoolQuiet DEF PoolStep
<1>12. QED  BY <1>5, <1>6, <1>8, <1>9, <1>10, <1>11 DEF Sound, ProtocolInv

\* Whoever fills it: the vault and the router mark the same claim.
LEMMA FillRecords ==
  ASSUME ProtocolInv, NEW o \in OrderIds, claims[o].status = "OPEN", NEW debt \in Nat,
         SetClaim(o, Filled(claims[o])), UNCHANGED order_nonce,
         VaultLaws!mark_solver_borrow_filled(o, debt, Sync(claims[o].borrower))
  PROVE  LET claim == Filled(claims[o])
             order == [solver_orders[o] EXCEPT !.status = "FILLED", !.filled_at = now]
         IN  /\ VaultLaws!IInv' /\ FeesSound' /\ UNCHANGED now
             /\ VaultLaws!SetOrder(o, order) /\ Mirrors(claim, order)
             /\ claim \in Claims /\ claim.status = "FILLED" /\ claim.borrower = Borrower(o)
             /\ Counted(o) /\ Ledger!Become(o, "FILLED")
<1> DEFINE claim == Filled(claims[o])
           order == [solver_orders[o] EXCEPT !.status = "FILLED", !.filled_at = now]
<1>1. /\ claims[o] \in Claims /\ claims[o].borrower = Borrower(o) /\ Borrower(o) \in Users
      /\ solver_orders[o] \in VaultLaws!Orders /\ Mirrors(claims[o], solver_orders[o])
  BY LiveClaim DEF Mirrors
<1>2. now \in Nat
  BY DEF ProtocolInv, PoolLaws!PoolInv, PoolLaws!TypeOK
<1>3. /\ claim \in Claims /\ claim.status = "FILLED" /\ claim.borrower = claims[o].borrower
      /\ Mirrors(claim, order)
  BY <1>1, <1>2, FilledRecords
<1>4. VaultLaws!SetOrder(o, order) /\ UNCHANGED <<riskVars, now>>
  BY DEF VaultLaws!mark_solver_borrow_filled, VaultLaws!CoversFill, VaultLaws!adminVars,
     VaultLaws!envVars, riskVars
<1> HIDE DEF claim, order
<1>5. Sync(claims[o].borrower) \in Answers
  BY <1>1, SyncType DEF ProtocolInv
<1>6. VaultLaws!IInv'
  BY <1>5, VaultParameters, VaultLaws!FillStep DEF ProtocolInv, Answers
<1>7. FeesSound'
  BY <1>4 DEF ProtocolInv, FeesSound, riskVars
<1>8. Counted(o)
  BY NoncesStand
<1>9. Ledger!Become(o, "FILLED")
  BY <1>3, Becomes DEF claim
<1>10. QED  BY <1>1, <1>3, <1>4, <1>6, <1>7, <1>8, <1>9 DEF claim, order

LEMMA ConfirmCall ==
  ASSUME ProtocolInv, NEW o \in OrderIds, NEW solver \in Solvers, confirm_fill(o, solver)
  PROVE  Sound
<1> DEFINE claim == Filled(claims[o])
           order == [solver_orders[o] EXCEPT !.status = "FILLED", !.filled_at = now]
           debt == solver_orders[o].debt_amount
<1>1. /\ claims[o].status = "OPEN" /\ SetClaim(o, claim) /\ Hold(o, solver, claim_pools[o])
      /\ VaultLaws!mark_solver_borrow_filled(o, debt, Sync(claims[o].borrower))
      /\ UNCHANGED <<order_nonce, configVars, poolVars>>
  BY VaultCalls DEF confirm_fill, ClaimIs
<1>2. debt \in Nat
  BY DEF ProtocolInv, VaultLaws!IInv, VaultLaws!TypeOK, VaultLaws!Orders
<1>3. /\ VaultLaws!IInv' /\ FeesSound' /\ UNCHANGED now
      /\ VaultLaws!SetOrder(o, order) /\ Mirrors(claim, order)
      /\ claim \in Claims /\ claim.status = "FILLED" /\ claim.borrower = Borrower(o)
      /\ Counted(o) /\ Ledger!Become(o, "FILLED")
  <2> HIDE DEF debt
  <2>1. QED  BY <1>1, <1>2, FillRecords
<1>4. claim_pools[o] = NoUser /\ ~loans[o].active
  BY <1>1, Unfilled
<1> HIDE DEF claim, order
<1>5. PoolLaws!PoolInv' /\ LoansKept(OrderIds)
  BY <1>1, <1>3, PoolStands DEF ProtocolInv, PoolLaws!PoolInv, PoolLaws!TypeOK
<1>6. RouterInv'
  <2>1. ~loans'[o].active /\ LoansKept(OrderIds \ {o})
    BY <1>4, <1>5 DEF LoansKept
  <2>2. solver \in Holders /\ solver # NoUser /\ ThisPool # NoUser
    BY DEF Holders
  <2>3. QED  BY <1>1, <1>3, <1>4, <2>1, <2>2, ClaimStep
<1>7. LedgerStep
  <2>1. Ledger!Fill(o)
    BY <1>1, <1>3 DEF Ledger!Fill, Ledger!GoesTo, Hold
  <2>2. QED  BY <2>1, LedgerMove
<1>8. PoolStep
  BY <1>1, <1>3, PoolQuiet DEF PoolStep
<1>9. QED  BY <1>3, <1>5, <1>6, <1>7, <1>8 DEF Sound, ProtocolInv

LEMMA PoolFillCall ==
  ASSUME ProtocolInv, NEW o \in OrderIds, fill_with_pool(o)
  PROVE  Sound
<1> DEFINE claim == Filled(claims[o])
           order == [solver_orders[o] EXCEPT !.status = "FILLED", !.filled_at = now]
           debt == claims[o].principal
<1>1. /\ claims[o].status = "OPEN" /\ SetClaim(o, claim) /\ Hold(o, ThisPool, ThisPool)
      /\ PoolLaws!fundClaim(o, debt, claims[o].borrower)
      /\ VaultLaws!mark_solver_borrow_filled(o, debt, Sync(claims[o].borrower))
      /\ UNCHANGED <<order_nonce, configVars>>
  BY VaultCalls, PoolCalls DEF fill_with_pool, ClaimIs
<1>2. debt \in Nat /\ claims[o].borrower = Borrower(o) /\ Borrower(o) \in Users
  BY <1>1, LiveClaim DEF Claims
<1> HIDE DEF debt
<1>3. /\ VaultLaws!IInv' /\ FeesSound' /\ UNCHANGED now
      /\ VaultLaws!SetOrder(o, order) /\ Mirrors(claim, order)
      /\ claim \in Claims /\ claim.status = "FILLED" /\ claim.borrower = Borrower(o)
      /\ Counted(o) /\ Ledger!Become(o, "FILLED")
  BY <1>1, <1>2, FillRecords
<1> HIDE DEF claim, order
<1>4. /\ PoolLaws!PoolInv' /\ PoolStep
      /\ LoansKept(OrderIds \ {o}) /\ loans'[o].active /\ loans'[o].borrower = Borrower(o)
  BY <1>1, <1>2, Funding
<1>5. RouterInv'
  <2>1. ThisPool \in Holders /\ ThisPool # NoUser
    BY DEF Holders
  <2>2. QED  BY <1>1, <1>3, <1>4, <2>1, ClaimStep
<1>6. LedgerStep
  <2>1. Ledger!Fill(o)
    BY <1>1, <1>3 DEF Ledger!Fill, Ledger!GoesTo, Hold
  <2>2. QED  BY <2>1, LedgerMove
<1>7. QED  BY <1>3, <1>4, <1>5, <1>6 DEF Sound, ProtocolInv
-----------------------------------------------------------------------------
(* Closing claims *)

\* A filled claim is the pool's, with a loan, or a holder's, without one; the
\* debt it is charged with is the pool's own figure in the first case.
LEMMA FilledClaim ==
  ASSUME ProtocolInv, NEW o \in OrderIds, claims[o].status = "FILLED"
  PROVE  LET user == claims[o].borrower
         IN  /\ user \in Users /\ user = Borrower(o) /\ claim_holder[o] \in Holders
             /\ VaultLaws!AccruedDebt(user, Sync(user)) \in Nat
             /\ PoolClaim(o) => /\ loans[o].active
                                /\ VaultLaws!AccruedDebt(user, Sync(user)) = Pool!currentDebt(o)
             /\ SolverClaim(o) => ~loans[o].active
<1> DEFINE user == claims[o].borrower
<1>1. /\ user \in Users /\ user = Borrower(o) /\ active_solver_order[user] = o
      /\ solver_orders[o].status = "FILLED" /\ o # NoOrder
  BY LiveClaim
<1>2. claim_holder[o] \in Holders /\ claim_holder[o] # NoUser
  BY DEF ProtocolInv, RouterInv, TypeOK, HolderIffFilled
<1>3. VaultLaws!AccruedDebt(user, Sync(user)) \in Nat
  BY <1>1, SyncType, VaultParameters, VaultLaws!Accrual DEF ProtocolInv, VaultLaws!IInv, Answers
<1>4. ASSUME PoolClaim(o)
      PROVE  loans[o].active /\ VaultLaws!AccruedDebt(user, Sync(user)) = Pool!currentDebt(o)
  <2>1. claim_pools[o] # NoUser /\ claim_holder[o] = claim_pools[o] /\ claim_pools[o] = ThisPool
    BY <1>4, <1>2 DEF PoolClaim, ProtocolInv, RouterInv, RoutedHere
  <2>2. Sync(user) = [managed |-> TRUE, debt |-> Pool!currentDebt(o)]
    BY <1>1, <2>1 DEF Sync, claim_debt_state, ClaimIs
  <2>3. VaultLaws!Managed(user, Sync(user))
    BY <1>1, <2>2 DEF VaultLaws!Managed, VaultLaws!ActiveIs
  <2>4. loans[o].active
    BY <2>1 DEF ProtocolInv, RouterInv, LoansAreClaims
  <2>5. QED  BY <2>2, <2>3, <2>4 DEF VaultLaws!AccruedDebt
<1>5. ASSUME SolverClaim(o) PROVE ~loans[o].active
  BY <1>5, <1>2 DEF SolverClaim, PoolClaim, ProtocolInv, RouterInv, HolderIffFilled,
     LoansAreClaims, Holders
<1>6. QED  BY <1>1, <1>2, <1>3, <1>4, <1>5

\* The holder's side of a repayment: the pool settles its loan, whoever else is
\* paid leaves the loans alone.  The loan ends with the whole debt, not before.
LEMMA RepaymentReceived ==
  ASSUME ProtocolInv, NEW o \in OrderIds, claims[o].status = "FILLED", NEW actual \in Nat,
         UNCHANGED now,
         \/ PoolClaim(o) /\ PoolLaws!settleRepayment(o, actual)
         \/ /\ SolverClaim(o)
            /\ Receive(claim_holder[o],
                       actual - MulDiv(actual, claims[o].protocol_fee_bps, Vault!BPS))
  PROVE  /\ PoolLaws!PoolInv' /\ PoolStep /\ LoansKept(OrderIds \ {o})
         /\ loans'[o].borrower = loans[o].borrower
         /\ loans'[o].active <=>
              /\ PoolClaim(o)
              /\ actual # VaultLaws!AccruedDebt(claims[o].borrower, Sync(claims[o].borrower))
<1>1. CASE PoolClaim(o) /\ PoolLaws!settleRepayment(o, actual)
  <2>1. PoolLaws!PoolInv'
    BY <1>1, PoolParameters, PoolLaws!RepaymentStep DEF ProtocolInv
  <2>2. /\ loans'[o].active <=> actual # PoolLaws!currentDebt(o)
        /\ loans'[o].borrower = loans[o].borrower
        /\ \A q \in OrderIds \ {o} : loans'[q] = loans[q]
    BY <1>1, PoolParameters, PoolLaws!RepaymentCloses DEF ProtocolInv
  <2>3. PoolStep
    BY <1>1 DEF PoolStep, PoolLaws!FairTrade
  <2>4. QED  BY <1>1, <2>1, <2>2, <2>3, FilledClaim, PoolReads DEF LoansKept
<1>2. CASE /\ SolverClaim(o)
           /\ Receive(claim_holder[o],
                      actual - MulDiv(actual, claims[o].protocol_fee_bps, Vault!BPS))
  <2> DEFINE fee == MulDiv(actual, claims[o].protocol_fee_bps, Vault!BPS)
             received == IF claim_holder[o] = ThisPool THEN actual - fee ELSE 0
  <2>1. received \in Nat
    <3>1. claims[o].protocol_fee_bps \in 0 .. Vault!BPS
      BY DEF ProtocolInv, RouterInv, TypeOK, Claims
    <3>2. Vault!BPS \in Nat \ {0}
      BY DEF Vault!BPS
    <3>3. fee \in 0 .. actual
      BY <3>1, <3>2, MulDivShare
    <3> HIDE DEF fee
    <3>4. QED  BY <3>3
  <2>2. cash' = cash + received /\ UNCHANGED <<pooledVars, now>>
    BY <1>2 DEF Receive
  <2> HIDE DEF received
  <2>3. UNCHANGED <<PoolLaws!shareVars, PoolLaws!indexVars, PoolLaws!loanVars,
                    PoolLaws!modelVars, now>>
    BY <2>2 DEF pooledVars, PoolLaws!shareVars, PoolLaws!indexVars, PoolLaws!loanVars,
       PoolLaws!modelVars
  <2>4. PoolLaws!PoolInv'
    BY <2>1, <2>2, <2>3, PoolParameters, PoolLaws!ReceiptStep DEF ProtocolInv
  <2>5. PoolStep
    BY <2>1, <2>2 DEF PoolStep, Receipt
  <2>6. UNCHANGED loans
    BY <2>2 DEF pooledVars
  <2>7. ~PoolClaim(o) /\ ~loans[o].active
    BY <1>2, FilledClaim DEF SolverClaim
  <2>8. QED  BY <2>4, <2>5, <2>6, <2>7 DEF LoansKept
<1>3. QED  BY <1>1, <1>2

\* The records of a claim that is closed for good.
LEMMA ClosedRecords ==
  ASSUME ProtocolInv, NEW o \in OrderIds, claims[o].status = "FILLED",
         NEW s \in {"REPAID", "LIQUIDATED"}, CloseClaim(o, s),
         VaultLaws!SetOrder(o, [solver_orders[o] EXCEPT !.status = s]),
         LoansKept(OrderIds \ {o}), ~loans'[o].active, UNCHANGED configVars
  PROVE  RouterInv' /\ LedgerStep
<1> DEFINE claim == [claims[o] EXCEPT !.status = s]
           order == [solver_orders[o] EXCEPT !.status = s]
<1>1. /\ claims[o] \in Claims /\ claims[o].borrower = Borrower(o)
      /\ solver_orders[o] \in VaultLaws!Orders /\ Mirrors(claims[o], solver_orders[o])
  BY LiveClaim DEF Mirrors
<1>2. /\ claim \in Claims /\ claim.status = s /\ claim.borrower = Borrower(o)
      /\ Mirrors(claim, order)
  <2>1. s \in Vault!Statuses
    BY DEF Vault!Statuses
  <2>2. QED  BY <1>1, <2>1, MovedRecords
<1>3. /\ SetClaim(o, claim) /\ Hold(o, NoUser, NoUser) /\ VaultLaws!SetOrder(o, order)
      /\ UNCHANGED order_nonce
  BY DEF CloseClaim
<1> HIDE DEF claim, order
<1>4. RouterInv'
  <2>1. Counted(o)
    BY <1>3, NoncesStand
  <2>2. NoUser # ThisPool /\ s # "FILLED" /\ s # "NONE"
    BY DEF Holders
  <2>3. QED  BY <1>2, <1>3, <2>1, <2>2, ClaimStep
<1>5. LedgerStep
  <2>1. Ledger!Become(o, s)
    BY <1>2, <1>3, Becomes
  <2>2. Ledger!Close(o)
    BY <1>3, <2>1 DEF Ledger!Close, Ledger!GoesTo, Hold
  <2>3. QED  BY <2>2, LedgerMove
<1>6. QED  BY <1>4, <1>5

LEMMA RepayClaimCall ==
  ASSUME ProtocolInv, NEW o \in OrderIds, NEW amount \in Nat, repay_claim(o, amount)
  PROVE  Sound
<1> DEFINE user == claims[o].borrower
           due == VaultLaws!AccruedDebt(user, Sync(user))
           actual == Vault!RepaidAmount(user, amount, Sync(user))
<1>1. /\ claims[o].status = "FILLED"
      /\ VaultLaws!repay_claim_for(o, user, amount, Sync(user))
      /\ \/ PoolClaim(o) /\ PoolLaws!settleRepayment(o, actual)
         \/ /\ SolverClaim(o)
            /\ Receive(claim_holder[o],
                       actual - MulDiv(actual, claims[o].protocol_fee_bps, Vault!BPS))
      /\ UNCHANGED configVars
  BY VaultCalls, PoolCalls DEF repay_claim, ClaimIs
<1>2. /\ due \in Nat /\ user \in Users /\ Sync(user) \in Answers
  BY <1>1, FilledClaim, SyncType DEF ProtocolInv
<1>3. actual = VaultLaws!RepaidAmount(user, amount, Sync(user)) /\ actual \in Nat /\ actual <= due
  BY <1>2, VaultReads DEF Vault!RepaidAmount, VaultLaws!RepaidAmount, Vault!Smaller, VaultLaws!Smaller
<1>4. IF actual = due THEN CloseClaim(o, "REPAID") ELSE UNCHANGED claimVars
  BY VaultReads DEF repay_claim
<1>5. /\ IF actual = due
           THEN VaultLaws!SetOrder(o, [solver_orders[o] EXCEPT !.status = "REPAID"])
           ELSE UNCHANGED solver_orders
      /\ UNCHANGED <<riskVars, now>>
  <2>1. due - actual = 0 <=> actual = due
    BY <1>2, <1>3
  <2>2. QED
    BY <1>1, <1>3, <2>1 DEF VaultLaws!repay_claim_for, VaultLaws!adminVars, VaultLaws!envVars,
       riskVars
<1>6. VaultLaws!IInv'
  BY <1>1, <1>2, VaultParameters, VaultLaws!RepayStep DEF ProtocolInv, Answers
<1> HIDE DEF actual, due
<1>7. /\ PoolLaws!PoolInv' /\ PoolStep /\ LoansKept(OrderIds \ {o})
      /\ loans'[o].borrower = loans[o].borrower
      /\ loans'[o].active <=> PoolClaim(o) /\ actual # due
  BY <1>1, <1>3, <1>5, RepaymentReceived DEF due
<1>8. RouterInv' /\ LedgerStep
  <2>1. CASE actual = due
    BY <1>1, <1>4, <1>5, <1>7, <2>1, ClosedRecords
  <2>2. CASE actual # due
    <3>1. /\ UNCHANGED claims /\ UNCHANGED claim_holder /\ UNCHANGED <<claimVars, solver_orders>>
      BY <1>4, <1>5, <2>2 DEF claimVars
    <3>2. loans'[o].active = loans[o].active
      <4>1. PoolClaim(o) => loans[o].active
        BY <1>1, FilledClaim
      <4>2. ~PoolClaim(o) => ~loans[o].active
        BY <1>1, FilledClaim DEF SolverClaim, PoolClaim, ProtocolInv, RouterInv, HolderIffFilled
      <4>3. loans[o].active \in BOOLEAN /\ loans'[o].active \in BOOLEAN
        BY <1>7 DEF ProtocolInv, PoolLaws!PoolInv, PoolLaws!TypeOK, PoolLaws!Loans
      <4>4. QED  BY <1>7, <2>2, <4>1, <4>2, <4>3
    <3>3. LoansKept(OrderIds)
      BY <1>7, <3>2 DEF LoansKept
    <3>4. RouterInv'
      BY <1>1, <3>1, <3>3, ClaimsFrame DEF configVars, ProtocolInv, RouterInv, TypeOK
    <3>5. QED  BY <3>1, <3>4, LedgerStands
  <2>3. QED  BY <2>1, <2>2
<1>9. FeesSound'
  BY <1>5 DEF ProtocolInv, FeesSound, riskVars
<1>10. QED  BY <1>6, <1>7, <1>8, <1>9 DEF Sound, ProtocolInv

LEMMA RepayCall ==
  ASSUME ProtocolInv, NEW user \in Users, NEW amount \in Nat, repay(user, amount)
  PROVE  Sound
<1>1. PICK o : o = active_solver_order[user]
  OBVIOUS
<1>2. o \in OrderIds
  BY <1>1 DEF repay, ClaimIs, ProtocolInv, VaultLaws!IInv, VaultLaws!TypeOK
<1>3. QED  BY <1>1, <1>2, RepayClaimCall DEF repay

\* The vault is told that no pool manages the claim.
LEMMA Unmanaged == [managed |-> FALSE, debt |-> 0] \in Answers
BY DEF Answers

LEMMA SeizureRecords ==
  ASSUME ProtocolInv, NEW o \in OrderIds, NEW sync, VaultLaws!SeizePosition(o, sync)
  PROVE  /\ VaultLaws!SetOrder(o, [solver_orders[o] EXCEPT !.status = "LIQUIDATED"])
         /\ UNCHANGED <<riskVars, now>> /\ FeesSound'
<1>1. /\ VaultLaws!SetOrder(o, [solver_orders[o] EXCEPT !.status = "LIQUIDATED"])
      /\ UNCHANGED <<riskVars, now>>
  BY DEF VaultLaws!SeizePosition, VaultLaws!adminVars, VaultLaws!envVars, riskVars
<1>2. QED  BY <1>1 DEF ProtocolInv, FeesSound, riskVars

LEMMA PoolLiquidationCall ==
  ASSUME ProtocolInv, NEW o \in OrderIds, NEW liquidator \in Solvers,
         LiquidatePoolClaim(o, liquidator)
  PROVE  Sound
<1> DEFINE recovered == PoolLaws!currentDebt(o)
           sync == [managed |-> FALSE, debt |-> 0]
<1>1. /\ claims[o].status = "FILLED" /\ CloseClaim(o, "LIQUIDATED") /\ UNCHANGED configVars
      /\ VaultLaws!liquidate_pool_claim_for(o, liquidator, sync)
      /\ PoolLaws!settleLiquidation(o, recovered)
  BY VaultCalls, PoolCalls, PoolReads DEF LiquidatePoolClaim, ClaimIs, DebtToCover
<1>2. recovered \in Nat
  BY DebtOfClaim, PoolReads DEF ProtocolInv
<1> HIDE DEF recovered
<1>3. VaultLaws!IInv'
  <2>1. liquidator \in Holders
    BY DEF Holders
  <2>2. QED
    BY <1>1, <2>1, Unmanaged, VaultParameters, VaultLaws!LiquidatePoolStep DEF ProtocolInv, Answers
<1>4. /\ VaultLaws!SetOrder(o, [solver_orders[o] EXCEPT !.status = "LIQUIDATED"])
      /\ UNCHANGED now /\ FeesSound'
  BY <1>1, SeizureRecords DEF VaultLaws!liquidate_pool_claim_for
<1>5. PoolLaws!PoolInv'
  BY <1>1, <1>2, PoolParameters, PoolLaws!LiquidationStep DEF ProtocolInv
<1>6. LoansKept(OrderIds \ {o}) /\ ~loans'[o].active
  <2>1. loans \in [OrderIds -> PoolLaws!Loans] /\ loans[o] \in PoolLaws!Loans
    BY DEF ProtocolInv, PoolLaws!PoolInv, PoolLaws!TypeOK
  <2>2. loans' = [loans EXCEPT ![o] = [loans[o] EXCEPT !.scaledPrincipal = 0,
                                                       !.rawPrincipal = 0, !.active = FALSE]]
    BY <1>1 DEF PoolLaws!settleLiquidation, PoolLaws!SetLoan
  <2>3. QED  BY <2>1, <2>2 DEF LoansKept, PoolLaws!Loans
<1>7. RouterInv' /\ LedgerStep
  BY <1>1, <1>4, <1>6, ClosedRecords
<1>8. PoolStep
  BY <1>1, <1>2 DEF PoolStep, PoolLaws!FairTrade, recovered
<1>9. QED  BY <1>3, <1>4, <1>5, <1>7, <1>8 DEF Sound, ProtocolInv

LEMMA SolverLiquidationCall ==
  ASSUME ProtocolInv, NEW o \in OrderIds, LiquidateSolverClaim(o)
  PROVE  Sound
<1> DEFINE sync == [managed |-> FALSE, debt |-> 0]
<1>1. /\ claims[o].status = "FILLED" /\ SolverClaim(o) /\ CloseClaim(o, "LIQUIDATED")
      /\ VaultLaws!liquidate_claim_for(o, claim_holder[o], Owner, sync)
      /\ UNCHANGED <<configVars, poolVars>>
  BY VaultCalls DEF LiquidateSolverClaim, ClaimIs
<1>2. claim_holder[o] \in Holders /\ ~loans[o].active
  BY <1>1, FilledClaim
<1>3. VaultLaws!IInv'
  <2>1. Owner \in Holders
    BY DEF Holders
  <2>2. QED
    BY <1>1, <1>2, <2>1, Unmanaged, VaultParameters, VaultLaws!LiquidateStep
       DEF ProtocolInv, Answers
<1>4. /\ VaultLaws!SetOrder(o, [solver_orders[o] EXCEPT !.status = "LIQUIDATED"])
      /\ UNCHANGED now /\ FeesSound'
  BY <1>1, SeizureRecords DEF VaultLaws!liquidate_claim_for
<1>5. PoolLaws!PoolInv' /\ LoansKept(OrderIds)
  BY <1>1, <1>4, PoolStands DEF ProtocolInv, PoolLaws!PoolInv, PoolLaws!TypeOK
<1>6. RouterInv' /\ LedgerStep
  <2>1. LoansKept(OrderIds \ {o}) /\ ~loans'[o].active
    BY <1>2, <1>5 DEF LoansKept
  <2>2. QED  BY <1>1, <1>4, <2>1, ClosedRecords
<1>7. PoolStep
  BY <1>1, <1>4, PoolQuiet DEF PoolStep
<1>8. QED  BY <1>3, <1>4, <1>5, <1>6, <1>7 DEF Sound, ProtocolInv
-----------------------------------------------------------------------------
(* The system *)

LEMMA UserCalls == ProtocolInv /\ UserCall => Sound
<1>1. ASSUME ProtocolInv, NEW user \in Users, NEW amount \in Amounts,
             \/ deposit(user, amount) \/ withdraw(user, amount)
             \/ borrow(user, amount) \/ repay(user, amount)
             \/ \E window \in BorrowWindows : open(user, amount, now + window)
      PROVE  Sound
  <2>1. amount \in Nat
    OBVIOUS
  <2>2. ASSUME NEW window \in BorrowWindows, open(user, amount, now + window)
        PROVE  Sound
    <3>1. now + window \in Nat
      <4>1. now \in Nat
        BY <1>1 DEF ProtocolInv, PoolLaws!PoolInv, PoolLaws!TypeOK
      <4>2. window \in Nat
        OBVIOUS
      <4>3. QED  BY <4>1, <4>2
    <3>2. QED  BY <1>1, <2>1, <2>2, <3>1, OpenCall DEF open
  <2>3. QED  BY <1>1, <2>1, <2>2, DepositCall, WithdrawCall, BorrowCall, RepayCall
<1>2. QED  BY <1>1, Zenon DEF UserCall

LEMMA ClaimCalls == ProtocolInv /\ ClaimCall => Sound
<1>1. ASSUME ProtocolInv, NEW o \in OrderIds,
             \/ cancel_claim(o)
             \/ fill_with_pool(o)
             \/ \E solver \in Solvers : confirm_fill(o, solver) \/ liquidate_claim(o, solver)
             \/ \E holder \in Solvers \cup {ThisPool} : transfer_claim(o, holder)
             \/ \E amount \in Amounts : repay_claim(o, amount)
      PROVE  Sound
  <2>1. ASSUME NEW solver \in Solvers, confirm_fill(o, solver) \/ liquidate_claim(o, solver)
        PROVE  Sound
    BY <1>1, <2>1, ConfirmCall, PoolLiquidationCall, SolverLiquidationCall DEF liquidate_claim
  <2>2. ASSUME NEW amount \in Amounts, repay_claim(o, amount)
        PROVE  Sound
    <3>1. amount \in Nat
      OBVIOUS
    <3>2. QED  BY <1>1, <2>2, <3>1, RepayClaimCall
  <2>3. QED  BY <1>1, <2>1, <2>2, CancelCall, PoolFillCall, TransferCall
<1>2. QED  BY <1>1, Zenon DEF ClaimCall

LEMMA EveryStepIsSound == ProtocolInv /\ [Next]_vars => Sound
BY UserCalls, ClaimCalls, AdminCalls, DirectCalls, Environment DEF Next

LEMMA InitInvariant == Init => ProtocolInv
<1>1. SUFFICES ASSUME Init PROVE ProtocolInv
  OBVIOUS
<1>2. VaultLaws!Init
  BY <1>1 DEF Init, Vault!Init, VaultLaws!Init, Vault!Accounts, VaultLaws!Accounts,
     Vault!EmptyOrder, VaultLaws!EmptyOrder, Vault!NoChange, VaultLaws!NoChange,
     Vault!DefaultParams, VaultLaws!DefaultParams, Vault!DefaultMinCollateral,
     VaultLaws!DefaultMinCollateral, Vault!ParamNames, VaultLaws!ParamNames
<1>3. VaultLaws!IInv
  BY <1>2, VaultParameters, VaultLaws!InitInvariant
<1>4. PoolLaws!Init
  BY <1>1 DEF Init, Pool!Init, PoolLaws!Init, Pool!NoLoan, PoolLaws!NoLoan, Pool!NoCooldown,
     PoolLaws!NoCooldown, Pool!NoPendingModel, PoolLaws!NoPendingModel, Pool!CalculateRate,
     PoolLaws!CalculateRate, Pool!MulDiv, PoolLaws!MulDiv
<1>5. PoolLaws!PoolInv
  BY <1>4, PoolParameters, PoolLaws!InitInvariant
<1>6. FeesSound
  BY <1>1 DEF Init, Vault!Init, Vault!DefaultParams, Vault!ParamNames, Vault!NoChange, FeesSound
<1>7. TypeOK
  <2>1. NoClaim \in Claims
    BY DEF NoClaim, Claims, Vault!Statuses, Vault!BPS
  <2>2. \A o \in OrderIds : claims[o].status = "NONE" /\ ~(o[2] <= order_nonce[o[1]])
    <3>1. ASSUME NEW o \in OrderIds PROVE claims[o].status = "NONE" /\ ~(o[2] <= order_nonce[o[1]])
      <4>1. o[1] \in Users /\ o[2] \in 1 .. MaxNonce
        BY DEF OrderIds
      <4>2. order_nonce[o[1]] = 0
        BY <1>1, <4>1 DEF Init
      <4>3. QED  BY <1>1, <4>1, <4>2 DEF Init, NoClaim
    <3>2. QED  BY <3>1
  <2>3. QED  BY <1>1, <2>1, <2>2 DEF Init, TypeOK
<1>8. OwnClaims /\ StatusMirror /\ HolderIffFilled /\ RoutedHere /\ LoansAreClaims
  <2>1. NoUser # ThisPool
    BY DEF Holders
  <2>2. QED
    BY <1>1, <2>1 DEF Init, NoClaim, Vault!Init, Vault!EmptyOrder, Pool!Init, Pool!NoLoan,
       OwnClaims, StatusMirror, HolderIffFilled, RoutedHere, LoansAreClaims
<1>9. QED  BY <1>3, <1>5, <1>6, <1>7, <1>8 DEF ProtocolInv, RouterInv

\* In every reachable state the two contracts' own invariants hold together with
\* the router's: neither contract is ever called outside what it assumes.
THEOREM ProtocolInvariant == Spec => []ProtocolInv
<1>1. ProtocolInv /\ [Next]_vars => ProtocolInv'
  BY EveryStepIsSound DEF Sound
<1>2. QED  BY InitInvariant, <1>1, PTL DEF Spec

\* The router's variables keep their types, and ids are handed out in order, for
\* every number of users, solvers and orders (AyniProtocol.sol, _order_nonces).
THEOREM TypeSafety == Spec => []TypeOK
<1>1. ProtocolInv => TypeOK
  BY DEF ProtocolInv, RouterInv
<1>2. QED  BY <1>1, ProtocolInvariant, PTL

\* Router and vault never disagree about a claim, whatever calls interleave.
THEOREM RecordsAlwaysMirror == Spec => []StatusMirror
<1>1. ProtocolInv => StatusMirror
  BY DEF ProtocolInv, RouterInv
<1>2. QED  BY <1>1, ProtocolInvariant, PTL

\* Exactly the filled claims have a holder to be paid.
THEOREM HoldersAreOfFilledClaims == Spec => []HolderIffFilled
<1>1. ProtocolInv => HolderIffFilled
  BY DEF ProtocolInv, RouterInv
<1>2. QED  BY <1>1, ProtocolInvariant, PTL

\* The pool's live loans are exactly the claims routed to it: replacing the
\* market's pool, transferring claims and paying in parts lose none.
THEOREM LoansAreAlwaysClaims == Spec => []LoansAreClaims
<1>1. ProtocolInv => LoansAreClaims
  BY DEF ProtocolInv, RouterInv
<1>2. QED  BY <1>1, ProtocolInvariant, PTL

\* The three contracts together implement the ledger of claims: every transaction
\* is one of the ledger's moves, or leaves statuses and holders alone.
THEOREM LedgerIsImplemented == Spec => ImplementsLedger
<1>1. Init => Ledger!Init
  BY DEF Init, Ledger!Init, NoClaim
<1>2. ProtocolInv /\ [Next]_vars => [Ledger!Next]_(Ledger!vars)
  BY EveryStepIsSound DEF Sound, LedgerStep
<1>3. QED  BY <1>1, <1>2, ProtocolInvariant, PTL DEF Spec, ImplementsLedger, Ledger!Spec

\* Whoever touches the pool, the index as it is read moves with time alone.
LEMMA IndexMovesWithTime ==
  ASSUME ProtocolInv, ProtocolInv', PoolStep, now' = now
  PROVE  PoolLaws!CurrentIndex' = PoolLaws!CurrentIndex
<1>1. PoolLaws!PoolInv /\ PoolLaws!PoolInv'
  BY DEF ProtocolInv
<1>2. CASE [PoolLaws!Next]_(PoolLaws!vars)
  BY <1>1, <1>2, PoolParameters, PoolLaws!IndexStep
<1>3. CASE Receipt
  BY <1>1, <1>3, PoolParameters, PoolLaws!SameMoment
     DEF Receipt, pooledVars, PoolLaws!indexVars
<1>4. CASE \E o \in OrderIds, amount \in Nat : PoolLaws!FairTrade(o, amount)
  <2>1. PoolLaws!ClaimCall
    BY <1>4, Zenon DEF PoolLaws!FairTrade, PoolLaws!ClaimCall
  <2>2. QED  BY <1>2, <2>1 DEF PoolLaws!Next
<1>5. QED  BY <1>2, <1>3, <1>4 DEF PoolStep, PoolLaws!Next

\* A provider's call that keeps the number of shares takes nothing out.
LEMMA ProvidersTakeNothing ==
  ASSUME PoolLaws!PoolInv, PoolLaws!LPCall, totalSupply' = totalSupply
  PROVE  UNCHANGED <<cash, totalScaledDebt>>
<1>1. totalSupply \in Nat /\ totalSupply' = totalSupply
  BY DEF PoolLaws!PoolInv, PoolLaws!TypeOK
<1>2. PICK amount \in Nat :
        \/ PoolLaws!deposit(amount, Owner) \/ PoolLaws!mint(amount, Owner)
        \/ PoolLaws!withdraw(amount, Owner, Owner) \/ PoolLaws!redeem(amount, Owner, Owner)
        \/ PoolLaws!cooldown(Owner)
  BY DEF PoolLaws!LPCall
<1>3. /\ PoolLaws!convertToShares(amount) \in Nat
      /\ PoolLaws!previewWithdraw(amount) \in Nat /\ PoolLaws!totalAssets \in Nat
  BY PoolParameters, PoolLaws!QuotesType
<1>4. CASE PoolLaws!deposit(amount, Owner)
  <2>1. totalSupply + PoolLaws!convertToShares(amount) = totalSupply
        /\ PoolLaws!convertToShares(amount) > 0
    BY <1>1, <1>4 DEF PoolLaws!deposit, PoolLaws!Mint
  <2>2. QED  BY <1>1, <1>3, <2>1
<1>5. CASE PoolLaws!mint(amount, Owner)
  <2>1. totalSupply + amount = totalSupply /\ amount > 0
    BY <1>1, <1>5 DEF PoolLaws!mint, PoolLaws!Mint
  <2>2. QED  BY <1>1, <2>1
<1>6. CASE PoolLaws!redeem(amount, Owner, Owner)
  <2>1. totalSupply - amount = totalSupply /\ amount > 0
    BY <1>1, <1>6 DEF PoolLaws!redeem, PoolLaws!TakeOut, PoolLaws!Burn
  <2>2. QED  BY <1>1, <2>1
<1>7. CASE PoolLaws!withdraw(amount, Owner, Owner)
  <2> DEFINE shares == PoolLaws!previewWithdraw(amount)
             assets == PoolLaws!totalAssets
  <2>1. totalSupply - shares = totalSupply /\ amount > 0
    BY <1>1, <1>7 DEF PoolLaws!withdraw, PoolLaws!TakeOut, PoolLaws!Burn
  <2>2. CASE PoolLaws!Unpriced
    <3>1. shares = amount
      BY <2>2 DEF PoolLaws!previewWithdraw
    <3>2. QED  BY <1>1, <2>1, <3>1
  <2>3. CASE ~PoolLaws!Unpriced
    <3>1. totalSupply > 0 /\ assets > 0
      BY <1>1, <1>3, <2>3 DEF PoolLaws!Unpriced
    <3>2. shares * assets >= amount * totalSupply
      BY <3>1, PoolParameters, PoolLaws!QuotesRound
    <3>3. shares \in Nat /\ assets \in Nat
      BY <1>3
    <3> HIDE DEF shares, assets
    <3>4. shares = 0
      BY <1>1, <2>1, <3>3
    <3>5. shares * assets = 0
      BY <3>3, <3>4
    <3>6. amount * totalSupply > 0
      BY <1>1, <2>1, <3>1
    <3>7. amount * totalSupply \in Nat
      BY <1>1
    <3>8. QED  BY <3>2, <3>5, <3>6, <3>7
  <2>4. QED  BY <2>2, <2>3
<1>8. CASE PoolLaws!cooldown(Owner)
  BY <1>8 DEF PoolLaws!cooldown, PoolLaws!loanVars
<1>9. QED  BY <1>2, <1>4, <1>5, <1>6, <1>7, <1>8

\* Nobody but the providers takes value out of the pool: the router lends, settles
\* and liquidates at the full debt, and what else it pays in is the pool's gain.
THEOREM LendersAlwaysKeepWorth == Spec => LendersKeepWorth
<1> DEFINE Keeps ==
      now' = now /\ totalSupply' = totalSupply => Pool!Worth' >= Pool!Worth - Pool!RoundingSlack
<1>1. ProtocolInv /\ ProtocolInv' /\ [Next]_vars => Keeps
  <2> SUFFICES ASSUME ProtocolInv, ProtocolInv', [Next]_vars, now' = now,
                      totalSupply' = totalSupply
               PROVE  Pool!Worth' >= Pool!Worth - Pool!RoundingSlack
    OBVIOUS
  <2> DEFINE W == PoolLaws!Worth
             V == PoolLaws!Worth'
             slack == PoolLaws!RoundingSlack
  <2>1. PoolStep /\ PoolLaws!PoolInv /\ PoolLaws!PoolInv'
    BY EveryStepIsSound DEF Sound, ProtocolInv
  <2>2. PoolLaws!CurrentIndex' = PoolLaws!CurrentIndex /\ PoolLaws!CurrentIndex \in Nat \ {0}
    BY <2>1, IndexMovesWithTime, PoolParameters, PoolLaws!IndexGrows DEF PoolLaws!PoolInv
  <2>3. Pool!Worth = W /\ Pool!Worth' = V /\ Pool!RoundingSlack = slack
    BY DEF Pool!Worth, PoolLaws!Worth, Pool!RoundingSlack, PoolLaws!RoundingSlack,
       Pool!CurrentIndex, PoolLaws!CurrentIndex, Pool!Owed, PoolLaws!Owed, Pool!MulDiv,
       PoolLaws!MulDiv, Pool!MulDivUp, PoolLaws!MulDivUp
  <2>4. W \in Nat /\ slack \in Nat
    <3>1. PoolLaws!Owed(totalScaledDebt, PoolLaws!CurrentIndex) \in Nat
      BY <2>1, <2>2, PoolParameters, PoolLaws!OwedType DEF PoolLaws!PoolInv, PoolLaws!TypeOK
    <3>2. PoolLaws!Unit(PoolLaws!CurrentIndex) \in Nat
      BY <2>2, PoolParameters, PoolLaws!OwedExchange
    <3>3. slack = 1 + PoolLaws!Unit(PoolLaws!CurrentIndex)
      BY DEF PoolLaws!RoundingSlack, PoolLaws!Unit
    <3>4. QED
      BY <2>1, <3>1, <3>2, <3>3 DEF PoolLaws!Worth, PoolLaws!PoolInv, PoolLaws!TypeOK
  <2>5. CASE UNCHANGED <<cash, totalScaledDebt>>
    <3>1. V = W
      BY <2>2, <2>5 DEF PoolLaws!Worth, PoolLaws!Owed, PoolLaws!MulDiv
    <3> HIDE DEF V, W, slack
    <3>2. QED  BY <2>3, <2>4, <3>1
  <2>6. CASE Receipt
    <3>1. PICK amount \in Nat : cash' = cash + amount /\ UNCHANGED <<pooledVars, now>>
      BY <2>6 DEF Receipt
    <3>2. V = W + amount
      <4> DEFINE owed == PoolLaws!Owed(totalScaledDebt, PoolLaws!CurrentIndex)
                 held == cash'
      <4>1. owed \in Nat /\ cash \in Nat /\ held = cash + amount
        BY <2>1, <2>2, <3>1, PoolParameters, PoolLaws!OwedType
           DEF PoolLaws!PoolInv, PoolLaws!TypeOK
      <4>2. W = cash + owed /\ V = held + owed
        BY <2>2, <3>1 DEF PoolLaws!Worth, PoolLaws!Owed, PoolLaws!MulDiv, pooledVars
      <4> HIDE DEF owed, held, V, W
      <4>3. QED  BY <4>1, <4>2
    <3> HIDE DEF V, W, slack
    <3>3. QED  BY <2>3, <2>4, <3>2
  <2>7. CASE \E o \in OrderIds, amount \in Nat : PoolLaws!FairTrade(o, amount)
    <3>1. V - W \in -slack .. slack
      BY <2>1, <2>2, <2>7, PoolParameters, PoolLaws!FairTradeKeepsWorth
    <3>2. V \in Int
      BY <2>1, <2>2, PoolParameters, PoolLaws!OwedType
         DEF PoolLaws!PoolInv, PoolLaws!TypeOK, PoolLaws!Worth
    <3> HIDE DEF V, W, slack
    <3>3. QED  BY <2>3, <2>4, <3>1, <3>2
  <2>8. CASE PoolLaws!LPCall \/ PoolLaws!OwnerCall \/ PoolLaws!Tick \/ UNCHANGED PoolLaws!vars
    <3>1. UNCHANGED <<cash, totalScaledDebt>>
      <4>1. CASE PoolLaws!LPCall
        BY <2>1, <4>1, ProvidersTakeNothing
      <4>2. CASE PoolLaws!OwnerCall
        BY <4>2 DEF PoolLaws!OwnerCall, PoolLaws!apply_rate_model, PoolLaws!set_rate_model,
           PoolLaws!loanVars
      <4>3. CASE PoolLaws!Tick \/ UNCHANGED PoolLaws!vars
        BY <4>3 DEF PoolLaws!Tick, PoolLaws!vars, PoolLaws!poolVars, PoolLaws!loanVars
      <4>4. QED  BY <2>8, <4>1, <4>2, <4>3
    <3>2. QED  BY <2>5, <3>1
  <2>9. QED  BY <2>1, <2>5, <2>6, <2>7, <2>8 DEF PoolStep
<1>2. QED
  BY <1>1, ProtocolInvariant, PTL DEF Spec, LendersKeepWorth
-----------------------------------------------------------------------------
(* Accounts: what a user owes, by the pool's books and by the vault's copy *)

\* A claim routed to the pool is charged with the pool's figure, any other with the
\* vault's; right after the account was touched there is no interest to add.
LEMMA DueOf ==
  ProtocolInv =>
    \A u \in Users :
      LET o == active_solver_order[u]
      IN  /\ positions[u] \in VaultLaws!Positions /\ o \in OrderIds \cup {NoOrder}
          /\ DebtDue(u) \in Nat
          /\ o # NoOrder => Borrower(o) = u /\ solver_orders[o].status \in {"OPEN", "FILLED"}
          /\ OwesThisPool(u) => o \in OrderIds /\ DebtDue(u) = Pool!currentDebt(o)
          /\ ~OwesThisPool(u) => DebtDue(u) = positions[u].debt + Vault!Interest(u)
          /\ positions[u].last_update = now => Vault!Interest(u) = 0
          /\ positions[u].last_update <= now
<1> SUFFICES ASSUME ProtocolInv, NEW u \in Users
             PROVE  LET o == active_solver_order[u]
                    IN  /\ positions[u] \in VaultLaws!Positions /\ o \in OrderIds \cup {NoOrder}
                        /\ DebtDue(u) \in Nat
                        /\ o # NoOrder =>
                             Borrower(o) = u /\ solver_orders[o].status \in {"OPEN", "FILLED"}
                        /\ OwesThisPool(u) => o \in OrderIds /\ DebtDue(u) = Pool!currentDebt(o)
                        /\ ~OwesThisPool(u) => DebtDue(u) = positions[u].debt + Vault!Interest(u)
                        /\ positions[u].last_update = now => Vault!Interest(u) = 0
                        /\ positions[u].last_update <= now
  OBVIOUS
<1>1. PICK o : o = active_solver_order[u]
  OBVIOUS
<1>2. /\ positions[u] \in VaultLaws!Positions /\ o \in OrderIds \cup {NoOrder}
      /\ positions[u].last_update <= now /\ now \in Nat
      /\ params \in [VaultLaws!ParamNames -> Nat]
  BY <1>1 DEF ProtocolInv, VaultLaws!IInv, VaultLaws!TypeOK
<1>3. o # NoOrder => Borrower(o) = u /\ solver_orders[o].status \in {"OPEN", "FILLED"}
  <2>1. o # NoOrder => solver_orders[o].borrower = u
                         /\ solver_orders[o].status \in {"OPEN", "FILLED"}
    BY <1>1 DEF ProtocolInv, VaultLaws!IInv, VaultLaws!ActiveOrders
  <2>2. o \in OrderIds => claims[o].status = solver_orders[o].status
                            /\ claims[o].borrower = solver_orders[o].borrower
    BY DEF ProtocolInv, RouterInv, StatusMirror
  <2>3. o \in OrderIds /\ claims[o].status # "NONE" => claims[o].borrower = Borrower(o)
    BY DEF ProtocolInv, RouterInv, OwnClaims
  <2>4. QED  BY <1>2, <2>1, <2>2, <2>3
<1>4. DebtDue(u) \in Nat
  BY SyncType, VaultReads, VaultParameters, VaultLaws!Accrual
     DEF ProtocolInv, VaultLaws!IInv, Answers, DebtDue
<1>5. ASSUME OwesThisPool(u) PROVE o \in OrderIds /\ DebtDue(u) = Pool!currentDebt(o)
  <2>1. o \in OrderIds /\ solver_orders[o].status = "FILLED" /\ claim_pools[o] = ThisPool
    BY <1>1, <1>2, <1>5 DEF OwesThisPool, Vault!ActiveIs
  <2>2. /\ claims[o].status = "FILLED" /\ o # NoOrder
        /\ claim_holder[o] = ThisPool /\ ThisPool # NoUser
    BY <2>1 DEF ProtocolInv, RouterInv, StatusMirror, HolderIffFilled, Holders
  <2>3. Sync(u) = [managed |-> TRUE, debt |-> Pool!currentDebt(o)]
    BY <1>1, <2>1, <2>2 DEF Sync, claim_debt_state, ClaimIs
  <2>4. Vault!Managed(u, Sync(u))
    BY <1>5, <2>3 DEF OwesThisPool, Vault!Managed
  <2>5. QED  BY <2>1, <2>3, <2>4 DEF DebtDue, Vault!AccruedDebt
<1>6. ASSUME ~OwesThisPool(u) PROVE DebtDue(u) = positions[u].debt + Vault!Interest(u)
  <2>1. ~Vault!Managed(u, Sync(u))
    <3>1. SUFFICES ASSUME Vault!Managed(u, Sync(u)) PROVE FALSE
      OBVIOUS
    <3>2. o \in OrderIds /\ Vault!ActiveIs(u, "FILLED") /\ claim_pools[o] # NoUser
      BY <1>1, <1>2, <3>1 DEF Vault!Managed, Vault!ActiveIs, Sync, claim_debt_state
    <3>3. QED  BY <1>1, <1>6, <3>2 DEF OwesThisPool, ProtocolInv, RouterInv, RoutedHere
  <2>2. QED  BY <2>1 DEF DebtDue, Vault!AccruedDebt
<1>7. ASSUME positions[u].last_update = now PROVE Vault!Interest(u) = 0
  <2> DEFINE rated == positions[u].debt * params["annual_interest_bps"]
  <2>1. rated \in Nat
    <3>1. positions[u].debt \in Nat /\ params["annual_interest_bps"] \in Nat
      BY <1>2 DEF VaultLaws!Positions, VaultLaws!ParamNames
    <3>2. QED  BY <3>1
  <2>2. now - positions[u].last_update = 0
    BY <1>2, <1>7
  <2> HIDE DEF rated
  <2>3. rated * (now - positions[u].last_update) = 0
    BY <2>1, <2>2
  <2>4. (0 \div SecondsPerYear) \div Vault!BPS = 0
    BY DEF Vault!BPS
  <2>5. QED  BY <2>3, <2>4 DEF Vault!Interest, rated
<1>8. QED  BY <1>1, <1>2, <1>3, <1>4, <1>5, <1>6, <1>7

LEMMA DueNext ==
  ProtocolInv' =>
    (\A u \in Users :
      LET o == active_solver_order[u]
      IN  /\ positions[u] \in VaultLaws!Positions /\ o \in OrderIds \cup {NoOrder}
          /\ DebtDue(u) \in Nat
          /\ o # NoOrder => Borrower(o) = u /\ solver_orders[o].status \in {"OPEN", "FILLED"}
          /\ OwesThisPool(u) => o \in OrderIds /\ DebtDue(u) = Pool!currentDebt(o)
          /\ ~OwesThisPool(u) => DebtDue(u) = positions[u].debt + Vault!Interest(u)
          /\ positions[u].last_update = now => Vault!Interest(u) = 0
          /\ positions[u].last_update <= now)'
BY DueOf, PTL

\* More collateral or less debt does not make an account unhealthy.
LEMMA HealthMonotone ==
  ASSUME ProtocolInv, NEW c \in Nat, NEW d \in Nat, NEW c2 \in Nat, NEW d2 \in Nat,
         Vault!Healthy(c, d), c <= c2, d2 <= d
  PROVE  Vault!Healthy(c2, d2)
<1> DEFINE unit == price * DebtUnit
           threshold == params["liq_threshold"]
           v == Vault!CollateralValue(c)
           w == Vault!CollateralValue(c2)
<1>1. price \in Nat /\ threshold \in Nat
  BY DEF ProtocolInv, VaultLaws!IInv, VaultLaws!TypeOK, VaultLaws!ParamNames
<1>2. unit \in Nat
  BY <1>1
<1>3. v = MulDiv(c, unit, CollateralUnit) \div OracleUnit
      /\ w = MulDiv(c2, unit, CollateralUnit) \div OracleUnit
  BY <1>1 DEF Vault!CollateralValue, MulDiv
<1> HIDE DEF unit
<1>4. /\ MulDiv(c, unit, CollateralUnit) \in Nat /\ MulDiv(c2, unit, CollateralUnit) \in Nat
      /\ MulDiv(c, unit, CollateralUnit) <= MulDiv(c2, unit, CollateralUnit)
  <2>1. CollateralUnit \in Nat \ {0} /\ c \in Nat /\ c2 \in Nat /\ c <= c2 /\ unit <= unit
    BY <1>2
  <2>2. MulDiv(c, unit, CollateralUnit) \in Nat /\ MulDiv(c2, unit, CollateralUnit) \in Nat
    BY <1>2, <2>1, MulDivBounds
  <2>3. MulDiv(c, unit, CollateralUnit) <= MulDiv(c2, unit, CollateralUnit)
    BY <1>2, <2>1, MulDivMonotone
  <2>4. QED  BY <2>2, <2>3
<1>5. v \in Nat /\ w \in Nat /\ v <= w
  <2> DEFINE a == MulDiv(c, unit, CollateralUnit)
             b == MulDiv(c2, unit, CollateralUnit)
  <2>1. v = MulDiv(a, 1, OracleUnit) /\ w = MulDiv(b, 1, OracleUnit)
    BY <1>3, <1>4 DEF MulDiv
  <2> HIDE DEF a, b, v, w
  <2>2. a \in Nat /\ b \in Nat /\ a <= b
    BY <1>4 DEF a, b
  <2>3. 1 \in Nat /\ 1 <= 1 /\ OracleUnit \in Nat \ {0}
    OBVIOUS
  <2>4. MulDiv(a, 1, OracleUnit) \in Nat /\ MulDiv(b, 1, OracleUnit) \in Nat
    BY <2>2, <2>3, MulDivBounds
  <2>5. MulDiv(a, 1, OracleUnit) <= MulDiv(b, 1, OracleUnit)
    BY <2>2, <2>3, MulDivMonotone
  <2>6. QED  BY <2>1, <2>4, <2>5
<1>6. d = 0 \/ v * threshold >= d * 10000
  BY DEF Vault!Healthy, Vault!BPS
<1> HIDE DEF v, w, threshold
<1>7. w * threshold >= v * threshold /\ d * 10000 >= d2 * 10000
  BY <1>1, <1>5
<1>8. d2 = 0 \/ w * threshold >= d2 * 10000
  BY <1>1, <1>5, <1>6, <1>7
<1>9. QED  BY <1>8 DEF Vault!Healthy, Vault!BPS, w, threshold

\* One user's part of DebtsAgree and of HealthKept.
Agrees(u) ==
  OwesThisPool(u) =>
    LET original == Pool!currentDebt(active_solver_order[u])
        copy == positions[u].debt
    IN  /\ copy <= original + Pool!RoundingSlack
        /\ positions[u].last_update = now => original <= copy + Pool!RoundingSlack

StaysHealthy(u) ==
  UNCHANGED <<price, params>> /\ Vault!Healthy(positions[u].collateral, DebtDue(u)) =>
    Vault!Healthy(positions'[u].collateral, DebtDue(u)')

AccountStep(u) == (Agrees(u) => Agrees(u)') /\ StaysHealthy(u)

\* A transaction: time stands, and with it the index as it is read.
AtOnce ==
  /\ ProtocolInv /\ ProtocolInv' /\ now' = now
  /\ PoolLaws!CurrentIndex' = PoolLaws!CurrentIndex

LEMMA AtThatMoment ==
  ASSUME AtOnce
  PROVE  /\ PoolLaws!PoolInv /\ PoolLaws!PoolInv' /\ PoolLaws!CurrentIndex \in Nat \ {0}
         /\ PoolLaws!Unit(PoolLaws!CurrentIndex) \in Nat
         /\ Pool!RoundingSlack = 1 + PoolLaws!Unit(PoolLaws!CurrentIndex)
         /\ Pool!RoundingSlack' = Pool!RoundingSlack
         /\ \A o : /\ Pool!currentDebt(o) = PoolLaws!currentDebt(o)
                   /\ Pool!currentDebt(o)' = PoolLaws!currentDebt(o)'
                   /\ loans'[o] = loans[o] => Pool!currentDebt(o)' = Pool!currentDebt(o)
<1>1. PoolLaws!PoolInv /\ PoolLaws!PoolInv'
  BY DEF AtOnce, ProtocolInv
<1>2. PoolLaws!CurrentIndex \in Nat \ {0}
  BY <1>1, PoolParameters, PoolLaws!IndexGrows DEF PoolLaws!PoolInv
<1>3. PoolLaws!Unit(PoolLaws!CurrentIndex) \in Nat
  BY <1>2, PoolParameters, PoolLaws!OwedExchange
<1>4. /\ Pool!CurrentIndex = PoolLaws!CurrentIndex
      /\ Pool!CurrentIndex' = PoolLaws!CurrentIndex'
  BY DEF Pool!CurrentIndex, PoolLaws!CurrentIndex, Pool!MulDiv, PoolLaws!MulDiv
<1>5. /\ Pool!RoundingSlack = 1 + PoolLaws!Unit(PoolLaws!CurrentIndex)
      /\ Pool!RoundingSlack' = Pool!RoundingSlack
  <2>0. \A index : Pool!MulDivUp(index, 1, RAY) = PoolLaws!Unit(index)
    BY Zenon DEF PoolLaws!Unit, Pool!MulDivUp, PoolLaws!MulDivUp, Pool!MulDiv, PoolLaws!MulDiv
  <2>1. Pool!RoundingSlack = 1 + PoolLaws!Unit(Pool!CurrentIndex)
    BY <2>0 DEF Pool!RoundingSlack
  <2>2. Pool!RoundingSlack' = 1 + PoolLaws!Unit(Pool!CurrentIndex')
    BY <2>0 DEF Pool!RoundingSlack
  <2>3. Pool!CurrentIndex' = Pool!CurrentIndex
    BY <1>4 DEF AtOnce
  <2>4. QED  BY <1>4, <2>1, <2>2, <2>3
<1>6. ASSUME NEW o
      PROVE  /\ Pool!currentDebt(o) = PoolLaws!currentDebt(o)
             /\ Pool!currentDebt(o)' = PoolLaws!currentDebt(o)'
             /\ loans'[o] = loans[o] => Pool!currentDebt(o)' = Pool!currentDebt(o)
  BY <1>4 DEF AtOnce, Pool!currentDebt, PoolLaws!currentDebt, Pool!Owed, PoolLaws!Owed,
     Pool!MulDiv, PoolLaws!MulDiv
<1>7. QED  BY <1>1, <1>2, <1>3, <1>5, <1>6

\* An account that no call touches.
LEMMA Aside ==
  ASSUME AtOnce, NEW u \in Users, positions'[u] = positions[u],
         OwesThisPool(u)' <=> OwesThisPool(u),
         OwesThisPool(u) => LET o == active_solver_order[u]
                            IN  active_solver_order'[u] = o /\ loans'[o] = loans[o]
  PROVE  AccountStep(u)
<1>1. Agrees(u) => Agrees(u)'
  <2>1. OwesThisPool(u) => Pool!currentDebt(active_solver_order[u])'
                             = Pool!currentDebt(active_solver_order[u])
    <3>1. PICK o : o = active_solver_order[u]
      OBVIOUS
    <3>2. OwesThisPool(u) => Pool!currentDebt(o)' = Pool!currentDebt(o)
      BY <3>1, AtThatMoment
    <3>3. OwesThisPool(u) => active_solver_order'[u] = o
      BY <3>1
    <3>4. QED  BY <3>1, <3>2, <3>3 DEF Pool!currentDebt
  <2>2. QED  BY <2>1, AtThatMoment DEF Agrees, AtOnce
<1>2. StaysHealthy(u)
  <2>1. SUFFICES ASSUME UNCHANGED <<price, params>> PROVE DebtDue(u)' = DebtDue(u)
    BY DEF StaysHealthy
  <2>2. CASE OwesThisPool(u)
    <3>1. PICK o : o = active_solver_order[u]
      OBVIOUS
    <3>2. DebtDue(u) = Pool!currentDebt(o) /\ active_solver_order'[u] = o
      BY <2>2, <3>1, DueOf DEF AtOnce
    <3>3. DebtDue(u)' = Pool!currentDebt(active_solver_order[u])'
      BY <2>2, DueNext DEF AtOnce
    <3>4. Pool!currentDebt(o)' = Pool!currentDebt(o)
      BY <2>2, <3>1, AtThatMoment
    <3>5. QED  BY <3>2, <3>3, <3>4 DEF Pool!currentDebt
  <2>3. CASE ~OwesThisPool(u)
    <3>1. DebtDue(u) = positions[u].debt + Vault!Interest(u)
      BY <2>3, DueOf DEF AtOnce
    <3>2. DebtDue(u)' = positions'[u].debt + Vault!Interest(u)'
      BY <2>3, DueNext DEF AtOnce
    <3>3. Vault!Interest(u)' = Vault!Interest(u)
      BY <2>1 DEF Vault!Interest, AtOnce
    <3>4. QED  BY <3>1, <3>2, <3>3
  <2>4. QED  BY <2>2, <2>3
<1>3. QED  BY <1>1, <1>2 DEF AccountStep

\* The account a call writes anew: what is due afterwards is covered if the health
\* test covered it or it was covered before.
LEMMA Touched ==
  ASSUME AtOnce, NEW u \in Users, NEW c \in Nat, NEW d \in Nat, NEW bound \in Nat,
         Vault!SetPosition(u, c, d),
         OwesThisPool(u)' =>
           /\ Pool!currentDebt(active_solver_order[u])' - d
                \in -Pool!RoundingSlack .. Pool!RoundingSlack
           /\ Pool!currentDebt(active_solver_order[u])' <= bound,
         ~OwesThisPool(u)' => d <= bound,
         Vault!Healthy(positions[u].collateral, DebtDue(u)) => Vault!Healthy(c, bound)
  PROVE  AccountStep(u)
<1>1. /\ positions'[u].collateral = c /\ positions'[u].debt = d
      /\ positions'[u].last_update = now'
  BY DueOf DEF AtOnce, Vault!SetPosition, ProtocolInv, VaultLaws!IInv, VaultLaws!TypeOK
<1>2. /\ DebtDue(u)' \in Nat
      /\ OwesThisPool(u)' => DebtDue(u)' = Pool!currentDebt(active_solver_order[u])'
      /\ ~OwesThisPool(u)' => DebtDue(u)' = d
  BY <1>1, DueNext DEF AtOnce
<1>3. Agrees(u)'
  <2>1. SUFFICES ASSUME OwesThisPool(u)'
                 PROVE  LET original == Pool!currentDebt(active_solver_order[u])'
                        IN  /\ d <= original + Pool!RoundingSlack
                            /\ original <= d + Pool!RoundingSlack
    BY <1>1, AtThatMoment DEF Agrees
  <2> DEFINE original == Pool!currentDebt(active_solver_order[u])'
             slack == Pool!RoundingSlack
  <2>2. original \in Nat /\ slack \in Nat /\ original - d \in -slack .. slack
    BY <1>2, <2>1, AtThatMoment
  <2> HIDE DEF original, slack
  <2>3. d <= original + slack /\ original <= d + slack
    BY <2>2
  <2>4. QED  BY <2>3 DEF original, slack
<1>4. StaysHealthy(u)
  <2>1. DebtDue(u)' <= bound
    BY <1>2
  <2>2. SUFFICES ASSUME Vault!Healthy(positions[u].collateral, DebtDue(u))
                 PROVE  Vault!Healthy(c, DebtDue(u)')
    BY <1>1 DEF StaysHealthy
  <2>3. QED  BY <1>2, <2>1, <2>2, HealthMonotone DEF AtOnce
<1>5. QED  BY <1>3, <1>4 DEF AccountStep

\* A call writes the account of one user, and nothing of other users' claims.
OthersStand(user) ==
  /\ \A v \in Users \ {user} : /\ positions'[v] = positions[v]
                               /\ active_solver_order'[v] = active_solver_order[v]
  /\ \A q \in OrderIds : Borrower(q) # user =>
       /\ solver_orders'[q].status = solver_orders[q].status
       /\ claim_pools'[q] = claim_pools[q] /\ loans'[q] = loans[q]

LEMMA OneAccount ==
  ASSUME AtOnce, NEW user \in Users, OthersStand(user), AccountStep(user)
  PROVE  \A v \in Users : AccountStep(v)
<1>1. ASSUME NEW v \in Users \ {user} PROVE AccountStep(v)
  <2>1. PICK o : o = active_solver_order[v]
    OBVIOUS
  <2>2. positions'[v] = positions[v]
    BY DEF OthersStand
  <2>3. active_solver_order'[v] = o
    BY <2>1 DEF OthersStand
  <2>4. o # NoOrder => o \in OrderIds /\ Borrower(o) = v
    BY <2>1, DueOf DEF AtOnce
  <2>5. o # NoOrder => /\ solver_orders'[o].status = solver_orders[o].status
                       /\ claim_pools'[o] = claim_pools[o] /\ loans'[o] = loans[o]
    BY <2>4 DEF OthersStand
  <2>6. OwesThisPool(v)' <=> OwesThisPool(v)
    BY <2>1, <2>3, <2>5 DEF OwesThisPool, Vault!ActiveIs
  <2>7. OwesThisPool(v) => o # NoOrder
    BY <2>1 DEF OwesThisPool, Vault!ActiveIs
  <2>8. QED  BY <2>1, <2>2, <2>3, <2>5, <2>6, <2>7, Aside
<1>2. QED  BY <1>1

LEMMA NoAccount ==
  ASSUME AtOnce, UNCHANGED <<positions, active_solver_order, solver_orders, claim_pools, loans>>
  PROVE  \A v \in Users : AccountStep(v)
<1>1. ASSUME NEW v \in Users PROVE AccountStep(v)
  <2>1. OwesThisPool(v)' <=> OwesThisPool(v)
    BY DEF OwesThisPool, Vault!ActiveIs
  <2>2. QED  BY <2>1, Aside
<1>2. QED  BY <1>1

LEMMA OnePosition ==
  ASSUME AtOnce, NEW user \in Users, NEW c, NEW d, Vault!SetPosition(user, c, d)
  PROVE  \A v \in Users \ {user} : positions'[v] = positions[v]
BY DEF Vault!SetPosition, AtOnce, ProtocolInv, VaultLaws!IInv, VaultLaws!TypeOK

LEMMA CollateralType ==
  ASSUME AtOnce, NEW u \in Users
  PROVE  positions[u].collateral \in Nat /\ DebtDue(u) \in Nat
BY DueOf DEF AtOnce, VaultLaws!Positions

\* deposit and withdraw bring the account up to date and move its collateral.
LEMMA CollateralMoves ==
  ASSUME AtOnce, NEW user \in Users, NEW c \in Nat, Vault!SetPosition(user, c, DebtDue(user)),
         UNCHANGED <<active_solver_order, solver_orders, claim_pools, loans>>,
         Vault!Healthy(positions[user].collateral, DebtDue(user)) => Vault!Healthy(c, DebtDue(user))
  PROVE  \A v \in Users : AccountStep(v)
<1> DEFINE due == DebtDue(user)
<1>1. due \in Nat /\ Pool!RoundingSlack \in Nat
  BY CollateralType, AtThatMoment
<1>2. OwesThisPool(user)' => Pool!currentDebt(active_solver_order[user])' = due
  <2>1. OwesThisPool(user)' <=> OwesThisPool(user)
    BY DEF OwesThisPool, Vault!ActiveIs
  <2>2. PICK o : o = active_solver_order[user]
    OBVIOUS
  <2>3. OwesThisPool(user) => due = Pool!currentDebt(o)
    BY <2>2, DueOf DEF AtOnce
  <2>4. Pool!currentDebt(o)' = Pool!currentDebt(o)
    BY AtThatMoment
  <2>5. Pool!currentDebt(active_solver_order[user])' = Pool!currentDebt(o)'
    BY <2>2 DEF Pool!currentDebt
  <2>6. QED  BY <2>1, <2>3, <2>4, <2>5
<1>3. AccountStep(user)
  <2> HIDE DEF due
  <2>1. due - due \in -Pool!RoundingSlack .. Pool!RoundingSlack
    BY <1>1
  <2>2. QED  BY <1>1, <1>2, <2>1, Touched DEF due
<1>4. OthersStand(user)
  BY OnePosition DEF OthersStand
<1>5. QED  BY <1>3, <1>4, OneAccount

LEMMA DepositAccounts ==
  ASSUME AtOnce, NEW user \in Users, NEW amount \in Nat, deposit(user, amount)
  PROVE  \A v \in Users : AccountStep(v)
<1> DEFINE held == positions[user].collateral
<1>1. /\ Vault!SetPosition(user, held + amount, DebtDue(user))
      /\ UNCHANGED <<active_solver_order, solver_orders, claim_pools, loans>>
  BY DEF deposit, Vault!deposit_for, DebtDue, routerVars, claimVars, poolVars, pooledVars
<1>2. held \in Nat /\ DebtDue(user) \in Nat
  BY CollateralType
<1>3. Vault!Healthy(held, DebtDue(user)) => Vault!Healthy(held + amount, DebtDue(user))
  <2> HIDE DEF held
  <2>1. held + amount \in Nat /\ held <= held + amount
    BY <1>2
  <2>2. QED  BY <1>2, <2>1, HealthMonotone DEF AtOnce
<1>4. held + amount \in Nat
  BY <1>2
<1>5. QED  BY <1>1, <1>3, <1>4, CollateralMoves

LEMMA WithdrawAccounts ==
  ASSUME AtOnce, NEW user \in Users, NEW amount \in Nat, withdraw(user, amount)
  PROVE  \A v \in Users : AccountStep(v)
<1> DEFINE left == positions[user].collateral - amount
<1>1. /\ Vault!SetPosition(user, left, DebtDue(user)) /\ left >= 0
      /\ Vault!Healthy(left, DebtDue(user))
      /\ UNCHANGED <<active_solver_order, solver_orders, claim_pools, loans>>
  BY DEF withdraw, Vault!withdraw_for, Vault!WithdrawGuard, DebtDue, routerVars, claimVars,
     poolVars, pooledVars
<1>2. left \in Nat
  BY <1>1, CollateralType
<1>3. QED  BY <1>1, <1>2, CollateralMoves

\* The account of a claim that is not the pool's afterwards owes what the vault says.
LEMMA VaultCharges ==
  ASSUME AtOnce, NEW user \in Users, NEW c \in Nat, NEW d \in Nat, Vault!SetPosition(user, c, d),
         OthersStand(user), ~OwesThisPool(user)',
         Vault!Healthy(positions[user].collateral, DebtDue(user)) => Vault!Healthy(c, d)
  PROVE  \A v \in Users : AccountStep(v)
<1>1. AccountStep(user)
  BY Touched
<1>2. QED  BY <1>1, OneAccount

\* A claim of the pool's: the vault writes what was traded, the pool what it is worth.
LEMMA PoolCharges ==
  ASSUME AtOnce, NEW user \in Users, NEW c \in Nat, NEW d \in Nat, NEW bound \in Nat,
         Vault!SetPosition(user, c, d), OthersStand(user), d <= bound,
         NEW o \in OrderIds, active_solver_order'[user] = o,
         Pool!currentDebt(o)' <= bound,
         Pool!currentDebt(o)' - d \in -PoolLaws!Unit(PoolLaws!CurrentIndex)
                                        .. 1 + PoolLaws!Unit(PoolLaws!CurrentIndex),
         Vault!Healthy(positions[user].collateral, DebtDue(user)) => Vault!Healthy(c, bound)
  PROVE  \A v \in Users : AccountStep(v)
<1> DEFINE after == Pool!currentDebt(o)'
           unit == PoolLaws!Unit(PoolLaws!CurrentIndex)
<1>1. Pool!currentDebt(active_solver_order[user])' = after
  BY DEF Pool!currentDebt
<1>2. after - d \in -Pool!RoundingSlack .. Pool!RoundingSlack
  <2>1. unit \in Nat /\ Pool!RoundingSlack = 1 + unit /\ after \in Int
    <3>1. after \in Nat
      BY PoolParameters, AtThatMoment, PoolLaws!DebtAfter DEF AtOnce
    <3>2. QED  BY <3>1, AtThatMoment
  <2> HIDE DEF after, unit
  <2>2. after - d \in -unit .. 1 + unit
    BY DEF after, unit
  <2>3. QED  BY <2>1, <2>2
<1>3. AccountStep(user)
  BY <1>1, <1>2, Touched
<1>4. QED  BY <1>3, OneAccount

\* Only the records of one claim, its borrower's, are written.
LEMMA OneClaim ==
  ASSUME AtOnce, NEW user \in Users, NEW o \in OrderIds, Borrower(o) = user,
         NEW c, NEW d, Vault!SetPosition(user, c, d),
         \A v \in Users \ {user} : active_solver_order'[v] = active_solver_order[v],
         \A q \in OrderIds \ {o} : /\ solver_orders'[q] = solver_orders[q]
                                   /\ claim_pools'[q] = claim_pools[q] /\ loans'[q] = loans[q]
  PROVE  OthersStand(user)
BY OnePosition DEF OthersStand

LEMMA RecordTypes ==
  ASSUME AtOnce
  PROVE  /\ active_solver_order \in [Users -> OrderIds \cup {NoOrder}]
         /\ solver_orders \in [OrderIds -> VaultLaws!Orders]
         /\ claim_pools \in [OrderIds -> {NoUser, ThisPool, AnotherPool}]
         /\ NoUser # ThisPool
BY DEF AtOnce, ProtocolInv, VaultLaws!IInv, VaultLaws!TypeOK, RouterInv, TypeOK, Holders

LEMMA OpenAccounts ==
  ASSUME AtOnce, NEW user \in Users, NEW amount \in Nat, NEW deadline, OpenIntent(user, amount, deadline)
  PROVE  \A v \in Users : AccountStep(v)
<1> DEFINE held == positions[user].collateral
           debt == amount + MulDiv(amount, params["borrow_fee_bps"], Vault!BPS)
           order == Vault!OpenedOrder(user, amount, debt, deadline, params["borrow_fee_bps"])
<1>1. PICK o : o = NextOrder(user)
  OBVIOUS
<1>2. o \in OrderIds /\ Borrower(o) = user
  BY <1>1, FreshClaim DEF AtOnce, OpenIntent
<1>3. /\ DebtDue(user) = 0 /\ Vault!SetPosition(user, held, DebtDue(user))
      /\ active_solver_order' = [active_solver_order EXCEPT ![user] = o]
      /\ solver_orders' = [solver_orders EXCEPT ![o] = order]
      /\ UNCHANGED <<claim_pools, loans>>
  BY <1>1 DEF OpenIntent, Vault!open_solver_borrow_for, Vault!OpenGuard, DebtDue, Vault!SetActive,
     Vault!SetOrder, poolVars, pooledVars
<1>4. order.status = "OPEN"
  BY DEF Vault!OpenedOrder
<1> HIDE DEF order
<1>5. OthersStand(user)
  BY <1>2, <1>3, RecordTypes, OneClaim
<1>6. ~OwesThisPool(user)'
  BY <1>2, <1>3, <1>4, RecordTypes DEF OwesThisPool, Vault!ActiveIs
<1>7. held \in Nat /\ Vault!Healthy(held, 0)
  BY CollateralType DEF Vault!Healthy
<1> HIDE DEF held
<1>8. Vault!SetPosition(user, held, 0)
  BY <1>3
<1>9. QED  BY <1>5, <1>6, <1>7, <1>8, VaultCharges

LEMMA CancelAccounts ==
  ASSUME AtOnce, NEW o \in OrderIds, cancel_claim(o)
  PROVE  \A v \in Users : AccountStep(v)
<1>1. PICK user : user = claims[o].borrower
  OBVIOUS
<1>2. claims[o].status = "OPEN"
  BY DEF cancel_claim, ClaimIs
<1>3. user \in Users /\ Borrower(o) = user /\ solver_orders[o].status = "OPEN"
      /\ active_solver_order[user] = o
  BY <1>1, <1>2, LiveClaim DEF AtOnce
<1>4. /\ active_solver_order' = [active_solver_order EXCEPT ![user] = NoOrder]
      /\ solver_orders' = [solver_orders EXCEPT ![o] = [solver_orders[o] EXCEPT !.status = "CANCELLED"]]
      /\ UNCHANGED <<positions, claim_pools, loans>>
  BY <1>1 DEF cancel_claim, Vault!cancel_solver_borrow_for, Vault!SetActive, Vault!SetOrder,
     poolVars, pooledVars
<1>5. OthersStand(user)
  BY <1>3, <1>4, RecordTypes DEF OthersStand
<1>6. ~OwesThisPool(user) /\ ~OwesThisPool(user)'
  BY <1>3, <1>4, RecordTypes DEF OwesThisPool, Vault!ActiveIs
<1>7. AccountStep(user)
  BY <1>3, <1>4, <1>6, Aside
<1>8. QED  BY <1>3, <1>5, <1>7, OneAccount

LEMMA ConfirmAccounts ==
  ASSUME AtOnce, NEW o \in OrderIds, NEW solver \in Solvers, confirm_fill(o, solver)
  PROVE  \A v \in Users : AccountStep(v)
<1> DEFINE debt == solver_orders[o].debt_amount
           order == [solver_orders[o] EXCEPT !.status = "FILLED", !.filled_at = now]
<1>1. PICK user : user = claims[o].borrower
  OBVIOUS
<1>2. claims[o].status = "OPEN"
  BY DEF confirm_fill, ClaimIs
<1>3. /\ user \in Users /\ Borrower(o) = user /\ solver_orders[o].borrower = user
      /\ active_solver_order[user] = o /\ claim_pools[o] = NoUser
  BY <1>1, <1>2, LiveClaim, Unfilled DEF AtOnce
<1> DEFINE held == positions[user].collateral
<1>4. /\ Vault!SetPosition(user, held, debt) /\ Vault!Healthy(held, debt)
      /\ solver_orders' = [solver_orders EXCEPT ![o] = order]
      /\ claim_pools' = [claim_pools EXCEPT ![o] = claim_pools[o]]
      /\ UNCHANGED <<active_solver_order, loans>>
  BY <1>3 DEF confirm_fill, Hold, Vault!mark_solver_borrow_filled, Vault!CoversFill, Vault!SetOrder,
     poolVars, pooledVars
<1>5. held \in Nat /\ debt \in Nat
  BY <1>3, CollateralType, RecordTypes DEF VaultLaws!Orders
<1> HIDE DEF held, debt, order
<1>6. OthersStand(user)
  BY <1>3, <1>4, RecordTypes, OneClaim
<1>7. ~OwesThisPool(user)'
  BY <1>3, <1>4, RecordTypes DEF OwesThisPool
<1>8. QED  BY <1>3, <1>4, <1>5, <1>6, <1>7, VaultCharges

\* What lending leaves the claim owing, in the router's terms.
LEMMA PoolFunds ==
  ASSUME AtOnce, NEW o \in OrderIds, NEW amount \in Nat, NEW user, Pool!fundClaim(o, amount, user)
  PROVE  /\ Pool!currentDebt(o)' <= amount
         /\ Pool!currentDebt(o)' - amount \in -PoolLaws!Unit(PoolLaws!CurrentIndex)
                                                .. 1 + PoolLaws!Unit(PoolLaws!CurrentIndex)
         /\ \A q \in OrderIds \ {o} : loans'[q] = loans[q]
<1> DEFINE after == PoolLaws!currentDebt(o)'
           unit == PoolLaws!Unit(PoolLaws!CurrentIndex)
<1>1. PoolLaws!fundClaim(o, amount, user)
  BY PoolCalls
<1>2. /\ PoolLaws!PoolInv /\ PoolLaws!PoolInv' /\ PoolLaws!CurrentIndex' = PoolLaws!CurrentIndex
      /\ unit \in Nat /\ Pool!currentDebt(o)' = after
  BY AtThatMoment DEF AtOnce
<1>3. /\ after <= amount /\ after >= amount - unit
      /\ \A q \in OrderIds \ {o} : loans'[q] = loans[q]
  BY <1>1, <1>2, PoolParameters, PoolLaws!FundedDebt
<1>4. after \in Nat
  BY <1>2, PoolParameters, PoolLaws!DebtAfter
<1> HIDE DEF after, unit
<1>5. after - amount \in -unit .. 1 + unit
  BY <1>2, <1>3, <1>4
<1>6. QED  BY <1>2, <1>3, <1>5 DEF unit

LEMMA PoolFillAccounts ==
  ASSUME AtOnce, NEW o \in OrderIds, fill_with_pool(o)
  PROVE  \A v \in Users : AccountStep(v)
<1> DEFINE debt == claims[o].principal
           order == [solver_orders[o] EXCEPT !.status = "FILLED", !.filled_at = now]
<1>1. PICK user : user = claims[o].borrower
  OBVIOUS
<1>2. claims[o].status = "OPEN"
  BY DEF fill_with_pool, ClaimIs
<1>3. /\ user \in Users /\ Borrower(o) = user /\ solver_orders[o].borrower = user
      /\ active_solver_order[user] = o /\ debt \in Nat
  BY <1>1, <1>2, LiveClaim DEF AtOnce, Claims
<1> DEFINE held == positions[user].collateral
<1>4. /\ Vault!SetPosition(user, held, debt) /\ Vault!Healthy(held, debt)
      /\ solver_orders' = [solver_orders EXCEPT ![o] = order]
      /\ claim_pools' = [claim_pools EXCEPT ![o] = liquidity_pool]
      /\ Pool!fundClaim(o, debt, user) /\ UNCHANGED active_solver_order
  BY <1>1, <1>3 DEF fill_with_pool, Hold, Vault!mark_solver_borrow_filled, Vault!CoversFill,
     Vault!SetOrder
<1>5. held \in Nat
  BY <1>3, CollateralType
<1> HIDE DEF held, debt, order
<1>6. /\ Pool!currentDebt(o)' <= debt
      /\ Pool!currentDebt(o)' - debt \in -PoolLaws!Unit(PoolLaws!CurrentIndex)
                                           .. 1 + PoolLaws!Unit(PoolLaws!CurrentIndex)
      /\ \A q \in OrderIds \ {o} : loans'[q] = loans[q]
  BY <1>3, <1>4, PoolFunds
<1>7. OthersStand(user)
  BY <1>3, <1>4, <1>6, RecordTypes, OneClaim
<1>8. active_solver_order'[user] = o
  BY <1>3, <1>4
<1>9. QED  BY <1>3, <1>4, <1>5, <1>6, <1>7, <1>8, PoolCharges

LEMMA BorrowFromPoolAccounts ==
  ASSUME AtOnce, NEW user \in Users, NEW amount \in Nat, BorrowFromPool(user, amount)
  PROVE  \A v \in Users : AccountStep(v)
<1> DEFINE held == positions[user].collateral
           order == [Vault!OpenedOrder(user, amount, amount, now + 1, 0)
                       EXCEPT !.status = "FILLED", !.filled_at = now]
<1>1. PICK o : o = NextOrder(user)
  OBVIOUS
<1>2. o \in OrderIds /\ Borrower(o) = user
  BY <1>1, FreshClaim DEF AtOnce, BorrowFromPool
<1>3. /\ Vault!SetPosition(user, held, amount) /\ Vault!Healthy(held, amount)
      /\ active_solver_order' = [active_solver_order EXCEPT ![user] = o]
      /\ solver_orders' = [solver_orders EXCEPT ![o] = order]
      /\ claim_pools' = [claim_pools EXCEPT ![o] = liquidity_pool]
      /\ Pool!fundClaim(o, amount, user)
  BY <1>1 DEF BorrowFromPool, Vault!OpenGuard, Vault!SetActive, Vault!SetOrder, Hold
<1>4. held \in Nat
  BY CollateralType
<1> HIDE DEF held, order
<1>5. /\ Pool!currentDebt(o)' <= amount
      /\ Pool!currentDebt(o)' - amount \in -PoolLaws!Unit(PoolLaws!CurrentIndex)
                                             .. 1 + PoolLaws!Unit(PoolLaws!CurrentIndex)
      /\ \A q \in OrderIds \ {o} : loans'[q] = loans[q]
  BY <1>2, <1>3, PoolFunds
<1>6. OthersStand(user) /\ active_solver_order'[user] = o
  BY <1>2, <1>3, <1>5, RecordTypes, OneClaim
<1>7. QED  BY <1>2, <1>3, <1>4, <1>5, <1>6, PoolCharges

LEMMA BorrowMoreAccounts ==
  ASSUME AtOnce, NEW user \in Users, NEW amount \in Nat, liquidity_pool = ThisPool,
         active_solver_order[user] # NoOrder,
         BorrowMoreFromPool(user, active_solver_order[user], amount)
  PROVE  \A v \in Users : AccountStep(v)
<1> DEFINE held == positions[user].collateral
           due == DebtDue(user)
           unit == PoolLaws!Unit(PoolLaws!CurrentIndex)
<1>1. PICK o : o = active_solver_order[user]
  OBVIOUS
<1> DEFINE order == [solver_orders[o] EXCEPT !.principal = @ + amount, !.debt_amount = @ + amount]
           after == PoolLaws!currentDebt(o)'
<1>2. /\ Vault!SetPosition(user, held, due + amount) /\ Vault!Healthy(held, due + amount)
      /\ solver_orders' = [solver_orders EXCEPT ![o] = order]
      /\ solver_orders[o].status = "FILLED" /\ claim_pools[o] = ThisPool
      /\ PoolLaws!increaseClaim(o, amount)
      /\ UNCHANGED <<active_solver_order, claim_pools>>
  BY <1>1, PoolCalls DEF BorrowMoreFromPool, Vault!increase_solver_borrow_for, Vault!SetOrder, DebtDue
<1>3. OwesThisPool(user)
  BY <1>1, <1>2 DEF OwesThisPool, Vault!ActiveIs
<1>4. o \in OrderIds /\ Borrower(o) = user /\ due = PoolLaws!currentDebt(o) /\ due \in Nat
  BY <1>1, <1>3, DueOf, AtThatMoment DEF AtOnce, OwesThisPool, Vault!ActiveIs
<1>5. held \in Nat
  BY CollateralType
<1>6. /\ PoolLaws!PoolInv /\ PoolLaws!PoolInv' /\ PoolLaws!CurrentIndex' = PoolLaws!CurrentIndex
      /\ unit \in Nat /\ Pool!currentDebt(o)' = after
  BY AtThatMoment DEF AtOnce
<1>7. /\ after <= due + amount /\ after >= due + amount - unit
      /\ \A q \in OrderIds \ {o} : loans'[q] = loans[q]
  BY <1>2, <1>4, <1>6, PoolParameters, PoolLaws!IncreasedDebt
<1>8. after \in Nat
  BY <1>4, <1>6, PoolParameters, PoolLaws!DebtAfter
<1>9. due + amount \in Nat /\ after - (due + amount) \in -unit .. 1 + unit
  <2> HIDE DEF after, unit, due
  <2>1. QED  BY <1>4, <1>6, <1>7, <1>8
<1> HIDE DEF held, due, order, after
<1>10. OthersStand(user)
  BY <1>2, <1>4, <1>7, RecordTypes, OneClaim
<1>11. active_solver_order'[user] = o
  BY <1>1, <1>2
<1>12. QED
  BY <1>2, <1>4, <1>5, <1>6, <1>7, <1>9, <1>10, <1>11, PoolCharges

LEMMA BorrowAccounts ==
  ASSUME AtOnce, NEW user \in Users, NEW amount \in Nat, borrow(user, amount)
  PROVE  \A v \in Users : AccountStep(v)
<1>1. CASE OwesThePool(user) /\ Available >= amount
           /\ BorrowMoreFromPool(user, active_solver_order[user], amount)
  <2>1. amount > 0 /\ active_solver_order[user] # NoOrder
    BY <1>1 DEF OwesThePool, ClaimIs, BorrowMoreFromPool, Vault!increase_solver_borrow_for
  <2>2. liquidity_pool = ThisPool
    BY <1>1, <2>1 DEF Available
  <2>3. QED  BY <1>1, <2>1, <2>2, BorrowMoreAccounts
<1>2. CASE BorrowFromPool(user, amount)
  BY <1>2, BorrowFromPoolAccounts
<1>3. CASE OpenIntent(user, amount, now + FillWindow)
  BY <1>3, OpenAccounts
<1>4. QED  BY <1>1, <1>2, <1>3 DEF borrow

\* Whoever is paid, the loans of other claims stay as they were.
LEMMA OtherLoans ==
  ASSUME AtOnce, NEW o \in OrderIds, NEW amount, repay_claim(o, amount)
  PROVE  \A q \in OrderIds \ {o} : loans'[q] = loans[q]
<1> DEFINE actual == Vault!RepaidAmount(claims[o].borrower, amount, Sync(claims[o].borrower))
<1>1. CASE PoolLaws!settleRepayment(o, actual)
  <2>1. \E loan : PoolLaws!SetLoan(o, loan)
    BY <1>1, Zenon DEF PoolLaws!settleRepayment
  <2>2. loans \in [OrderIds -> PoolLaws!Loans]
    BY AtThatMoment DEF PoolLaws!PoolInv, PoolLaws!TypeOK
  <2>3. QED  BY <2>1, <2>2 DEF PoolLaws!SetLoan
<1>2. CASE UNCHANGED pooledVars
  BY <1>2 DEF pooledVars
<1>3. PoolLaws!settleRepayment(o, actual) \/ UNCHANGED pooledVars
  BY PoolCalls DEF repay_claim, Receive
<1>4. QED  BY <1>1, <1>2, <1>3

LEMMA RepayClaimAccounts ==
  ASSUME AtOnce, NEW o \in OrderIds, NEW amount \in Nat, repay_claim(o, amount)
  PROVE  \A v \in Users : AccountStep(v)
<1>1. PICK user : user = claims[o].borrower
  OBVIOUS
<1> DEFINE held == positions[user].collateral
           due == DebtDue(user)
           actual == Vault!RepaidAmount(user, amount, Sync(user))
           left == due - actual
           unit == PoolLaws!Unit(PoolLaws!CurrentIndex)
<1>2. claims[o].status = "FILLED" /\ o # NoOrder
  BY DEF repay_claim, ClaimIs
<1>3. /\ user \in Users /\ Borrower(o) = user /\ solver_orders[o].borrower = user
      /\ active_solver_order[user] = o /\ solver_orders[o].status = "FILLED"
  BY <1>1, <1>2, LiveClaim DEF AtOnce
<1>4. held \in Nat /\ due \in Nat
  BY <1>3, CollateralType
<1>5. actual = (IF amount < due THEN amount ELSE due)
  BY DEF Vault!RepaidAmount, Vault!Smaller, DebtDue
<1>6. actual \in Nat /\ actual <= due /\ left \in Nat
  <2> HIDE DEF due, actual
  <2>1. QED  BY <1>4, <1>5
<1>7. OthersStand(user)
  <2>1. PICK c, d : Vault!SetPosition(user, c, d)
    BY <1>1 DEF repay_claim, Vault!repay_claim_for
  <2>2. \A v \in Users \ {user} : active_solver_order'[v] = active_solver_order[v]
    BY <1>1, <1>3, RecordTypes DEF repay_claim, Vault!repay_claim_for, Vault!SetActive
  <2>3. \A q \in OrderIds \ {o} : solver_orders'[q] = solver_orders[q]
    BY <1>1, <1>3, RecordTypes DEF repay_claim, Vault!repay_claim_for, Vault!SetOrder
  <2>4. \A q \in OrderIds \ {o} : claim_pools'[q] = claim_pools[q]
    BY <1>1, <1>3, RecordTypes DEF repay_claim, CloseClaim, Hold, claimVars
  <2>5. QED  BY <1>3, <2>1, <2>2, <2>3, <2>4, OtherLoans, OneClaim
<1>8. CASE left = 0
  <2>1. Vault!SetPosition(user, held - held, left) /\ Vault!SetActive(user, NoOrder)
    BY <1>1, <1>8 DEF repay_claim, Vault!repay_claim_for, DebtDue
  <2>2. ~OwesThisPool(user)'
    BY <1>3, <2>1, RecordTypes DEF OwesThisPool, Vault!ActiveIs, Vault!SetActive
  <2>3. Vault!SetPosition(user, 0, 0)
    <3> HIDE DEF held, left
    <3>1. held - held = 0
      BY <1>4
    <3>2. QED  BY <1>8, <2>1, <3>1
  <2>4. Vault!Healthy(0, 0)
    BY DEF Vault!Healthy
  <2>5. QED  BY <1>3, <1>7, <2>2, <2>3, <2>4, VaultCharges
<1>9. CASE left # 0
  <2>1. /\ Vault!SetPosition(user, held - 0, left)
        /\ UNCHANGED <<active_solver_order, solver_orders, claim_pools>>
    <3>1. actual # due
      <4> HIDE DEF actual, due
      <4>1. QED  BY <1>4, <1>6, <1>9
    <3>2. QED  BY <1>1, <1>9, <3>1 DEF repay_claim, Vault!repay_claim_for, DebtDue, claimVars
  <2>2. Vault!SetPosition(user, held, left)
    <3> HIDE DEF held, left
    <3>1. held - 0 = held
      BY <1>4
    <3>2. QED  BY <2>1, <3>1
  <2>3. CASE PoolClaim(o) /\ PoolLaws!settleRepayment(o, actual)
    <3> DEFINE after == PoolLaws!currentDebt(o)'
    <3>1. claim_pools[o] = ThisPool
      BY <2>3 DEF PoolClaim, AtOnce, ProtocolInv, RouterInv, RoutedHere
    <3>2. OwesThisPool(user)
      BY <1>2, <1>3, <3>1 DEF OwesThisPool, Vault!ActiveIs
    <3>3. due = PoolLaws!currentDebt(o) /\ actual # PoolLaws!currentDebt(o)
      <4>1. due = PoolLaws!currentDebt(o)
        BY <1>3, <3>2, DueOf, AtThatMoment DEF AtOnce
      <4> HIDE DEF due, actual
      <4>2. QED  BY <1>4, <1>6, <1>9, <4>1
    <3>4. /\ PoolLaws!PoolInv /\ PoolLaws!PoolInv' /\ PoolLaws!CurrentIndex' = PoolLaws!CurrentIndex
          /\ unit \in Nat /\ Pool!currentDebt(o)' = after
      BY AtThatMoment DEF AtOnce
    <3>5. after \in Nat
      BY <3>4, PoolParameters, PoolLaws!DebtAfter
    <3> HIDE DEF actual, due, after, unit
    <3>6. after <= due /\ after - (due - actual) \in -1 .. unit
      BY <1>6, <2>3, <3>3, <3>4, PoolParameters, PoolLaws!SettledDebt DEF after, unit
    <3>7. left \in Nat /\ left <= due
          /\ after - left \in -Pool!RoundingSlack .. Pool!RoundingSlack
      <4>1. PICK slack : slack = Pool!RoundingSlack
        OBVIOUS
      <4>2. slack = 1 + unit
        BY <4>1, AtThatMoment DEF unit
      <4>3. after - (due - actual) \in -slack .. slack
        BY <1>4, <1>6, <3>4, <3>5, <3>6, <4>2
      <4>4. QED  BY <1>4, <1>6, <4>1, <4>3
    <3>8. Pool!currentDebt(active_solver_order[user])' = after
      <4>1. active_solver_order'[user] = o
        BY <1>3, <2>1
      <4>2. QED  BY <3>4, <4>1 DEF Pool!currentDebt
    <3> HIDE DEF held, left
    <3>9. AccountStep(user)
      <4>1. held \in Nat /\ left \in Nat /\ due \in Nat
        BY <1>4, <3>7
      <4>2. OwesThisPool(user)' =>
              /\ Pool!currentDebt(active_solver_order[user])' - left
                   \in -Pool!RoundingSlack .. Pool!RoundingSlack
              /\ Pool!currentDebt(active_solver_order[user])' <= due
        BY <3>6, <3>7, <3>8
      <4>3. Vault!Healthy(positions[user].collateral, DebtDue(user)) => Vault!Healthy(held, due)
        BY DEF held, due
      <4>4. QED  BY <1>3, <2>2, <3>7, <4>1, <4>2, <4>3, Touched
    <3>10. QED  BY <1>3, <1>7, <3>9, OneAccount
  <2>4. CASE SolverClaim(o)
    <3>1. claim_pools[o] = NoUser
      BY <2>4 DEF SolverClaim, PoolClaim, AtOnce, ProtocolInv, RouterInv, HolderIffFilled
    <3>2. ~OwesThisPool(user)'
      BY <1>3, <2>1, <3>1, RecordTypes DEF OwesThisPool, Vault!ActiveIs
    <3>3. Vault!Healthy(held, due) => Vault!Healthy(held, left)
      <4> HIDE DEF held, actual, due
      <4>1. left <= due
        BY <1>4, <1>6
      <4> HIDE DEF left
      <4>2. QED  BY <1>4, <1>6, <4>1, HealthMonotone DEF AtOnce
    <3>4. left \in Nat
      BY <1>6
    <3>5. Vault!Healthy(positions[user].collateral, DebtDue(user)) => Vault!Healthy(held, left)
      BY <3>3
    <3> HIDE DEF held, left, due, actual
    <3>6. QED  BY <1>3, <1>4, <1>7, <2>2, <3>2, <3>4, <3>5, VaultCharges
  <2>5. Pool!settleRepayment(o, actual) <=> PoolLaws!settleRepayment(o, actual)
    BY PoolCalls
  <2>6. (PoolClaim(o) /\ Pool!settleRepayment(o, actual)) \/ SolverClaim(o)
    BY <1>1 DEF repay_claim
  <2>7. QED  BY <2>3, <2>4, <2>5, <2>6
<1>10. QED  BY <1>8, <1>9

LEMMA RepayAccounts ==
  ASSUME AtOnce, NEW user \in Users, NEW amount \in Nat, repay(user, amount)
  PROVE  \A v \in Users : AccountStep(v)
<1>1. PICK o : o = active_solver_order[user]
  OBVIOUS
<1>2. o \in OrderIds
  BY <1>1, RecordTypes DEF repay, ClaimIs
<1>3. QED  BY <1>1, <1>2, RepayClaimAccounts DEF repay

\* A liquidation empties the account: nothing is owed and nothing is at risk.
LEMMA SeizedAccounts ==
  ASSUME AtOnce, NEW o \in OrderIds, claims[o].status = "FILLED", CloseClaim(o, "LIQUIDATED"),
         NEW sync, Vault!SeizePosition(o, sync), \A q \in OrderIds \ {o} : loans'[q] = loans[q]
  PROVE  \A v \in Users : AccountStep(v)
<1>1. PICK user : user = claims[o].borrower
  OBVIOUS
<1>2. user \in Users /\ Borrower(o) = user /\ solver_orders[o].borrower = user
  BY <1>1, LiveClaim DEF AtOnce
<1>3. /\ Vault!SetPosition(user, 0, 0)
      /\ active_solver_order' = [active_solver_order EXCEPT ![user] = NoOrder]
      /\ solver_orders' = [solver_orders EXCEPT ![o] = [solver_orders[o] EXCEPT !.status = "LIQUIDATED"]]
      /\ claim_pools' = [claim_pools EXCEPT ![o] = NoUser]
  BY <1>2 DEF Vault!SeizePosition, Vault!SetActive, Vault!SetOrder, CloseClaim, Hold
<1>4. OthersStand(user)
  BY <1>2, <1>3, RecordTypes, OneClaim
<1>5. ~OwesThisPool(user)'
  BY <1>2, <1>3, RecordTypes DEF OwesThisPool, Vault!ActiveIs
<1>6. Vault!Healthy(0, 0)
  BY DEF Vault!Healthy
<1>7. QED  BY <1>2, <1>3, <1>4, <1>5, <1>6, VaultCharges

LEMMA LiquidationAccounts ==
  ASSUME AtOnce, NEW o \in OrderIds, NEW liquidator, liquidate_claim(o, liquidator)
  PROVE  \A v \in Users : AccountStep(v)
<1> DEFINE sync == [managed |-> FALSE, debt |-> 0]
<1>1. claims[o].status = "FILLED" /\ CloseClaim(o, "LIQUIDATED") /\ Vault!SeizePosition(o, sync)
  BY DEF liquidate_claim, LiquidatePoolClaim, LiquidateSolverClaim, ClaimIs,
     Vault!liquidate_claim_for, Vault!liquidate_pool_claim_for
<1>2. CASE Pool!settleLiquidation(o, DebtToCover(o))
  <2>1. PoolLaws!settleLiquidation(o, DebtToCover(o))
    BY <1>2, PoolCalls
  <2>2. loans \in [OrderIds -> PoolLaws!Loans]
    BY AtThatMoment DEF PoolLaws!PoolInv, PoolLaws!TypeOK
  <2>3. \A q \in OrderIds \ {o} : loans'[q] = loans[q]
    BY <2>1, <2>2 DEF PoolLaws!settleLiquidation, PoolLaws!SetLoan
  <2>4. QED  BY <1>1, <2>3, SeizedAccounts
<1>3. CASE UNCHANGED poolVars
  <2>1. \A q \in OrderIds \ {o} : loans'[q] = loans[q]
    BY <1>3 DEF poolVars, pooledVars
  <2>2. QED  BY <1>1, <2>1, SeizedAccounts
<1>4. QED  BY <1>2, <1>3 DEF liquidate_claim, LiquidatePoolClaim, LiquidateSolverClaim

\* Nobody's account is in the calls of the administrators, of the providers, of the
\* owner, of a claim's holder who sells it, and in a new price.
LEMMA AsideCalls ==
  ASSUME AtOnce,
         \/ AdminCall \/ DirectCall \/ SetPrice \/ UNCHANGED vars
         \/ \E o \in OrderIds, holder \in Solvers \cup {ThisPool} : transfer_claim(o, holder)
  PROVE  \A v \in Users : AccountStep(v)
<1> DEFINE Stands ==
             UNCHANGED <<positions, active_solver_order, solver_orders, claim_pools, loans>>
<1>1. AdminCall => Stands
  BY DEF AdminCall, set_destination_settler, set_liquidity_pool, seed_liquidity_pool,
     Pool!deposit, Pool!loanVars, routerVars, claimVars, vaultVars, poolVars, pooledVars
<1>2. DirectCall => Stands
  <2>1. Pool!LPCall => UNCHANGED loans
    BY DEF Pool!LPCall, Pool!deposit, Pool!mint, Pool!withdraw, Pool!redeem, Pool!TakeOut,
       Pool!cooldown, Pool!loanVars
  <2>2. Pool!OwnerCall => UNCHANGED loans
    BY DEF Pool!OwnerCall, Pool!apply_rate_model, Pool!set_rate_model, Pool!loanVars
  <2>3. UNCHANGED <<routerVars, vaultVars>>
          => UNCHANGED <<positions, active_solver_order, solver_orders, claim_pools>>
    BY DEF routerVars, claimVars, vaultVars
  <2>4. ASSUME \/ \E choice \in ParamChoices : Vault!set_param(choice[1], choice[2])
               \/ \E p \in Vault!ParamNames : Vault!apply_param(p),
               UNCHANGED <<routerVars, poolVars>>
        PROVE  Stands
    <3>1. UNCHANGED <<positions, active_solver_order, solver_orders>>
      BY <2>4 DEF Vault!set_param, Vault!apply_param, Vault!bookVars
    <3>2. UNCHANGED <<claim_pools, loans>>
      BY <2>4 DEF routerVars, claimVars, poolVars, pooledVars
    <3>3. QED  BY <3>1, <3>2
  <2>5. QED  BY <2>1, <2>2, <2>3, <2>4, Zenon DEF DirectCall
<1>3. SetPrice => Stands
  BY DEF SetPrice, Vault!SetPrice, Vault!bookVars, routerVars, claimVars, poolVars, pooledVars
<1>4. UNCHANGED vars => Stands
  BY DEF vars, routerVars, claimVars, vaultVars, poolVars, pooledVars
<1>5. ASSUME NEW o \in OrderIds, NEW holder, transfer_claim(o, holder) PROVE Stands
  BY <1>5 DEF transfer_claim, vaultVars, poolVars, pooledVars
<1>6. Stands
  BY <1>1, <1>2, <1>3, <1>4, <1>5
<1>7. QED  BY <1>6, NoAccount

LEMMA AccountCalls ==
  ASSUME AtOnce, UserCall \/ ClaimCall
  PROVE  \A v \in Users : AccountStep(v)
<1> DEFINE Step == \A v \in Users : AccountStep(v)
<1>1. ASSUME NEW user \in Users, NEW amount \in Amounts,
             \/ deposit(user, amount) \/ withdraw(user, amount)
             \/ borrow(user, amount) \/ repay(user, amount)
             \/ \E window \in BorrowWindows : open(user, amount, now + window)
      PROVE  Step
  <2>1. amount \in Nat
    OBVIOUS
  <2>2. ASSUME NEW window \in BorrowWindows, open(user, amount, now + window) PROVE Step
    BY <2>1, <2>2, OpenAccounts DEF open
  <2> HIDE DEF Step
  <2>3. QED
    BY <1>1, <2>1, <2>2, DepositAccounts, WithdrawAccounts, BorrowAccounts, RepayAccounts DEF Step
<1>2. ASSUME NEW o \in OrderIds,
             \/ cancel_claim(o)
             \/ fill_with_pool(o)
             \/ \E solver \in Solvers : confirm_fill(o, solver) \/ liquidate_claim(o, solver)
             \/ \E holder \in Solvers \cup {ThisPool} : transfer_claim(o, holder)
             \/ \E amount \in Amounts : repay_claim(o, amount)
      PROVE  Step
  <2>1. ASSUME NEW solver \in Solvers, confirm_fill(o, solver) \/ liquidate_claim(o, solver)
        PROVE  Step
    BY <2>1, ConfirmAccounts, LiquidationAccounts
  <2>2. ASSUME NEW amount \in Amounts, repay_claim(o, amount) PROVE Step
    <3>1. amount \in Nat
      OBVIOUS
    <3>2. QED  BY <2>2, <3>1, RepayClaimAccounts
  <2>3. ASSUME NEW holder \in Solvers \cup {ThisPool}, transfer_claim(o, holder) PROVE Step
    BY <2>3, AsideCalls
  <2> HIDE DEF Step
  <2>4. QED
    BY <1>2, <2>1, <2>2, <2>3, CancelAccounts, PoolFillAccounts DEF Step
<1>3. QED  BY <1>1, <1>2, Zenon DEF UserCall, ClaimCall

LEMMA EveryAccountStep ==
  ASSUME ProtocolInv, [Next]_vars, now' = now
  PROVE  \A v \in Users : AccountStep(v)
<1>1. ProtocolInv' /\ PoolStep
  BY EveryStepIsSound DEF Sound
<1>2. AtOnce
  BY <1>1, IndexMovesWithTime DEF AtOnce
<1>3. ~Tick
  <2>1. now \in Nat
    BY DEF ProtocolInv, PoolLaws!PoolInv, PoolLaws!TypeOK
  <2>2. QED  BY <2>1 DEF Tick
<1>4. QED  BY <1>2, <1>3, AccountCalls, AsideCalls DEF Next

\* While time passes the pool's figure grows and the vault's copy stands.
LEMMA TickAgrees ==
  ASSUME ProtocolInv, Tick, NEW u \in Users, Agrees(u)
  PROVE  Agrees(u)'
<1> DEFINE copy == positions[u].debt
<1>1. /\ PoolLaws!PoolInv /\ PoolLaws!PoolInv'
      /\ now \in Nat /\ now' = now + 1 /\ positions[u].last_update <= now
      /\ positions[u] \in VaultLaws!Positions
  BY Environment, DueOf DEF Tick, Sound, ProtocolInv, PoolLaws!PoolInv, PoolLaws!TypeOK
<1>2. UNCHANGED <<positions, active_solver_order, solver_orders, claim_pools>>
  BY DEF Tick, routerVars, claimVars, vaultVars
<1>3. PICK o : o = active_solver_order[u]
  OBVIOUS
<1> DEFINE before == PoolLaws!currentDebt(o)
           after == PoolLaws!currentDebt(o)'
           slack == 1 + PoolLaws!Unit(PoolLaws!CurrentIndex)
           slack2 == 1 + PoolLaws!Unit(PoolLaws!CurrentIndex')
<1>4. SUFFICES ASSUME OwesThisPool(u)
               PROVE  /\ positions'[u].last_update # now'
                      /\ copy <= Pool!currentDebt(active_solver_order[u])' + Pool!RoundingSlack'
  BY <1>2 DEF Agrees, OwesThisPool, Vault!ActiveIs
<1>5. positions'[u].last_update # now'
  <2>1. positions[u].last_update \in Nat
    BY <1>1 DEF VaultLaws!Positions
  <2>2. QED  BY <1>1, <1>2, <2>1
<1>6. o \in OrderIds /\ copy \in Nat
  BY <1>1, <1>3, <1>4, DueOf DEF VaultLaws!Positions
<1>7. before \in Nat /\ after \in Nat /\ before <= after
      /\ slack \in Nat /\ slack2 \in Nat /\ slack <= slack2
  <2>1. PoolLaws!Tick
    BY DEF Tick, PoolLaws!Tick, PoolLaws!poolVars, PoolLaws!shareVars, PoolLaws!indexVars,
       PoolLaws!loanVars, PoolLaws!modelVars, poolVars, pooledVars
  <2>2. /\ before \in Nat /\ after \in Nat /\ before <= after
        /\ PoolLaws!Unit(PoolLaws!CurrentIndex) \in Nat
        /\ PoolLaws!Unit(PoolLaws!CurrentIndex') \in Nat
        /\ PoolLaws!Unit(PoolLaws!CurrentIndex) <= PoolLaws!Unit(PoolLaws!CurrentIndex')
    BY <1>1, <1>6, <2>1, PoolParameters, PoolLaws!TickDebt
  <2>3. QED  BY <2>2
<1>8. /\ Pool!RoundingSlack = slack /\ Pool!RoundingSlack' = slack2
      /\ Pool!currentDebt(o) = before /\ Pool!currentDebt(active_solver_order[u])' = after
  <2>1. \A index : Pool!MulDivUp(index, 1, RAY) = PoolLaws!Unit(index)
    BY Zenon DEF PoolLaws!Unit, Pool!MulDivUp, PoolLaws!MulDivUp, Pool!MulDiv, PoolLaws!MulDiv
  <2>2. /\ Pool!CurrentIndex = PoolLaws!CurrentIndex
        /\ Pool!CurrentIndex' = PoolLaws!CurrentIndex'
    BY DEF Pool!CurrentIndex, PoolLaws!CurrentIndex, Pool!MulDiv, PoolLaws!MulDiv
  <2>3. Pool!RoundingSlack = slack /\ Pool!RoundingSlack' = slack2
    BY <2>1, <2>2 DEF Pool!RoundingSlack
  <2>4. Pool!currentDebt(o) = before /\ Pool!currentDebt(o)' = after
    BY <2>2 DEF Pool!currentDebt, PoolLaws!currentDebt, Pool!Owed, PoolLaws!Owed,
       Pool!MulDiv, PoolLaws!MulDiv
  <2>5. Pool!currentDebt(active_solver_order[u])' = Pool!currentDebt(o)'
    <3>1. active_solver_order'[u] = o
      BY <1>2, <1>3
    <3>2. QED  BY <3>1 DEF Pool!currentDebt
  <2>6. QED  BY <2>3, <2>4, <2>5
<1>9. copy <= before + slack
  BY <1>3, <1>4, <1>8 DEF Agrees
<1> HIDE DEF copy, before, after, slack, slack2
<1>10. copy <= after + slack2
  BY <1>6, <1>7, <1>9
<1>11. QED  BY <1>5, <1>8, <1>10

\* Only the clock's own step moves the clock.
LEMMA OnlyTickMovesTime == [Next]_vars => Tick \/ now' = now
<1>1. UserCall => now' = now
  <2>1. ASSUME NEW user \in Users, NEW amount \in Amounts, deposit(user, amount) PROVE now' = now
    BY <2>1 DEF deposit, Vault!deposit_for, Vault!envVars
  <2>2. ASSUME NEW user \in Users, NEW amount \in Amounts, withdraw(user, amount) PROVE now' = now
    BY <2>2 DEF withdraw, Vault!withdraw_for, Vault!envVars
  <2>3. ASSUME NEW user \in Users, NEW amount \in Amounts, NEW t, OpenIntent(user, amount, t)
        PROVE  now' = now
    BY <2>3 DEF OpenIntent, Vault!open_solver_borrow_for, Vault!envVars
  <2>4. ASSUME NEW user \in Users, NEW amount \in Amounts, borrow(user, amount) PROVE now' = now
    <3>1. ASSUME NEW o, BorrowMoreFromPool(user, o, amount) PROVE now' = now
      BY <3>1 DEF BorrowMoreFromPool, Pool!increaseClaim
    <3>2. BorrowFromPool(user, amount) => now' = now
      BY DEF BorrowFromPool, Pool!fundClaim
    <3>3. QED  BY <2>3, <2>4, <3>1, <3>2 DEF borrow
  <2>5. ASSUME NEW user \in Users, NEW amount \in Amounts, repay(user, amount) PROVE now' = now
    BY <2>5 DEF repay, repay_claim, Vault!repay_claim_for, Vault!envVars
  <2>6. QED  BY <2>1, <2>2, <2>3, <2>4, <2>5, Zenon DEF UserCall, open
<1>2. ClaimCall => now' = now
  <2>1. ASSUME NEW o \in OrderIds, cancel_claim(o) PROVE now' = now
    BY <2>1 DEF cancel_claim, Vault!cancel_solver_borrow_for, Vault!envVars
  <2>2. ASSUME NEW o \in OrderIds, fill_with_pool(o) PROVE now' = now
    BY <2>2 DEF fill_with_pool, Pool!fundClaim
  <2>3. ASSUME NEW o \in OrderIds, NEW solver, confirm_fill(o, solver) PROVE now' = now
    BY <2>3 DEF confirm_fill, Vault!mark_solver_borrow_filled, Vault!envVars
  <2>4. ASSUME NEW o \in OrderIds, NEW solver, liquidate_claim(o, solver) PROVE now' = now
    BY <2>4 DEF liquidate_claim, LiquidatePoolClaim, LiquidateSolverClaim,
       Vault!liquidate_pool_claim_for, Vault!liquidate_claim_for, Vault!SeizePosition, Vault!envVars
  <2>5. ASSUME NEW o \in OrderIds, NEW holder, transfer_claim(o, holder) PROVE now' = now
    BY <2>5 DEF transfer_claim
  <2>6. ASSUME NEW o \in OrderIds, NEW amount, repay_claim(o, amount) PROVE now' = now
    BY <2>6 DEF repay_claim, Vault!repay_claim_for, Vault!envVars
  <2>7. QED  BY <2>1, <2>2, <2>3, <2>4, <2>5, <2>6, Zenon DEF ClaimCall
<1>3. AdminCall => now' = now
  BY DEF AdminCall, set_destination_settler, set_liquidity_pool, seed_liquidity_pool, Pool!deposit
<1>4. DirectCall => now' = now
  BY DEF DirectCall, Pool!LPCall, Pool!deposit, Pool!mint, Pool!withdraw, Pool!redeem,
     Pool!TakeOut, Pool!cooldown, Pool!OwnerCall, Pool!apply_rate_model, Pool!set_rate_model,
     Vault!set_param, Vault!apply_param, Vault!envVars
<1>5. SetPrice \/ UNCHANGED vars => now' = now
  BY DEF SetPrice, Vault!SetPrice, vars
<1>6. QED  BY <1>1, <1>2, <1>3, <1>4, <1>5 DEF Next

LEMMA DebtsStep == ProtocolInv /\ DebtsAgree /\ [Next]_vars => DebtsAgree'
<1>1. DebtsAgree <=> \A u \in Users : Agrees(u)
  BY DEF DebtsAgree, Agrees
<1>2. DebtsAgree' <=> \A u \in Users : Agrees(u)'
  BY DEF DebtsAgree, Agrees
<1>3. SUFFICES ASSUME ProtocolInv, [Next]_vars, NEW u \in Users, Agrees(u) PROVE Agrees(u)'
  BY <1>1, <1>2
<1>4. CASE Tick
  BY <1>3, <1>4, TickAgrees
<1>5. CASE now' = now
  BY <1>3, <1>5, EveryAccountStep DEF AccountStep
<1>6. QED  BY <1>3, <1>4, <1>5, OnlyTickMovesTime

\* The vault's copy of a pool claim's debt is never ahead of the pool's own figure, and
\* equal to it, up to the rounding of scaled debt, whenever the account was just touched.
THEOREM DebtsAlwaysAgree == Spec => []DebtsAgree
<1>1. Init => DebtsAgree
  BY DEF Init, Vault!Init, DebtsAgree, OwesThisPool, Vault!ActiveIs
<1>2. QED
  BY <1>1, DebtsStep, ProtocolInvariant, PTL DEF Spec

\* No call of anybody, through any of the three contracts, makes an account unhealthy:
\* only the price, time and the owner's parameters do.
THEOREM HealthIsKept == Spec => HealthKept
<1> DEFINE Safe ==
             now' = now /\ price' = price /\ params' = params =>
               \A u \in Users :
                 Vault!Healthy(positions[u].collateral, DebtDue(u)) =>
                   Vault!Healthy(positions'[u].collateral, DebtDue(u)')
<1>1. ProtocolInv /\ [Next]_vars => Safe
  BY EveryAccountStep DEF AccountStep, StaysHealthy
<1>2. QED
  BY <1>1, ProtocolInvariant, PTL DEF Spec, HealthKept
=============================================================================
