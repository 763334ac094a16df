---------------------------- MODULE AyniProtocol -----------------------------
(***************************************************************************)
(* The router, src/AyniProtocol.sol, over one market: one vault            *)
(* (AyniVault) and its liquidity pool (AyniLiquidityPool).  A call to the  *)
(* router is one transaction across all three contracts, so each action    *)
(* conjoins the router's own step with the steps of the operators it calls *)
(* there.  A claim is a debt position; its holder is the pool or whoever   *)
(* filled it, and is paid by its repayment or liquidation.  As in          *)
(* AyniVault, x_bug... is x with a plausible mistake.                      *)
(***************************************************************************)
EXTENDS AyniMath

CONSTANTS
  Users,             \* borrowers
  Solvers,           \* accounts that fill, hold and liquidate claims
  Owner,             \* the protocol's owner: treasury and first provider
  Settler,           \* the deployed AyniDestinationSettler
  ThisPool,          \* the market's pool, modelled by AyniLiquidityPool
  AnotherPool,       \* a second deployment, which nobody funds
  Pools, Settlers,   \* what the administrators may appoint
  NoUser,            \* address(0)
  NoOrder,           \* bytes32(0)
  MaxNonce,          \* bound on the orders of one user
  FillWindow,        \* DEFAULT_BORROW_FILL_WINDOW
  Amounts, BorrowWindows, InitialWallet, MaxPrincipal, FeeChoices, ParamChoices,
  Prices, CollateralUnit, DebtUnit, OracleUnit,
  SeedAmounts,       \* assets the administrators lend to the pool
  ShareAmounts, MaxShares, RAY, CooldownPeriod, WithdrawWindow,
  InitialModel, Models, Unlimited,
  SecondsPerYear, ConfigDelay, MaxTime

Holders == Solvers \cup {Owner, ThisPool, AnotherPool}

ASSUME RouterAssumption ==
  /\ IsFiniteSet(Users) /\ IsFiniteSet(Solvers)
  /\ MaxNonce \in Nat /\ FillWindow \in Nat \ {0} /\ SeedAmounts \subseteq Nat
  /\ NoUser \notin Users \cup Holders \cup {Settler}
  /\ ThisPool # AnotherPool /\ {ThisPool, AnotherPool} \cap Solvers = {}
  /\ Pools \subseteq {ThisPool, AnotherPool} /\ NoUser \notin Settlers

\* keccak256 over the borrower, the borrower's nonce and more: ids are unique.
OrderIds == Users \X (1 .. MaxNonce)

VARIABLES
  claims,               \* _debt_positions
  claim_holder, claim_pools, order_nonce,
  liquidity_pool,       \* _liquidity_pools of the market
  destination_settler

\* The vault's and the pool's variables, under their own names.
VARIABLES
  positions, active_solver_order, solver_orders, total_collateral, total_debt,
  params, pending, paused, wallet, vault_collateral, vault_usdc, price
VARIABLES
  balanceOf, totalSupply, allowance, liquidityIndex, currentBorrowRate, lastIndexUpdate,
  loans, totalScaledDebt, totalPrincipalOut, rateModel, pendingRateModel,
  reserveBalance, cooldowns, cash
VARIABLE now

Vault == INSTANCE AyniVault WITH
           Recipients <- Holders, StrayUsdc <- 0, RouterAnswers <- {}
Pool == INSTANCE AyniLiquidityPool WITH
          LPs <- {Owner}, Borrowers <- Users, LoanAmounts <- {}, Approvals <- {}

\* What the vault and the pool assume of their own parameters.
ASSUME MarketAssumption ==
  /\ NoOrder \notin OrderIds
  /\ Amounts \subseteq Nat /\ BorrowWindows \subseteq Nat /\ Prices \subseteq Nat
  /\ ShareAmounts \subseteq Nat /\ ParamChoices \subseteq Vault!ParamNames \X Nat
  /\ InitialWallet \in Nat /\ MaxPrincipal \in Nat /\ MaxShares \in Nat /\ Unlimited \in Nat
  /\ CollateralUnit \in Nat \ {0} /\ DebtUnit \in Nat \ {0} /\ OracleUnit \in Nat \ {0}
  /\ SecondsPerYear \in Nat \ {0} /\ ConfigDelay \in Nat \ {0} /\ RAY \in Nat \ {0}
  /\ CooldownPeriod \in Nat /\ WithdrawWindow \in Nat /\ MaxTime \in Nat
  /\ InitialModel \in Pool!RateModels /\ Pool!ValidModel(InitialModel)
  /\ Models \subseteq Pool!RateModels

claimVars == <<claims, claim_holder, claim_pools, order_nonce>>
configVars == <<liquidity_pool, destination_settler>>
routerVars == <<claimVars, configVars>>
tokenVars == <<wallet, vault_collateral, vault_usdc>>
riskVars == <<params, pending, paused>>
vaultVars == <<positions, active_solver_order, solver_orders, total_collateral, total_debt,
               tokenVars, riskVars, price>>
pooledVars == <<balanceOf, totalSupply, allowance, liquidityIndex, currentBorrowRate,
                lastIndexUpdate, loans, totalScaledDebt, totalPrincipalOut, rateModel,
                pendingRateModel, reserveBalance, cooldowns>>
poolVars == <<pooledVars, cash>>
vars == <<routerVars, vaultVars, poolVars, now>>

NoClaim == [status |-> "NONE", borrower |-> NoUser, principal |-> 0,
            protocol_fee_bps |-> 0, fill_deadline |-> 0, filled_at |-> 0]

Init ==
  /\ Vault!Init /\ Pool!Init
  /\ claims = [o \in OrderIds |-> NoClaim]
  /\ claim_holder = [o \in OrderIds |-> NoUser]
  /\ claim_pools = [o \in OrderIds |-> NoUser]
  /\ order_nonce = [u \in Users |-> 0]
  /\ liquidity_pool = NoUser /\ destination_settler = NoUser
-----------------------------------------------------------------------------
(* What the vault and the views learn from the router *)

ClaimIs(o, status) == o # NoOrder /\ claims[o].status = status

\* claim_debt_state
claim_debt_state(o) ==
  IF /\ ClaimIs(o, "FILLED") /\ claim_pools[o] # NoUser
     /\ claim_holder[o] = claim_pools[o]
  THEN [managed |-> TRUE, debt |-> Pool!currentDebt(o)]
  ELSE [managed |-> FALSE, debt |-> 0]

Sync(u) == claim_debt_state(active_solver_order[u])

\* _liveDebt, which the vault's views user_debt and health_factor show: the pool's
\* figure for a pool claim, otherwise the stored debt without the interest due.
LiveDebt(u) ==
  IF Vault!Managed(u, Sync(u)) THEN Sync(u).debt ELSE positions[u].debt

\* availableLiquidity() of the market's pool; the other deployment is empty.
Available == IF liquidity_pool = ThisPool THEN Pool!availableLiquidity ELSE 0

NextOrder(u) == <<u, order_nonce[u] + 1>>

Register_bugNonceTwice(u, claim) ==
  /\ claims' = [claims EXCEPT ![NextOrder(u)] = claim]
  /\ order_nonce' = [order_nonce EXCEPT ![u] = @ + 2]
Register(u, claim) ==
  /\ claims' = [claims EXCEPT ![NextOrder(u)] = claim]
  /\ order_nonce' = [order_nonce EXCEPT ![u] = @ + 1]

SetClaim(o, claim) == claims' = [claims EXCEPT ![o] = claim]

Hold(o, holder, pool) ==
  /\ claim_holder' = [claim_holder EXCEPT ![o] = holder]
  /\ claim_pools' = [claim_pools EXCEPT ![o] = pool]

Filled_bugUndated(claim) == [claim EXCEPT !.status = "FILLED"]
Filled(claim) == [claim EXCEPT !.status = "FILLED", !.filled_at = now]
-----------------------------------------------------------------------------
(* Collateral *)

deposit(user, amount) ==
  Vault!deposit_for(user, amount, Sync(user)) /\ UNCHANGED <<routerVars, poolVars>>

withdraw(user, amount) ==
  Vault!withdraw_for(user, amount, Sync(user)) /\ UNCHANGED <<routerVars, poolVars>>
-----------------------------------------------------------------------------
(* Opening and filling claims *)

\* An OPEN claim for the fillers: open() and borrow()'s last resort.
OpenIntent(user, amount, deadline) ==
  LET fee_bps == params["borrow_fee_bps"]
  IN  /\ order_nonce[user] < MaxNonce
      /\ destination_settler # NoUser
      /\ Register(user, [status |-> "OPEN", borrower |-> user, principal |-> amount,
                         protocol_fee_bps |-> fee_bps, fill_deadline |-> deadline,
                         filled_at |-> 0])
      /\ Vault!open_solver_borrow_for(NextOrder(user), user, amount,
                                      amount + MulDiv(amount, fee_bps, Vault!BPS),
                                      deadline, fee_bps, Sync(user))
      /\ UNCHANGED <<claim_holder, claim_pools, configVars, poolVars>>

open(user, amount, deadline) == OpenIntent(user, amount, deadline)

\* _borrow_from_pool: the vault's open_solver_borrow_for and, after the pool
\* has paid, mark_solver_borrow_filled_with_debt, in one transaction.
BorrowFromPool(user, amount) ==
  LET o == NextOrder(user)
      order == Vault!OpenedOrder(user, amount, amount, now + 1, 0)
  IN  /\ order_nonce[user] < MaxNonce
      /\ Vault!OpenGuard(o, user, amount, amount, now + 1, Sync(user))
      /\ Pool!fundClaim(o, amount, user)
      /\ Vault!SetPosition(user, positions[user].collateral, amount)
      /\ Vault!MoveTotals(0, Vault!AccrualDelta(user, Sync(user)) + amount)
      /\ Vault!SetActive(user, o)
      /\ Vault!SetOrder(o, [order EXCEPT !.status = "FILLED", !.filled_at = now])
      /\ Register(user, Filled([status |-> "OPEN", borrower |-> user, principal |-> amount,
                                protocol_fee_bps |-> 0, fill_deadline |-> now + 1,
                                filled_at |-> 0]))
      /\ Hold(o, liquidity_pool, liquidity_pool)
      /\ UNCHANGED <<configVars, tokenVars, riskVars, price>>

\* _borrow_more_from_pool: the vault first brings the debt up to the pool's.
BorrowMoreFromPool(user, o, amount) ==
  /\ claims[o].principal + amount <= MaxPrincipal
  /\ claim_pools[o] = liquidity_pool
  /\ Vault!increase_solver_borrow_for(o, user, amount, Sync(user))
  /\ Pool!increaseClaim(o, amount)
  /\ SetClaim(o, [claims[o] EXCEPT !.principal = @ + amount])
  /\ UNCHANGED <<claim_holder, claim_pools, order_nonce, configVars>>

\* The user's active claim is held by the pool the market has now.
OwesThePool(user) ==
  LET o == active_solver_order[user]
  IN  liquidity_pool # NoUser /\ ClaimIs(o, "FILLED") /\ claim_holder[o] = liquidity_pool

borrow(user, amount) ==
  /\ liquidity_pool = ThisPool => Pool!Solvent(cash)
  /\ \/ /\ OwesThePool(user)
        /\ Available >= amount
        /\ BorrowMoreFromPool(user, active_solver_order[user], amount)
     \/ /\ ~OwesThePool(user)
        /\ liquidity_pool # NoUser /\ Available >= amount
        /\ BorrowFromPool(user, amount)
     \/ /\ ~OwesThePool(user)
        /\ liquidity_pool = NoUser \/ Available < amount
        /\ OpenIntent(user, amount, now + FillWindow)

cancel_claim(o) ==
  /\ ClaimIs(o, "OPEN")
  /\ SetClaim(o, [claims[o] EXCEPT !.status = "CANCELLED"])
  /\ Vault!cancel_solver_borrow_for(o, claims[o].borrower)
  /\ UNCHANGED <<claim_holder, claim_pools, order_nonce, configVars, poolVars>>

\* AyniDestinationSettler.fill pays the recipient and calls confirm_fill; a
\* settler that has been replaced is refused.  The fill data it passes on are
\* the ones the order committed to, or the call reverts.
confirm_fill(o, solver) ==
  /\ destination_settler = Settler
  /\ ClaimIs(o, "OPEN")
  /\ now <= claims[o].fill_deadline
  /\ Hold(o, solver, claim_pools[o])
  /\ SetClaim(o, Filled(claims[o]))
  /\ Vault!mark_solver_borrow_filled(o, solver_orders[o].debt_amount,
                                     Sync(claims[o].borrower))
  /\ UNCHANGED <<order_nonce, configVars, poolVars>>

\* Anyone may have the pool fill an open claim, for its principal alone.
fill_with_pool(o) ==
  /\ ClaimIs(o, "OPEN")
  /\ now <= claims[o].fill_deadline
  /\ liquidity_pool = ThisPool
  /\ Pool!fundClaim(o, claims[o].principal, claims[o].borrower)
  /\ Vault!mark_solver_borrow_filled(o, claims[o].principal, Sync(claims[o].borrower))
  /\ Hold(o, liquidity_pool, liquidity_pool)
  /\ SetClaim(o, Filled(claims[o]))
  /\ UNCHANGED <<order_nonce, configVars>>

\* The caller is the holder, and a pool never calls.  A claim may be given to a
\* pool, which does not make it a pool claim.
transfer_claim(o, new_holder) ==
  /\ ClaimIs(o, "FILLED")
  /\ claim_holder[o] \in Solvers
  /\ claim_holder' = [claim_holder EXCEPT ![o] = new_holder]
  /\ UNCHANGED <<claims, claim_pools, order_nonce, configVars, vaultVars, poolVars, now>>
-----------------------------------------------------------------------------
(* Closing claims *)

\* recipient == _claim_pools[order_id]
PoolClaim_bugMarketPool(o) == claim_holder[o] # NoUser /\ claim_holder[o] = liquidity_pool
PoolClaim(o) == claim_holder[o] # NoUser /\ claim_holder[o] = claim_pools[o]
SolverClaim(o) == claim_holder[o] # NoUser /\ ~PoolClaim(o)

CloseClaim_bugKeepsHolder(o, status) ==
  /\ SetClaim(o, [claims[o] EXCEPT !.status = status])
  /\ UNCHANGED <<claim_holder, claim_pools, order_nonce>>

CloseClaim(o, status) ==
  /\ SetClaim(o, [claims[o] EXCEPT !.status = status])
  /\ Hold(o, NoUser, NoUser)
  /\ UNCHANGED order_nonce

\* Debt tokens paid to a holder; only the pool's own are followed.
Receive(holder, amount) ==
  /\ cash' = cash + IF holder = ThisPool THEN amount ELSE 0
  /\ UNCHANGED pooledVars

repay_claim(o, amount) ==
  LET user == claims[o].borrower
      actual == Vault!RepaidAmount(user, amount, Sync(user))
  IN  /\ ClaimIs(o, "FILLED")
      /\ Vault!repay_claim_for(o, user, amount, Sync(user))
      /\ \/ PoolClaim(o) /\ Pool!settleRepayment(o, actual)
         \/ /\ SolverClaim(o)
            /\ Receive(claim_holder[o],
                       actual - MulDiv(actual, claims[o].protocol_fee_bps, Vault!BPS))
      /\ IF actual = Vault!AccruedDebt(user, Sync(user))
           THEN CloseClaim(o, "REPAID")
           ELSE UNCHANGED claimVars
      /\ UNCHANGED configVars

\* repay: the caller's own active claim, of any holder.
repay(user, amount) ==
  /\ ClaimIs(active_solver_order[user], "FILLED")
  /\ repay_claim(active_solver_order[user], amount)

DebtToCover_bugVaultCopy(o) == positions[claims[o].borrower].debt
DebtToCover(o) == Pool!currentDebt(o)

\* _claim_pools is deleted before the vault is called, so the vault's
\* _accrue is told "not managed" and judges the health of a pool claim by its
\* own stored debt and its own interest rate; the pool is paid its own figure.
LiquidatePoolClaim(o, liquidator) ==
  /\ ClaimIs(o, "FILLED") /\ PoolClaim(o)
  /\ DebtToCover(o) > 0
  /\ Vault!liquidate_pool_claim_for(o, liquidator, [managed |-> FALSE, debt |-> 0])
  /\ Pool!settleLiquidation(o, DebtToCover(o))
  /\ CloseClaim(o, "LIQUIDATED")
  /\ UNCHANGED configVars

LiquidateSolverClaim(o) ==
  /\ ClaimIs(o, "FILLED") /\ SolverClaim(o)
  /\ Vault!liquidate_claim_for(o, claim_holder[o], Owner, [managed |-> FALSE, debt |-> 0])
  /\ CloseClaim(o, "LIQUIDATED")
  /\ UNCHANGED <<configVars, poolVars>>

liquidate_claim(o, liquidator) == LiquidatePoolClaim(o, liquidator) \/ LiquidateSolverClaim(o)
-----------------------------------------------------------------------------
(* Administration of the market, by the owner and whoever is_admin names:    *)
(* module AyniMarkets has that list                                           *)

set_destination_settler(settler) ==
  /\ destination_settler' = settler
  /\ UNCHANGED <<claimVars, liquidity_pool, vaultVars, poolVars, now>>

\* Claims of the pool that is replaced stay with it.
set_liquidity_pool(pool) ==
  /\ liquidity_pool' = pool
  /\ UNCHANGED <<claimVars, destination_settler, vaultVars, poolVars, now>>

\* The shares go to the owner.  Seeding the other deployment is left out.
seed_liquidity_pool(assets) ==
  /\ liquidity_pool = ThisPool
  /\ Pool!deposit(assets, Owner)
  /\ UNCHANGED <<routerVars, vaultVars>>
-----------------------------------------------------------------------------
(* The system *)

UserCall ==
  \E user \in Users, amount \in Amounts :
    \/ deposit(user, amount) \/ withdraw(user, amount)
    \/ borrow(user, amount) \/ repay(user, amount)
    \/ \E window \in BorrowWindows : open(user, amount, now + window)

ClaimCall ==
  \E o \in OrderIds :
    \/ cancel_claim(o)
    \/ fill_with_pool(o)
    \/ \E solver \in Solvers : confirm_fill(o, solver) \/ liquidate_claim(o, solver)
    \/ \E holder \in Solvers \cup {ThisPool} : transfer_claim(o, holder)
    \/ \E amount \in Amounts : repay_claim(o, amount)

AdminCall ==
  \/ \E settler \in Settlers : set_destination_settler(settler)
  \/ \E pool \in Pools : set_liquidity_pool(pool)
  \/ \E assets \in SeedAmounts :
       /\ totalSupply + Pool!convertToShares(assets) <= MaxShares
       /\ seed_liquidity_pool(assets)

\* Calls that reach the vault or the pool without the router.
DirectCall ==
  \/ Pool!LPCall /\ UNCHANGED <<routerVars, vaultVars>>
  \/ Pool!OwnerCall /\ UNCHANGED <<routerVars, vaultVars>>
  \/ /\ \/ \E choice \in ParamChoices : Vault!set_param(choice[1], choice[2])
        \/ \E p \in Vault!ParamNames : Vault!apply_param(p)
     /\ UNCHANGED <<routerVars, poolVars>>

Tick == now < MaxTime /\ now' = now + 1 /\ UNCHANGED <<routerVars, vaultVars, poolVars>>
SetPrice == Vault!SetPrice /\ UNCHANGED <<routerVars, poolVars>>

Next == UserCall \/ ClaimCall \/ AdminCall \/ DirectCall \/ Tick \/ SetPrice

Spec == Init /\ [][Next]_vars
-----------------------------------------------------------------------------
(* Properties *)

Borrower(o) == o[1]

Claims == [status : Vault!Statuses, borrower : Users \cup {NoUser}, principal : Nat,
           protocol_fee_bps : 0 .. Vault!BPS, fill_deadline : Nat, filled_at : Nat]

\* The router's own variables keep their types, and a user's claims are those of
\* the nonces handed out so far: no id is skipped and none is used twice.
TypeOK ==
  /\ claims \in [OrderIds -> Claims]
  /\ claim_holder \in [OrderIds -> Holders \cup {NoUser}]
  /\ claim_pools \in [OrderIds -> {NoUser, ThisPool, AnotherPool}]
  /\ order_nonce \in [Users -> 0 .. MaxNonce]
  /\ \A o \in OrderIds : claims[o].status # "NONE" <=> o[2] <= order_nonce[o[1]]
  /\ liquidity_pool \in Pools \cup {NoUser}
  /\ destination_settler \in Settlers \cup {NoUser}

\* Router and vault each keep a record of every claim and change it in calls
\* of their own; after every transaction the two records agree.
StatusMirror ==
  \A o \in OrderIds :
    /\ claims[o].status = solver_orders[o].status
    /\ claims[o].borrower = solver_orders[o].borrower
    /\ claims[o].principal = solver_orders[o].principal
    /\ claims[o].filled_at = solver_orders[o].filled_at

\* Exactly the filled claims have somebody to be paid, and a claim the router
\* routes to a pool is held by that pool: repayments and collateral of a live
\* claim never go to address(0), those of a closed one to nobody.
HolderIffFilled ==
  \A o \in OrderIds :
    /\ claim_holder[o] # NoUser <=> claims[o].status = "FILLED"
    /\ claim_pools[o] # NoUser => claim_holder[o] = claim_pools[o]

\* The pool has a live loan exactly for the claims the router routes to it,
\* whatever pool the market has by now: none is settled twice, none forgotten.
LoansAreClaims ==
  \A o \in OrderIds :
    /\ loans[o].active <=> claim_pools[o] = ThisPool
    /\ loans[o].active => loans[o].borrower = claims[o].borrower

\* The claim of the pool that locks the user's account.
OwesThisPool(u) == Vault!ActiveIs(u, "FILLED") /\ claim_pools[active_solver_order[u]] = ThisPool

\* The debt the next call that touches the account will charge it with.
DebtDue(u) == Vault!AccruedDebt(u, Sync(u))

\* For a pool claim the vault's debt is a copy of the pool's, which only grows:
\* right after an account was touched the two are equal up to the rounding of
\* scaled debt, and the copy is never ahead of the original.
DebtsAgree ==
  \A u \in Users :
    OwesThisPool(u) =>
      LET original == Pool!currentDebt(active_solver_order[u])
          copy == positions[u].debt
      IN  /\ copy <= original + Pool!RoundingSlack
          /\ positions[u].last_update = now => original <= copy + Pool!RoundingSlack

\* Only the price, time and the owner's parameters make an account unhealthy:
\* no call of anybody, through any of the three contracts, does.
HealthKept ==
  [][now' = now /\ price' = price /\ params' = params =>
       \A u \in Users :
         Vault!Healthy(positions[u].collateral, DebtDue(u)) =>
           Vault!Healthy(positions'[u].collateral, DebtDue(u)')]_vars

\* Nobody but the providers takes value out of the pool: under the router every
\* claim is funded, repaid and liquidated at the full debt of that moment.
LendersKeepWorth ==
  [][now' = now /\ totalSupply' = totalSupply =>
       Pool!Worth' >= Pool!Worth - Pool!RoundingSlack]_vars

\* Across the three contracts, which each see a part of a claim, the claims
\* still live the one life the ledger allows them.
Ledger == INSTANCE AyniClaimLedger WITH
            Claims <- OrderIds, BorrowerOf <- Borrower,
            Traders <- Solvers, Pools <- {ThisPool}, Nobody <- NoUser,
            status <- [o \in OrderIds |-> claims[o].status], holder <- claim_holder

ImplementsLedger == Ledger!Spec

\* "position healthy" (AyniVaultCore.sol:383): a claim is liquidated only if
\* the account's health factor, as the views show it, is below one.
OnlyUnhealthyIsLiquidated ==
  [][\A o \in OrderIds :
       claims[o].status = "FILLED" /\ claims'[o].status = "LIQUIDATED" =>
         LET u == claims[o].borrower
         IN  ~Vault!Healthy(positions[u].collateral, LiveDebt(u))]_vars
=============================================================================
