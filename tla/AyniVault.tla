----------------------------- MODULE AyniVault ------------------------------
(***************************************************************************)
(* One collateral vault: src/AyniVaultCore.sol.                            *)
(*                                                                         *)
(* A call is one transaction: it runs alone and a failing require undoes   *)
(* it, so every external function is one action whose conjuncts are its    *)
(* require statements, in the code's order, followed by its assignments.   *)
(* When an account's debt is brought up to date (_accrue) the vault asks   *)
(* its router, claim_debt_state, whether a liquidity pool holds the claim; *)
(* the answer is the argument `sync' of the operators below.  Module       *)
(* AyniProtocol supplies the router's real answers.                        *)
(*                                                                         *)
(* A definition named x_bug... is x with a mistake that is easy to make;   *)
(* it is used only to check that the properties notice it.                 *)
(***************************************************************************)
EXTENDS AyniMath

CONSTANTS
  Users,            \* accounts that deposit and borrow
  Recipients,       \* accounts that receive seized collateral and fees
  OrderIds,         \* ids of solver borrow orders
  NoOrder,          \* bytes32(0)
  NoUser,           \* address(0)
  InitialWallet,    \* collateral tokens each user starts with
  StrayUsdc,        \* debt tokens sent to the vault by mistake
  Amounts,          \* amounts users choose from
  FeeChoices,       \* protocol fees (bps) the router attaches to an order
  RouterAnswers,    \* answers of claim_debt_state, for the vault on its own
  ParamChoices,     \* <<parameter, value>> pairs the owner schedules
  Prices,           \* oracle answers; 0 stands for a get_price that reverts
  MaxTime,          \* bound on block.timestamp
  MaxPrincipal,     \* bound on an order's principal, which repaying and
                    \* borrowing again would raise for ever
  BorrowWindows,    \* how long an order may stay open
  ConfigDelay, SecondsPerYear,
  CollateralUnit, DebtUnit, OracleUnit   \* 10 ^ decimals of each token

BPS == 10000

ParamNames == {"max_ltv", "liq_threshold", "liq_penalty", "borrow_fee_bps",
               "annual_interest_bps", "min_collateral"}

\* Ids and amounts are what the code can be called with; only their types matter.
ASSUME UsersAssumption ==
  IsFiniteSet(Users) /\ IsFiniteSet(Recipients) /\ NoUser \notin Users
ASSUME OrderAssumption == NoOrder \notin OrderIds
ASSUME AmountAssumption ==
  /\ InitialWallet \in Nat /\ StrayUsdc \in Nat
  /\ Amounts \subseteq Nat /\ FeeChoices \subseteq 0 .. BPS
  /\ RouterAnswers \subseteq [managed : BOOLEAN, debt : Nat]
  /\ ParamChoices \subseteq ParamNames \X Nat
ASSUME ClockAssumption ==
  /\ Prices \subseteq Nat /\ MaxTime \in Nat /\ MaxPrincipal \in Nat /\ BorrowWindows \subseteq Nat
  /\ ConfigDelay \in Nat \ {0} /\ SecondsPerYear \in Nat \ {0}
ASSUME UnitAssumption ==
  /\ CollateralUnit \in Nat \ {0} /\ DebtUnit \in Nat \ {0}
  /\ OracleUnit \in Nat \ {0}

VARIABLES
  positions,            \* user -> collateral, debt, last_update
  active_solver_order,  \* user -> the order that locks the account, or NoOrder
  solver_orders,        \* order id -> SolverBorrowOrder
  total_collateral, total_debt,
  params, pending,      \* risk parameters and their scheduled changes
  paused,
  wallet,               \* collateral tokens of the accounts outside the vault
  vault_collateral,     \* collateral tokens the vault holds
  vault_usdc,           \* debt tokens the vault holds
  price, now            \* the oracle's answer and block.timestamp

bookVars == <<positions, active_solver_order, solver_orders, total_collateral, total_debt>>
tokenVars == <<wallet, vault_collateral, vault_usdc>>
adminVars == <<params, pending, paused>>
envVars == <<price, now>>
vars == <<bookVars, tokenVars, adminVars, envVars>>

Accounts == Users \cup Recipients
Statuses == {"NONE", "OPEN", "FILLED", "CANCELLED", "REPAID", "LIQUIDATED"}
Closed == {"CANCELLED", "REPAID", "LIQUIDATED"}
EmptyOrder == [borrower |-> NoUser, principal |-> 0, debt_amount |-> 0,
               protocol_fee_bps |-> 0, expiry |-> 0, filled_at |-> 0, status |-> "NONE"]
NoChange == [value |-> 0, execute_after |-> 0]

DefaultMinCollateral ==
  IF CollateralUnit <= 100 THEN 1 ELSE CollateralUnit \div 100

DefaultParams ==
  [p \in ParamNames |->
     CASE p = "max_ltv" -> 7000
       [] p = "liq_threshold" -> 8000
       [] p = "liq_penalty" -> 1000
       [] p = "borrow_fee_bps" -> 50
       [] p = "annual_interest_bps" -> 500
       [] p = "min_collateral" -> DefaultMinCollateral]

Init ==
  /\ positions = [u \in Users |-> [collateral |-> 0, debt |-> 0, last_update |-> 0]]
  /\ active_solver_order = [u \in Users |-> NoOrder]
  /\ solver_orders = [o \in OrderIds |-> EmptyOrder]
  /\ total_collateral = 0 /\ total_debt = 0
  /\ params = DefaultParams
  /\ pending = [p \in ParamNames |-> NoChange]
  /\ paused = FALSE
  /\ wallet = [a \in Accounts |-> IF a \in Users THEN InitialWallet ELSE 0]
  /\ vault_collateral = 0 /\ vault_usdc = StrayUsdc
  /\ price \in Prices
  /\ now = 1
-----------------------------------------------------------------------------
(* Debt and health *)

\* The account has an active order in this status.
ActiveIs(u, status) ==
  /\ active_solver_order[u] # NoOrder
  /\ solver_orders[active_solver_order[u]].status = status

Managed(u, sync) == ActiveIs(u, "FILLED") /\ sync.managed

\* Simple interest since the account was last touched.
Interest(u) ==
  LET weighted == positions[u].debt * params["annual_interest_bps"]
                    * (now - positions[u].last_update)
  IN  (weighted \div SecondsPerYear) \div BPS

\* The pool's figure is never asked for.
AccruedDebt_bugOwnRate(u, sync) == positions[u].debt + Interest(u)

\* What _accrue leaves in positions[u].debt.
AccruedDebt(u, sync) ==
  IF Managed(u, sync) THEN sync.debt ELSE positions[u].debt + Interest(u)

AccrualDelta_bugForgotten(u, sync) == 0

\* What _accrue adds to total_debt (negative when the router reports less).
AccrualDelta(u, sync) ==
  IF Managed(u, sync) THEN sync.debt - positions[u].debt ELSE Interest(u)

CollateralValue(amount) ==
  ((amount * price * DebtUnit) \div CollateralUnit) \div OracleUnit

\* _health_factor(...) >= MIN_HEALTH_FACTOR: nested rounding-down divisions
\* reach 1e18 exactly when the weighted value reaches the debt.
Healthy(collateral, debt) ==
  debt = 0 \/ CollateralValue(collateral) * params["liq_threshold"] >= debt * BPS

\* _health_factor reads the oracle, so a liquidation needs a price.
Unhealthy(collateral, debt) == price > 0 /\ ~Healthy(collateral, debt)

-----------------------------------------------------------------------------
(* Effects shared by the handlers *)

SetPosition(u, collateral, debt) ==
  positions' = [positions EXCEPT
                  ![u] = [collateral |-> collateral, debt |-> debt, last_update |-> now]]

\* The totals move by the code's own increments, never recomputed from positions.
MoveTotals(collateralDelta, debtDelta) ==
  /\ total_collateral' = total_collateral + collateralDelta
  /\ total_debt' = total_debt + debtDelta

SetOrder(o, order) == solver_orders' = [solver_orders EXCEPT ![o] = order]
SetActive(u, o) == active_solver_order' = [active_solver_order EXCEPT ![u] = o]

Credit_bugOverwrites(balances, account, amount) == [balances EXCEPT ![account] = amount]
Credit(balances, account, amount) == [balances EXCEPT ![account] = @ + amount]

PayOut(account, amount) ==
  /\ wallet' = Credit(wallet, account, amount)
  /\ vault_collateral' = vault_collateral - amount
-----------------------------------------------------------------------------
(* Collateral: deposit, deposit_for, withdraw, withdraw_for.  The _for forms  *)
(* differ only in who names the user.                                         *)

deposit_for(user, amount, sync) ==
  /\ ~paused
  /\ amount >= params["min_collateral"]
  /\ wallet[user] >= amount
  /\ SetPosition(user, positions[user].collateral + amount, AccruedDebt(user, sync))
  /\ MoveTotals(amount, AccrualDelta(user, sync))
  /\ PayOut(user, -amount)
  /\ UNCHANGED <<active_solver_order, solver_orders, vault_usdc, adminVars, envVars>>

WithdrawGuard_bugUnhealthy(user, left, debt) == left >= 0 /\ ~ActiveIs(user, "OPEN")
WithdrawGuard_bugUnlocked(user, left, debt) == left >= 0 /\ Healthy(left, debt)
WithdrawGuard(user, left, debt) ==
  left >= 0 /\ ~ActiveIs(user, "OPEN") /\ Healthy(left, debt)

\* Not stopped by `paused'.
withdraw_for(user, amount, sync) ==
  LET left == positions[user].collateral - amount
      debt == AccruedDebt(user, sync)
  IN  /\ amount > 0
      /\ WithdrawGuard(user, left, debt)
      /\ SetPosition(user, left, debt)
      /\ MoveTotals(-amount, AccrualDelta(user, sync))
      /\ PayOut(user, amount)
      /\ UNCHANGED <<active_solver_order, solver_orders, vault_usdc, adminVars, envVars>>
-----------------------------------------------------------------------------
(* Solver borrow orders *)

OpenedOrder(user, principal, debt_amount, expiry, fee_bps) ==
  [borrower |-> user, principal |-> principal, debt_amount |-> debt_amount,
   protocol_fee_bps |-> fee_bps, expiry |-> expiry, filled_at |-> 0, status |-> "OPEN"]

OpenGuard_bugSecondOrder(order_id, user, principal, debt_amount, expiry, sync) ==
  /\ ~paused /\ order_id # NoOrder /\ principal > 0 /\ expiry > now
  /\ AccruedDebt(user, sync) = 0
  /\ Healthy(positions[user].collateral, debt_amount)

\* The health test behind the message "exceeds max LTV" uses liq_threshold.
\* Nothing here looks at an earlier record under order_id: the router never
\* reuses an id, which its callers state as a precondition.
OpenGuard(order_id, user, principal, debt_amount, expiry, sync) ==
  /\ ~paused
  /\ order_id # NoOrder
  /\ principal > 0
  /\ expiry > now
  /\ active_solver_order[user] = NoOrder
  /\ AccruedDebt(user, sync) = 0
  /\ CollateralValue(positions[user].collateral) > 0
  /\ Healthy(positions[user].collateral, debt_amount)

open_solver_borrow_for(order_id, user, principal, debt_amount, expiry, fee_bps, sync) ==
  /\ OpenGuard(order_id, user, principal, debt_amount, expiry, sync)
  /\ SetPosition(user, positions[user].collateral, AccruedDebt(user, sync))
  /\ MoveTotals(0, AccrualDelta(user, sync))
  /\ SetActive(user, order_id)
  /\ SetOrder(order_id, OpenedOrder(user, principal, debt_amount, expiry, fee_bps))
  /\ UNCHANGED <<tokenVars, adminVars, envVars>>

cancel_solver_borrow_for_bugAnyStatus(order_id, user) ==
  /\ solver_orders[order_id].borrower = user
  /\ SetOrder(order_id, [solver_orders[order_id] EXCEPT !.status = "CANCELLED"])
  /\ SetActive(user, NoOrder)
  /\ UNCHANGED <<positions, total_collateral, total_debt, tokenVars, adminVars, envVars>>

\* Neither accrues nor looks at the expiry.
cancel_solver_borrow_for(order_id, user) ==
  LET order == solver_orders[order_id]
  IN  /\ order.borrower = user
      /\ order.status = "OPEN"
      /\ SetOrder(order_id, [order EXCEPT !.status = "CANCELLED"])
      /\ SetActive(user, NoOrder)
      /\ UNCHANGED <<positions, total_collateral, total_debt, tokenVars, adminVars, envVars>>

CoversFill_bugUnhealthy(user, principal, debt_amount) == debt_amount >= principal
CoversFill(user, principal, debt_amount) ==
  debt_amount >= principal /\ Healthy(positions[user].collateral, debt_amount)

\* mark_solver_borrow_filled passes the order's own debt_amount,
\* mark_solver_borrow_filled_with_debt the debt its caller names.
mark_solver_borrow_filled(order_id, debt_amount, sync) ==
  LET order == solver_orders[order_id]
      user == order.borrower
  IN  /\ order.status = "OPEN"
      /\ now <= order.expiry
      /\ active_solver_order[user] = order_id
      /\ AccruedDebt(user, sync) = 0
      /\ CoversFill(user, order.principal, debt_amount)
      /\ SetPosition(user, positions[user].collateral, debt_amount)
      /\ MoveTotals(0, AccrualDelta(user, sync) + debt_amount)
      /\ SetOrder(order_id, [order EXCEPT !.status = "FILLED", !.filled_at = now])
      /\ UNCHANGED <<active_solver_order, tokenVars, adminVars, envVars>>

increase_solver_borrow_for(order_id, user, debt_increase, sync) ==
  LET order == solver_orders[order_id]
      next_debt == AccruedDebt(user, sync) + debt_increase
  IN  /\ ~paused
      /\ debt_increase > 0
      /\ order.borrower = user
      /\ order.status = "FILLED"
      /\ active_solver_order[user] = order_id
      /\ Healthy(positions[user].collateral, next_debt)
      /\ SetPosition(user, positions[user].collateral, next_debt)
      /\ MoveTotals(0, AccrualDelta(user, sync) + debt_increase)
      /\ SetOrder(order_id, [order EXCEPT !.principal = @ + debt_increase,
                                          !.debt_amount = @ + debt_increase])
      /\ UNCHANGED <<active_solver_order, tokenVars, adminVars, envVars>>
-----------------------------------------------------------------------------
(* Closing a claim *)

RepaidAmount_bugUncapped(user, amount, sync) == amount
RepaidAmount(user, amount, sync) == Smaller(amount, AccruedDebt(user, sync))

\* The repayment that leaves no debt closes the order and hands back ALL the
\* user's collateral.
repay_claim_for(order_id, user, amount, sync) ==
  LET order == solver_orders[order_id]
      actual == RepaidAmount(user, amount, sync)
      remaining == AccruedDebt(user, sync) - actual
      released == IF remaining = 0 THEN positions[user].collateral ELSE 0
  IN  /\ amount > 0
      /\ order.borrower = user
      /\ order.status = "FILLED"
      /\ actual > 0
      /\ SetPosition(user, positions[user].collateral - released, remaining)
      /\ MoveTotals(-released, AccrualDelta(user, sync) - actual)
      /\ IF remaining = 0
           THEN /\ SetOrder(order_id, [order EXCEPT !.status = "REPAID"])
                /\ SetActive(user, NoOrder)
           ELSE UNCHANGED <<solver_orders, active_solver_order>>
      /\ PayOut(user, released)
      /\ UNCHANGED <<vault_usdc, adminVars, envVars>>

ProtocolProceeds(order_id) ==
  LET order == solver_orders[order_id]
  IN  MulDiv(positions[order.borrower].collateral, order.protocol_fee_bps, BPS)

\* The part both liquidations share: the account is emptied and unlocked.
SeizePosition(order_id, sync) ==
  LET order == solver_orders[order_id]
      user == order.borrower
      debt == AccruedDebt(user, sync)
      seized == positions[user].collateral
  IN  /\ order.status = "FILLED"
      /\ Unhealthy(seized, debt)
      /\ SetPosition(user, 0, 0)
      /\ MoveTotals(-seized, AccrualDelta(user, sync) - debt)
      /\ SetActive(user, NoOrder)
      /\ SetOrder(order_id, [order EXCEPT !.status = "LIQUIDATED"])
      /\ vault_collateral' = vault_collateral - seized
      /\ UNCHANGED <<vault_usdc, adminVars, envVars>>

liquidate_claim_for(order_id, holder, treasury, sync) ==
  LET seized == positions[solver_orders[order_id].borrower].collateral
      fee == ProtocolProceeds(order_id)
  IN  /\ SeizePosition(order_id, sync)
      /\ wallet' = Credit(Credit(wallet, treasury, fee), holder, seized - fee)

liquidate_pool_claim_for(order_id, recipient, sync) ==
  /\ SeizePosition(order_id, sync)
  /\ wallet' = Credit(wallet, recipient, positions[solver_orders[order_id].borrower].collateral)
-----------------------------------------------------------------------------
(* Owner: risk parameters behind a timelock, pause, recovery *)

SettableValue(p, v) ==
  CASE p = "liq_penalty" -> v <= 2000
    [] p = "borrow_fee_bps" -> v <= 500
    [] p = "annual_interest_bps" -> v <= 5000
    [] p = "min_collateral" -> v > 0
    [] OTHER -> TRUE

AppliableValue_bugLtvOnly(p, v) == p = "max_ltv" => v < params["liq_threshold"]

\* Only the apply_ functions of the two ratios compare them, with the other
\* ratio's value at that moment.
AppliableValue(p, v) ==
  CASE p = "max_ltv" -> v < params["liq_threshold"]
    [] p = "liq_threshold" -> v > params["max_ltv"]
    [] OTHER -> TRUE

set_param(p, v) ==
  /\ SettableValue(p, v)
  /\ pending' = [pending EXCEPT ![p] = [value |-> v, execute_after |-> now + ConfigDelay]]
  /\ UNCHANGED <<bookVars, tokenVars, params, paused, envVars>>

\* A value refused by AppliableValue stays pending: the revert undoes the consume.
apply_param(p) ==
  /\ pending[p].execute_after # 0
  /\ now >= pending[p].execute_after
  /\ AppliableValue(p, pending[p].value)
  /\ params' = [params EXCEPT ![p] = pending[p].value]
  /\ pending' = [pending EXCEPT ![p] = NoChange]
  /\ UNCHANGED <<bookVars, tokenVars, paused, envVars>>

pause ==
  /\ ~paused
  /\ paused' = TRUE
  /\ UNCHANGED <<bookVars, tokenVars, params, pending, envVars>>

unpause ==
  /\ paused
  /\ paused' = FALSE
  /\ UNCHANGED <<bookVars, tokenVars, params, pending, envVars>>

recover_usdc(amount) ==
  /\ vault_usdc >= amount
  /\ vault_usdc' = vault_usdc - amount
  /\ UNCHANGED <<bookVars, wallet, vault_collateral, adminVars, envVars>>
-----------------------------------------------------------------------------
(* The environment: the clock, and the oracle answering or reverting (0) *)

Tick ==
  /\ now < MaxTime
  /\ now' = now + 1
  /\ UNCHANGED <<bookVars, tokenVars, adminVars, price>>

SetPrice ==
  /\ price' \in Prices \ {price}
  /\ UNCHANGED <<bookVars, tokenVars, adminVars, now>>
-----------------------------------------------------------------------------
(* The vault on its own: its router calls it with fresh order ids and may      *)
(* answer claim_debt_state with anything in RouterAnswers.                     *)

UserCall ==
  \E user \in Users, amount \in Amounts, sync \in RouterAnswers :
    \/ deposit_for(user, amount, sync)
    \/ withdraw_for(user, amount, sync)

OpenCall ==
  \E o \in OrderIds, user \in Users, principal \in Amounts, fee \in FeeChoices,
     window \in BorrowWindows, sync \in RouterAnswers :
    /\ solver_orders[o].status = "NONE"
    /\ open_solver_borrow_for(o, user, principal, principal + MulDiv(principal, fee, BPS),
                              now + window, fee, sync)

OrderCall ==
  \E o \in OrderIds, user \in Users, amount \in Amounts, sync \in RouterAnswers :
    \/ cancel_solver_borrow_for(o, user)
    \/ mark_solver_borrow_filled(o, solver_orders[o].debt_amount, sync)
    \/ mark_solver_borrow_filled(o, amount, sync)
    \/ /\ solver_orders[o].principal + amount <= MaxPrincipal
       /\ increase_solver_borrow_for(o, user, amount, sync)
    \/ repay_claim_for(o, user, amount, sync)

LiquidationCall ==
  \E o \in OrderIds, holder, treasury \in Recipients, sync \in RouterAnswers :
    \/ liquidate_claim_for(o, holder, treasury, sync)
    \/ liquidate_pool_claim_for(o, holder, sync)

OwnerCall ==
  \/ \E choice \in ParamChoices : set_param(choice[1], choice[2])
  \/ \E p \in ParamNames : apply_param(p)
  \/ pause
  \/ unpause
  \/ \E amount \in Amounts : recover_usdc(amount)

Next ==
  UserCall \/ OpenCall \/ OrderCall \/ LiquidationCall \/ OwnerCall \/ Tick \/ SetPrice

Spec == Init /\ [][Next]_vars
-----------------------------------------------------------------------------
(* Properties *)

Positions == [collateral : Nat, debt : Nat, last_update : Nat]
Orders == [borrower : Users \cup {NoUser}, principal : Nat, debt_amount : Nat,
           protocol_fee_bps : 0 .. BPS, expiry : Nat, filled_at : Nat, status : Statuses]
Changes == [value : Nat, execute_after : Nat]

\* Every variable keeps its type and no account is dated in the future; that
\* totals and balances are in Nat says that no subtraction underflows.
TypeOK ==
  /\ positions \in [Users -> Positions]
  /\ active_solver_order \in [Users -> OrderIds \cup {NoOrder}]
  /\ solver_orders \in [OrderIds -> Orders]
  /\ total_collateral \in Nat /\ total_debt \in Nat
  /\ params \in [ParamNames -> Nat]
  /\ pending \in [ParamNames -> Changes]
  /\ paused \in BOOLEAN
  /\ wallet \in [Accounts -> Nat]
  /\ vault_collateral \in Nat /\ vault_usdc \in Nat
  /\ price \in Nat /\ now \in Nat
  /\ \A u \in Users : positions[u].last_update <= now

CollateralOf == [u \in Users |-> positions[u].collateral]
DebtOf == [u \in Users |-> positions[u].debt]

\* total_debt, which six handlers and two branches of _accrue move by
\* increments, is at all times the sum of the users' debts.
TotalDebtIsSum == total_debt = Total(DebtOf)

\* The same for total_collateral.
TotalCollateralIsSum == total_collateral = Total(CollateralOf)

\* Both of the vault's running totals are true, so that neither can underflow
\* in a later repayment or withdrawal and block it.
TotalsAreSums == TotalDebtIsSum /\ TotalCollateralIsSum

\* The vault holds exactly the collateral it owes, and no token is created or
\* lost on the way through the splits of a liquidation.
CollateralBacked ==
  /\ vault_collateral = total_collateral
  /\ vault_collateral + Total(wallet) = Cardinality(Users) * InitialWallet

\* active_solver_order and the orders' statuses, written by different
\* handlers, agree: an order is live exactly when it is its borrower's active one.
ActiveOrders ==
  /\ \A u \in Users :
       active_solver_order[u] # NoOrder =>
         /\ solver_orders[active_solver_order[u]].borrower = u
         /\ solver_orders[active_solver_order[u]].status \in {"OPEN", "FILLED"}
  /\ \A o \in OrderIds :
       solver_orders[o].status \in {"OPEN", "FILLED"} =>
         /\ solver_orders[o].borrower \in Users
         /\ active_solver_order[solver_orders[o].borrower] = o

\* Debt exists only under a filled order: none is left behind when a claim is
\* closed by whatever path, none appears while an order merely waits.
DebtOnlyUnderFilledOrder ==
  \A u \in Users : positions[u].debt > 0 => ActiveIs(u, "FILLED")

\* An account is locked by exactly its one live order and owes nothing without
\* a filled one: no sequence of calls locks it for ever or leaves a debt that
\* nobody can collect.
OrdersAgree == ActiveOrders /\ DebtOnlyUnderFilledOrder

\* Two parameters changed by two timelocked calls each, interleaved in any
\* order, never leave the LTV at or above the liquidation threshold.
RatiosOrdered == params["max_ltv"] < params["liq_threshold"]

\* Collateral leaves an account only if what stays covers the debt that stays,
\* at the price and thresholds of that moment, and never while an order waits
\* for its filler, who relies on it.
CollateralLeavesSafely ==
  [][\A u \in Users :
       positions'[u].collateral < positions[u].collateral =>
         /\ Healthy(positions'[u].collateral, positions'[u].debt)
         /\ ~ActiveIs(u, "OPEN")]_vars

\* A filler is never handed an account that cannot be liquidated for its
\* full claim: in the step that fills an order its debt is covered.
FillIsCovered ==
  [][\A o \in OrderIds :
       solver_orders[o].status # "FILLED" /\ solver_orders'[o].status = "FILLED" =>
         LET u == solver_orders[o].borrower
         IN  /\ positions'[u].debt >= solver_orders'[o].principal
             /\ Healthy(positions'[u].collateral, positions'[u].debt)]_vars
=============================================================================
