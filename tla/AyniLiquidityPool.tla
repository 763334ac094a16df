-------------------------- MODULE AyniLiquidityPool --------------------------
(***************************************************************************)
(* A pool of debt tokens that lends to claims and pays its liquidity       *)
(* providers in shares: src/AyniLiquidityPool.sol.  One action per         *)
(* external function; a failing require undoes the transaction, so guards  *)
(* and effects form one step.  Debts are kept scaled: a loan owes          *)
(* scaledPrincipal * index / RAY, and the index grows with time at a rate  *)
(* that was fixed when the pool was last touched.  As in AyniVault, x_bug... *)
(* is x with a plausible mistake, used only to test the properties.        *)
(***************************************************************************)
EXTENDS AyniMath

CONSTANTS
  LPs,               \* accounts that may hold shares
  OrderIds,          \* claims the protocol may ask the pool to fund
  Borrowers, NoUser,
  RAY,               \* the fixed-point unit (1e27 in the code)
  SecondsPerYear, ConfigDelay, CooldownPeriod, WithdrawWindow,
  InitialModel,      \* the rate model given to the constructor
  Models,            \* rate models the owner may schedule
  ShareAmounts,      \* assets and shares the providers choose from
  LoanAmounts,       \* principals, repayments and recoveries to choose from
  Approvals,         \* allowances to choose from
  Unlimited,         \* type(uint256).max as an allowance
  MaxShares,         \* bound on totalSupply
  MaxTime            \* bound on block.timestamp

RateModels == [optimalUtilization : Nat, baseRate : Nat, slope1 : Nat, slope2 : Nat,
               reserveFactor : Nat]

\* _validateRateModel
ValidModel(m) ==
  /\ m.optimalUtilization > 0 /\ m.optimalUtilization < RAY
  /\ m.reserveFactor <= RAY

ASSUME PoolSetsAssumption ==
  /\ IsFiniteSet(LPs) /\ IsFiniteSet(OrderIds) /\ NoUser \notin Borrowers
  /\ ShareAmounts \subseteq Nat /\ LoanAmounts \subseteq Nat /\ Approvals \subseteq Nat
  /\ Unlimited \in Nat /\ MaxShares \in Nat /\ MaxTime \in Nat
ASSUME PoolClockAssumption ==
  /\ RAY \in Nat \ {0} /\ SecondsPerYear \in Nat \ {0} /\ ConfigDelay \in Nat \ {0}
  /\ CooldownPeriod \in Nat /\ WithdrawWindow \in Nat
ASSUME PoolModelAssumption ==
  InitialModel \in RateModels /\ ValidModel(InitialModel) /\ Models \subseteq RateModels

VARIABLES
  balanceOf, totalSupply, allowance,
  liquidityIndex, currentBorrowRate, lastIndexUpdate,
  loans, totalScaledDebt, totalPrincipalOut,
  rateModel, pendingRateModel,
  reserveBalance,
  cooldowns,
  cash,              \* asset.balanceOf(pool)
  now                \* block.timestamp

shareVars == <<balanceOf, totalSupply, allowance, cooldowns>>
indexVars == <<liquidityIndex, currentBorrowRate, lastIndexUpdate>>
loanVars == <<loans, totalScaledDebt, totalPrincipalOut, reserveBalance>>
modelVars == <<rateModel, pendingRateModel>>
poolVars == <<shareVars, indexVars, loanVars, modelVars, cash>>
vars == <<poolVars, now>>

NoLoan == [scaledPrincipal |-> 0, rawPrincipal |-> 0, borrower |-> NoUser, active |-> FALSE]
NoCooldown == [timestamp |-> 0, shares |-> 0]
NoPendingModel == [model |-> InitialModel, executeAfter |-> 0]
-----------------------------------------------------------------------------
(* Views, as functions of the index they are computed with *)

\* _currentIndex: the stored index grown at the stored rate up to now.
CurrentIndex ==
  LET growth == MulDiv(currentBorrowRate, now - lastIndexUpdate, SecondsPerYear)
  IN  MulDiv(liquidityIndex, RAY + growth, RAY)

Scaled(amount, index) == MulDiv(amount, RAY, index)
Owed(scaled, index) == MulDiv(scaled, index, RAY)

\* currentDebt(orderId)
currentDebt(o) == IF loans[o].active THEN Owed(loans[o].scaledPrincipal, CurrentIndex) ELSE 0

\* _idleLiquidity underflows, and every caller reverts, if cash < reserveBalance.
Solvent(held) == held >= reserveBalance
IdleOf(held) == held - reserveBalance
availableLiquidity_bugLendsReserve == cash
availableLiquidity == IdleOf(cash)

TotalAssetsWith(held, index) == IdleOf(held) + Owed(totalScaledDebt, index)
totalAssets == TotalAssetsWith(cash, CurrentIndex)

\* The pool's empty states price a share at one asset.
Unpriced == totalSupply = 0 \/ totalAssets = 0
convertToShares(assets) ==
  IF Unpriced THEN assets ELSE MulDiv(assets, totalSupply, totalAssets)
convertToAssets(shares) ==
  IF Unpriced THEN shares ELSE MulDiv(shares, totalAssets, totalSupply)
previewWithdraw_bugRoundsDown(assets) == convertToShares(assets)
previewWithdraw(assets) ==
  IF Unpriced THEN assets ELSE MulDivUp(assets, totalSupply, totalAssets)
previewMint(shares) ==
  IF Unpriced THEN shares ELSE MulDivUp(shares, totalAssets, totalSupply)

UtilizationWith(held, index) ==
  LET supplied == TotalAssetsWith(held, index)
  IN  IF supplied = 0 THEN 0
      ELSE Smaller(MulDiv(totalPrincipalOut, RAY, supplied), RAY)

\* _calculateRate: two slopes that meet at the optimal utilization.
CalculateRate(m, util) ==
  IF util <= m.optimalUtilization
  THEN m.baseRate + MulDiv(util, m.slope1, m.optimalUtilization)
  ELSE m.baseRate + m.slope1
         + MulDiv(util - m.optimalUtilization, m.slope2, RAY - m.optimalUtilization)

Init ==
  /\ now = 1
  /\ balanceOf = [a \in LPs |-> 0] /\ totalSupply = 0
  /\ allowance = [a \in LPs |-> [b \in LPs |-> 0]]
  /\ liquidityIndex = RAY /\ lastIndexUpdate = now
  /\ currentBorrowRate = CalculateRate(InitialModel, 0)
  /\ loans = [o \in OrderIds |-> NoLoan]
  /\ totalScaledDebt = 0 /\ totalPrincipalOut = 0
  /\ rateModel = InitialModel /\ pendingRateModel = NoPendingModel
  /\ reserveBalance = 0
  /\ cooldowns = [a \in LPs |-> NoCooldown]
  /\ cash = 0
-----------------------------------------------------------------------------
(* _updateIndexAndRate, which every operation runs first.  The rate uses the   *)
(* cash of that moment and the principal out BEFORE the operation's own loan   *)
(* change: the change reaches the rate only at the next operation.             *)

AccrueWith_bugKeepsIndex(held, model) ==
  /\ Solvent(held)
  /\ UNCHANGED liquidityIndex
  /\ lastIndexUpdate' = now
  /\ currentBorrowRate' = CalculateRate(model, UtilizationWith(held, CurrentIndex))

AccrueWith(held, model) ==
  /\ Solvent(held)
  /\ liquidityIndex' = CurrentIndex
  /\ lastIndexUpdate' = now
  /\ currentBorrowRate' = CalculateRate(model, UtilizationWith(held, CurrentIndex))

Accrue(held) == AccrueWith(held, rateModel)

\* _spendAllowance
SpendAllowance(owner, spender, shares) ==
  LET allowed == allowance[owner][spender]
  IN  IF spender = owner \/ allowed = Unlimited
      THEN UNCHANGED allowance
      ELSE /\ allowed >= shares
           /\ allowance' = [allowance EXCEPT ![owner][spender] = allowed - shares]

Mint(to, shares) ==
  /\ totalSupply' = totalSupply + shares
  /\ balanceOf' = [balanceOf EXCEPT ![to] = @ + shares]

Burn(from, shares) ==
  /\ balanceOf[from] >= shares
  /\ totalSupply' = totalSupply - shares
  /\ balanceOf' = [balanceOf EXCEPT ![from] = @ - shares]
-----------------------------------------------------------------------------
(* Liquidity providers *)

\* The payer's own balance is not modelled: a payer who cannot pay reverts.
deposit(assets, receiver) ==
  /\ assets > 0
  /\ Accrue(cash)
  /\ convertToShares(assets) > 0
  /\ Mint(receiver, convertToShares(assets))
  /\ cash' = cash + assets
  /\ UNCHANGED <<allowance, cooldowns, loanVars, modelVars, now>>

mint(shares, receiver) ==
  /\ shares > 0
  /\ Accrue(cash)
  /\ Mint(receiver, shares)
  /\ cash' = cash + previewMint(shares)
  /\ UNCHANGED <<allowance, cooldowns, loanVars, modelVars, now>>

\* _checkCooldown
CooledDown(owner, shares) ==
  LET cd == cooldowns[owner]
  IN  /\ cd.timestamp # 0
      /\ now >= cd.timestamp + CooldownPeriod
      /\ now <= cd.timestamp + CooldownPeriod + WithdrawWindow
      /\ shares <= cd.shares

\* What withdraw and redeem share once assets and shares are known; one
\* withdrawal uses up the cooldown, however small it is.
TakeOut(assets, shares, caller, owner) ==
  /\ Accrue(cash)
  /\ CooledDown(owner, shares)
  /\ assets <= availableLiquidity
  /\ SpendAllowance(owner, caller, shares)
  /\ cooldowns' = [cooldowns EXCEPT ![owner] = NoCooldown]
  /\ Burn(owner, shares)
  /\ cash' = cash - assets
  /\ UNCHANGED <<loanVars, modelVars, now>>

withdraw(assets, caller, owner) ==
  /\ assets > 0
  /\ TakeOut(assets, previewWithdraw(assets), caller, owner)

redeem(shares, caller, owner) ==
  /\ shares > 0
  /\ TakeOut(convertToAssets(shares), shares, caller, owner)

\* Starting again replaces the earlier cooldown.
cooldown(lp) ==
  /\ Accrue(cash)
  /\ balanceOf[lp] > 0
  /\ cooldowns' = [cooldowns EXCEPT ![lp] = [timestamp |-> now, shares |-> balanceOf[lp]]]
  /\ UNCHANGED <<balanceOf, totalSupply, allowance, loanVars, modelVars, cash, now>>

approve(owner, spender, amount) ==
  /\ allowance' = [allowance EXCEPT ![owner][spender] = amount]
  /\ UNCHANGED <<balanceOf, totalSupply, cooldowns, indexVars, loanVars, modelVars, cash, now>>

Moved_bugStaleBalance(from, to, amount) ==
  [balanceOf EXCEPT ![from] = @ - amount, ![to] = balanceOf[to] + amount]
Moved(from, to, amount) ==
  LET paid == [balanceOf EXCEPT ![from] = @ - amount]
  IN  [paid EXCEPT ![to] = @ + amount]

\* transfer and transferFrom: moving shares touches neither index nor cooldowns.
transferFrom(caller, from, to, amount) ==
  /\ balanceOf[from] >= amount
  /\ SpendAllowance(from, caller, amount)
  /\ balanceOf' = Moved(from, to, amount)
  /\ UNCHANGED <<totalSupply, cooldowns, indexVars, loanVars, modelVars, cash, now>>
-----------------------------------------------------------------------------
(* The protocol: lending and settling.  In the code the protocol moves the     *)
(* repaid tokens into the pool just before it calls settle...; both are one    *)
(* transaction and one action here.                                            *)

SetLoan(o, loan) == loans' = [loans EXCEPT ![o] = loan]

MoveDebt_bugNeverReduced(scaledDelta, principalDelta) ==
  /\ totalScaledDebt' = totalScaledDebt + IF scaledDelta > 0 THEN scaledDelta ELSE 0
  /\ totalPrincipalOut' = totalPrincipalOut + principalDelta

\* The pool-wide totals move by increments of their own.
MoveDebt(scaledDelta, principalDelta) ==
  /\ totalScaledDebt' = totalScaledDebt + scaledDelta
  /\ totalPrincipalOut' = totalPrincipalOut + principalDelta

fundClaim(o, principal, borrower) ==
  LET scaled == Scaled(principal, CurrentIndex)
  IN  /\ principal > 0
      /\ ~loans[o].active
      /\ Accrue(cash)
      /\ principal <= availableLiquidity
      /\ scaled > 0
      /\ SetLoan(o, [scaledPrincipal |-> scaled, rawPrincipal |-> principal,
                     borrower |-> borrower, active |-> TRUE])
      /\ MoveDebt(scaled, principal)
      /\ cash' = cash - principal
      /\ UNCHANGED <<shareVars, reserveBalance, modelVars, now>>

increaseClaim(o, increase) ==
  LET scaled == Scaled(increase, CurrentIndex)
  IN  /\ increase > 0
      /\ loans[o].active
      /\ Accrue(cash)
      /\ increase <= availableLiquidity
      /\ scaled > 0
      /\ SetLoan(o, [loans[o] EXCEPT !.scaledPrincipal = @ + scaled,
                                     !.rawPrincipal = @ + increase])
      /\ MoveDebt(scaled, increase)
      /\ cash' = cash - increase
      /\ UNCHANGED <<shareVars, reserveBalance, modelVars, now>>

ScaledReduction_bugLeavesDust(loan, amount, current) == Scaled(amount, CurrentIndex)
ScaledReduction(loan, amount, current) ==
  IF amount = current THEN loan.scaledPrincipal ELSE Scaled(amount, CurrentIndex)

\* Interest first, then principal.  `current_debt - rawPrincipal' is a checked
\* subtraction: while rounding holds the debt below the principal it reverts.
settleRepayment(o, amount) ==
  LET loan == loans[o]
      current == Owed(loan.scaledPrincipal, CurrentIndex)
      interest_paid == Smaller(amount, current - loan.rawPrincipal)
      principal_paid == amount - interest_paid
      reduction == ScaledReduction(loan, amount, current)
  IN  /\ amount > 0
      /\ loan.active
      /\ Accrue(cash + amount)
      /\ amount <= current
      /\ current >= loan.rawPrincipal
      /\ reserveBalance' = reserveBalance + MulDiv(interest_paid, rateModel.reserveFactor, RAY)
      /\ MoveDebt(-reduction, -principal_paid)
      /\ SetLoan(o, [loan EXCEPT !.scaledPrincipal = @ - reduction,
                                 !.rawPrincipal = @ - principal_paid,
                                 !.active = loan.rawPrincipal # principal_paid])
      /\ cash' = cash + amount
      /\ UNCHANGED <<shareVars, modelVars, now>>

ReserveUsed_bugUncapped(shortfall) == shortfall
ReserveUsed(shortfall) == Smaller(reserveBalance, shortfall)

\* A shortfall is taken from the reserve as far as it goes; what is left of it
\* simply disappears from totalAssets.
settleLiquidation(o, recovered) ==
  LET loan == loans[o]
      current == Owed(loan.scaledPrincipal, CurrentIndex)
  IN  /\ loan.active
      /\ Accrue(cash + recovered)
      /\ recovered <= current
      /\ MoveDebt(-loan.scaledPrincipal, -loan.rawPrincipal)
      /\ SetLoan(o, [loan EXCEPT !.scaledPrincipal = 0, !.rawPrincipal = 0, !.active = FALSE])
      /\ reserveBalance' = reserveBalance - ReserveUsed(current - recovered)
      /\ cash' = cash + recovered
      /\ UNCHANGED <<shareVars, modelVars, now>>
-----------------------------------------------------------------------------
(* The owner's rate model, behind a timelock *)

set_rate_model(m) ==
  /\ ValidModel(m)
  /\ pendingRateModel' = [model |-> m, executeAfter |-> now + ConfigDelay]
  /\ UNCHANGED <<shareVars, indexVars, loanVars, rateModel, cash, now>>

\* The time until now is charged at the old rate, then the new model is stored.
apply_rate_model ==
  /\ pendingRateModel.executeAfter # 0
  /\ now >= pendingRateModel.executeAfter
  /\ AccrueWith(cash, pendingRateModel.model)
  /\ rateModel' = pendingRateModel.model
  /\ pendingRateModel' = NoPendingModel
  /\ UNCHANGED <<shareVars, loanVars, cash, now>>
-----------------------------------------------------------------------------
(* The pool on its own: any LP, any order the protocol might ask for *)

LPCall ==
  \E lp \in LPs, amount \in ShareAmounts :
    \/ totalSupply + convertToShares(amount) <= MaxShares /\ deposit(amount, lp)
    \/ totalSupply + amount <= MaxShares /\ mint(amount, lp)
    \/ \E caller \in LPs : withdraw(amount, caller, lp) \/ redeem(amount, caller, lp)
    \/ cooldown(lp)

TokenCall ==
  \E caller, owner \in LPs :
    \/ \E amount \in Approvals : owner # caller /\ approve(owner, caller, amount)
    \/ \E to \in LPs, amount \in ShareAmounts : transferFrom(caller, owner, to, amount)

ClaimCall ==
  \E o \in OrderIds, amount \in LoanAmounts :
    \/ \E b \in Borrowers : fundClaim(o, amount, b)
    \/ increaseClaim(o, amount)
    \/ settleRepayment(o, amount)
    \/ settleRepayment(o, currentDebt(o))
    \/ settleLiquidation(o, amount)
    \/ settleLiquidation(o, currentDebt(o))

OwnerCall == apply_rate_model \/ \E m \in Models : set_rate_model(m)

Tick == now < MaxTime /\ now' = now + 1 /\ UNCHANGED poolVars

Next == LPCall \/ TokenCall \/ ClaimCall \/ OwnerCall \/ Tick

Spec == Init /\ [][Next]_vars
-----------------------------------------------------------------------------
(* Properties *)

Loans == [scaledPrincipal : Nat, rawPrincipal : Nat, borrower : Borrowers \cup {NoUser},
          active : BOOLEAN]

\* Types; the totals in Nat say that no checked subtraction underflows.
TypeOK ==
  /\ balanceOf \in [LPs -> Nat] /\ totalSupply \in Nat
  /\ allowance \in [LPs -> [LPs -> Nat]]
  /\ liquidityIndex \in Nat /\ currentBorrowRate \in Nat
  /\ lastIndexUpdate \in Nat /\ now \in Nat /\ lastIndexUpdate <= now
  /\ loans \in [OrderIds -> Loans]
  /\ totalScaledDebt \in Nat /\ totalPrincipalOut \in Nat
  /\ rateModel \in RateModels
  /\ pendingRateModel \in [model : RateModels, executeAfter : Nat]
  /\ reserveBalance \in Nat /\ cash \in Nat
  /\ cooldowns \in [LPs -> [timestamp : Nat, shares : Nat]]

\* Shares are created and destroyed only together with totalSupply.
SharesAddUp == totalSupply = Total(balanceOf)

\* The pool-wide debts, moved by increments, are the sums over the loans, and a
\* loan is active exactly while it owes principal and scaled debt.
LoansAddUp ==
  /\ totalScaledDebt = Total([o \in OrderIds |-> loans[o].scaledPrincipal])
  /\ totalPrincipalOut = Total([o \in OrderIds |-> loans[o].rawPrincipal])
  /\ \A o \in OrderIds :
       /\ loans[o].active => loans[o].scaledPrincipal > 0 /\ loans[o].rawPrincipal > 0
       /\ ~loans[o].active => loans[o].scaledPrincipal = 0 /\ loans[o].rawPrincipal = 0

\* The reserve is always there in cash.  Were it not, _idleLiquidity would
\* underflow and every operation of the pool, repayments included, would revert.
ReserveInCash == Solvent(cash)

\* A loan that a step does not touch owes after it what it owed before, if no
\* time passed, and no less if time passed: whoever updates the index, and
\* whatever rate model is applied, nobody's past interest changes.
AccrualIsTransparent ==
  [][\A o \in OrderIds :
       loans'[o] = loans[o] =>
         /\ currentDebt(o)' >= currentDebt(o)
         /\ now' = now => currentDebt(o)' = currentDebt(o)]_vars

\* Deposits, mints, withdrawals and redemptions round against their caller:
\* the assets behind each remaining share never fall.
SharePriceHolds ==
  [][now' = now /\ loans' = loans /\ totalSupply > 0 =>
       totalAssets' * totalSupply >= totalAssets * totalSupply']_vars

\* What the pool is worth: its cash and all that is owed to it.
Worth == cash + Owed(totalScaledDebt, CurrentIndex)
RoundingSlack == 1 + MulDivUp(CurrentIndex, 1, RAY)

\* Lending and settling exchange cash for debt of the same worth, up to the
\* rounding of one loan, except where a liquidation recovers less than the debt.
LendingKeepsWorth ==
  [][now' = now /\ loans' # loans =>
       \/ Worth' - Worth \in -RoundingSlack .. RoundingSlack
       \/ \E o \in OrderIds : /\ loans[o].active /\ ~loans'[o].active
                              /\ cash' - cash < currentDebt(o)]_vars

\* A claim can be repaid at once after it was funded
\* (test/AyniProtocolFuzz.t.sol:82 repays after any elapsed time): the debt is
\* never below the principal that settleRepayment subtracts from it.
DebtCoversPrincipal ==
  \A o \in OrderIds : loans[o].active => currentDebt(o) >= loans[o].rawPrincipal
=============================================================================
