---------------------------- MODULE AyniPoolProofs ----------------------------
(***************************************************************************)
(* Invariants and action properties of AyniLiquidityPool for every set of  *)
(* providers, claims, amounts and rate models.                             *)
(***************************************************************************)
EXTENDS AyniLiquidityPool, AyniMathProofs

\* A rate model is validated when it is scheduled; the rate's two slopes divide
\* by what the validation keeps positive.
ModelsSound == ValidModel(rateModel) /\ ValidModel(pendingRateModel.model)

\* The index starts at RAY and never falls, so scaling back never divides by 0.
IndexSound == liquidityIndex >= RAY

(* The inductive invariant.  That no total underflows (TypeOK) needs that it  *)
(* is the sum of what is taken from it; the sums need the types; the reserve  *)
(* stays in cash because a sound model's share of an interest payment is at   *)
(* most the payment.                                                          *)
PoolInv ==
  TypeOK /\ SharesAddUp /\ LoansAddUp /\ ReserveInCash /\ ModelsSound /\ IndexSound

USE PoolSetsAssumption, PoolClockAssumption, PoolModelAssumption

ScaledOf == [o \in OrderIds |-> loans[o].scaledPrincipal]
RawOf == [o \in OrderIds |-> loans[o].rawPrincipal]
-----------------------------------------------------------------------------
(* The index and the rate *)

\* Time only adds to what is owed.
LEMMA IndexGrows ==
  ASSUME TypeOK, IndexSound
  PROVE  /\ CurrentIndex \in Nat \ {0}
         /\ CurrentIndex >= liquidityIndex /\ CurrentIndex >= RAY
<1> DEFINE growth == MulDiv(currentBorrowRate, now - lastIndexUpdate, SecondsPerYear)
<1>1. now - lastIndexUpdate \in Nat /\ currentBorrowRate \in Nat /\ liquidityIndex \in Nat
  BY DEF TypeOK
<1>2. growth \in Nat
  BY <1>1, MulDivBounds
<1>3. RAY + growth \in Nat /\ RAY + growth >= RAY
  BY <1>2
<1> HIDE DEF growth
<1>4. /\ MulDiv(liquidityIndex, RAY + growth, RAY) \in Nat
      /\ MulDiv(liquidityIndex, RAY + growth, RAY) >= liquidityIndex
  BY <1>1, <1>3, MulDivBounds, MulDivGrows
<1>5. CurrentIndex = MulDiv(liquidityIndex, RAY + growth, RAY)
  BY DEF CurrentIndex, growth
<1>6. QED
  BY <1>1, <1>4, <1>5 DEF IndexSound

LEMMA OwedType ==
  ASSUME NEW scaled \in Nat, NEW index \in Nat \ {0}
  PROVE  Owed(scaled, index) \in Nat /\ Scaled(scaled, index) \in Nat
BY MulDivBounds DEF Owed, Scaled

\* The divisors of both slopes are positive in a sound model.
LEMMA RateType ==
  ASSUME NEW m \in RateModels, ValidModel(m), NEW util \in 0 .. RAY
  PROVE  CalculateRate(m, util) \in Nat
<1>1. /\ m.optimalUtilization \in Nat \ {0} /\ RAY - m.optimalUtilization \in Nat \ {0}
      /\ m.baseRate \in Nat /\ m.slope1 \in Nat /\ m.slope2 \in Nat /\ util \in Nat
  BY DEF RateModels, ValidModel
<1>2. CASE util <= m.optimalUtilization
  <2>1. MulDiv(util, m.slope1, m.optimalUtilization) \in Nat
    BY <1>1, MulDivBounds
  <2>2. QED  BY <1>1, <1>2, <2>1 DEF CalculateRate
<1>3. CASE ~(util <= m.optimalUtilization)
  <2>1. util - m.optimalUtilization \in Nat
    BY <1>1, <1>3
  <2>2. MulDiv(util - m.optimalUtilization, m.slope2, RAY - m.optimalUtilization) \in Nat
    BY <1>1, <2>1, MulDivBounds
  <2>3. QED  BY <1>1, <1>3, <2>2 DEF CalculateRate
<1>4. QED  BY <1>2, <1>3

LEMMA AssetsType ==
  ASSUME TypeOK, IndexSound, NEW held \in Nat, Solvent(held)
  PROVE  TotalAssetsWith(held, CurrentIndex) \in Nat
<1>1. IdleOf(held) \in Nat
  BY DEF TypeOK, Solvent, IdleOf
<1>2. Owed(totalScaledDebt, CurrentIndex) \in Nat
  BY IndexGrows, OwedType DEF TypeOK
<1>3. QED  BY <1>1, <1>2 DEF TotalAssetsWith

LEMMA UtilizationType ==
  ASSUME TypeOK, IndexSound, NEW held \in Nat, Solvent(held)
  PROVE  UtilizationWith(held, CurrentIndex) \in 0 .. RAY
<1> DEFINE supplied == TotalAssetsWith(held, CurrentIndex)
           used == MulDiv(totalPrincipalOut, RAY, supplied)
<1>1. supplied \in Nat
  BY AssetsType
<1> HIDE DEF supplied
<1>2. CASE supplied = 0
  BY <1>2 DEF UtilizationWith, supplied
<1>3. CASE supplied # 0
  <2>1. used \in Nat
    BY <1>1, <1>3, MulDivBounds DEF TypeOK
  <2>2. Smaller(used, RAY) \in 0 .. RAY
    BY <2>1 DEF Smaller
  <2>3. UtilizationWith(held, CurrentIndex) = Smaller(used, RAY)
    BY <1>3 DEF UtilizationWith, supplied
  <2>4. QED  BY <2>2, <2>3
<1>4. QED  BY <1>2, <1>3

\* What _updateIndexAndRate leaves behind.
LEMMA AccrueStep ==
  ASSUME PoolInv, NEW held \in Nat, NEW m \in RateModels, ValidModel(m), AccrueWith(held, m)
  PROVE  /\ liquidityIndex' = CurrentIndex /\ liquidityIndex' \in Nat /\ IndexSound'
         /\ currentBorrowRate' \in Nat /\ lastIndexUpdate' = now
<1>1. /\ liquidityIndex' = CurrentIndex /\ lastIndexUpdate' = now /\ Solvent(held)
      /\ currentBorrowRate' = CalculateRate(m, UtilizationWith(held, CurrentIndex))
  BY DEF AccrueWith
<1>2. CurrentIndex \in Nat /\ CurrentIndex >= RAY
  BY IndexGrows DEF PoolInv
<1>3. currentBorrowRate' \in Nat
  BY <1>1, UtilizationType, RateType DEF PoolInv
<1>4. QED  BY <1>1, <1>2, <1>3 DEF IndexSound

LEMMA Accrues ==
  ASSUME PoolInv, NEW held \in Nat, Accrue(held)
  PROVE  /\ liquidityIndex' = CurrentIndex /\ liquidityIndex' \in Nat /\ IndexSound'
         /\ currentBorrowRate' \in Nat /\ lastIndexUpdate' = now
BY AccrueStep DEF Accrue, PoolInv, TypeOK, ModelsSound

\* An accrual just done leaves nothing to accrue at the same moment.
LEMMA AccruedIndex ==
  ASSUME TypeOK, IndexSound, liquidityIndex' = CurrentIndex, lastIndexUpdate' = now,
         currentBorrowRate' \in Nat, now' = now
  PROVE  CurrentIndex' = CurrentIndex
<1> DEFINE growth == MulDiv(currentBorrowRate', now' - lastIndexUpdate', SecondsPerYear)
<1>1. now' - lastIndexUpdate' = 0
  BY DEF TypeOK
<1>2. growth = 0
  BY <1>1, MulDivExact
<1>3. RAY + growth = RAY
  BY <1>2
<1>4. CurrentIndex' = MulDiv(liquidityIndex', RAY + growth, RAY)
  BY DEF CurrentIndex
<1> HIDE DEF growth
<1>5. CurrentIndex' = MulDiv(CurrentIndex, RAY, RAY)
  BY <1>3, <1>4
<1>6. QED  BY <1>5, IndexGrows, MulDivExact
-----------------------------------------------------------------------------
(* Shares *)

LEMMA ShareStep ==
  ASSUME TypeOK, SharesAddUp, NEW a \in LPs, NEW x \in Int, balanceOf[a] + x \in Nat,
         balanceOf' = [balanceOf EXCEPT ![a] = @ + x], totalSupply' = totalSupply + x
  PROVE  balanceOf' \in [LPs -> Nat] /\ totalSupply' \in Nat /\ SharesAddUp'
<1> DEFINE before == balanceOf
           after == balanceOf'
<1>1. /\ before \in [LPs -> Nat] /\ after \in [LPs -> Nat]
      /\ after[a] = before[a] + x
      /\ \A b \in LPs \ {a} : after[b] = before[b]
  BY DEF TypeOK
<1>2. totalSupply = Total(before) /\ Total(balanceOf)' = Total(after)
  BY DEF SharesAddUp, Total, Points, Column
<1> HIDE DEF before, after
<1>3. Total(after) = Total(before) - before[a] + after[a]
  BY <1>1, TotalUpdate
<1>4. Total(after) \in Nat /\ Total(before) \in Nat /\ before[a] \in Nat
  BY <1>1, TotalType
<1>5. totalSupply' = Total(after)
  BY <1>1, <1>2, <1>3, <1>4
<1>6. QED  BY <1>1, <1>2, <1>4, <1>5 DEF SharesAddUp, after

LEMMA SharesFrame ==
  ASSUME SharesAddUp, UNCHANGED <<balanceOf, totalSupply>>
  PROVE  SharesAddUp'
<1>1. Total(balanceOf)' = Total(balanceOf)
  BY Zenon DEF Total, Points, Column
<1>2. QED  BY <1>1 DEF SharesAddUp
-----------------------------------------------------------------------------
(* Loans *)

ActiveIffOwing(loan) ==
  /\ loan.active => loan.scaledPrincipal > 0 /\ loan.rawPrincipal > 0
  /\ ~loan.active => loan.scaledPrincipal = 0 /\ loan.rawPrincipal = 0

LEMMA LoanStep ==
  ASSUME TypeOK, LoansAddUp, NEW o \in OrderIds, NEW loan \in Loans, ActiveIffOwing(loan),
         SetLoan(o, loan),
         MoveDebt(loan.scaledPrincipal - loans[o].scaledPrincipal,
                  loan.rawPrincipal - loans[o].rawPrincipal)
  PROVE  /\ loans' \in [OrderIds -> Loans]
         /\ totalScaledDebt' \in Nat /\ totalPrincipalOut' \in Nat
         /\ LoansAddUp'
<1>1. /\ loans \in [OrderIds -> Loans] /\ loans' \in [OrderIds -> Loans] /\ loans'[o] = loan
      /\ \A q \in OrderIds \ {o} : loans'[q] = loans[q]
  BY DEF TypeOK, SetLoan
<1> DEFINE scaled == [q \in OrderIds |-> loans'[q].scaledPrincipal]
           raw == [q \in OrderIds |-> loans'[q].rawPrincipal]
<1>2. ScaledOf \in [OrderIds -> Nat] /\ RawOf \in [OrderIds -> Nat]
  BY <1>1 DEF ScaledOf, RawOf, Loans
<1>3. scaled \in [OrderIds -> Nat] /\ raw \in [OrderIds -> Nat]
  BY <1>1 DEF Loans
<1>4. /\ \A q \in OrderIds \ {o} : scaled[q] = ScaledOf[q] /\ raw[q] = RawOf[q]
      /\ scaled[o] = loan.scaledPrincipal /\ raw[o] = loan.rawPrincipal
      /\ ScaledOf[o] = loans[o].scaledPrincipal /\ RawOf[o] = loans[o].rawPrincipal
  BY <1>1 DEF ScaledOf, RawOf
<1> HIDE DEF scaled, raw
<1>5. /\ Total(scaled) = Total(ScaledOf) - ScaledOf[o] + scaled[o]
      /\ Total(raw) = Total(RawOf) - RawOf[o] + raw[o]
  BY <1>2, <1>3, <1>4, TotalUpdate
<1>6. Total(scaled) \in Nat /\ Total(raw) \in Nat /\ Total(ScaledOf) \in Nat /\ Total(RawOf) \in Nat
  BY <1>2, <1>3, TotalType
<1>7. totalScaledDebt = Total(ScaledOf) /\ totalPrincipalOut = Total(RawOf)
  BY DEF LoansAddUp, ScaledOf, RawOf
<1>8. ScaledOf[o] \in Nat /\ RawOf[o] \in Nat /\ scaled[o] \in Nat /\ raw[o] \in Nat
  BY <1>2, <1>3
<1>9. totalScaledDebt' = Total(scaled) /\ totalPrincipalOut' = Total(raw)
  BY <1>4, <1>5, <1>6, <1>7, <1>8 DEF MoveDebt
<1>10. \A q \in OrderIds : ActiveIffOwing(loans'[q])
  BY <1>1 DEF LoansAddUp, ActiveIffOwing
<1>11. LoansAddUp'
  BY <1>9, <1>10 DEF LoansAddUp, ActiveIffOwing, scaled, raw, Total, Points, Column
<1>12. QED  BY <1>1, <1>6, <1>9, <1>11

LEMMA LoansFrame ==
  ASSUME LoansAddUp, UNCHANGED <<loans, totalScaledDebt, totalPrincipalOut>>
  PROVE  LoansAddUp'
BY DEF LoansAddUp, Total, Points, Column
-----------------------------------------------------------------------------
(* The providers' operations *)

LEMMA QuotesType ==
  ASSUME PoolInv, NEW x \in Nat
  PROVE  /\ totalAssets \in Nat
         /\ convertToShares(x) \in Nat /\ convertToAssets(x) \in Nat
         /\ previewWithdraw(x) \in Nat /\ previewMint(x) \in Nat
<1> DEFINE A == totalAssets
           S == totalSupply
<1>1. A \in Nat /\ S \in Nat
  BY AssetsType DEF PoolInv, TypeOK, ReserveInCash, totalAssets
<1> HIDE DEF A
<1>2. CASE Unpriced
  BY <1>1, <1>2 DEF convertToShares, convertToAssets, previewWithdraw, previewMint, A
<1>3. CASE ~Unpriced
  <2>1. A \in Nat \ {0} /\ S \in Nat \ {0}
    BY <1>1, <1>3 DEF Unpriced, A
  <2>2. /\ MulDiv(x, S, A) \in Nat /\ MulDiv(x, A, S) \in Nat
        /\ MulDivUp(x, S, A) \in Nat /\ MulDivUp(x, A, S) \in Nat
    BY <2>1, MulDivBounds, MulDivUpBounds
  <2>3. QED
    BY <1>1, <1>3, <2>2 DEF convertToShares, convertToAssets, previewWithdraw, previewMint, A
<1>4. QED  BY <1>2, <1>3

\* An operation on shares that leaves the reserve in cash keeps the invariant.
LEMMA SharesOperation ==
  ASSUME PoolInv, Accrue(cash),
         balanceOf' \in [LPs -> Nat], totalSupply' \in Nat, SharesAddUp',
         allowance' \in [LPs -> [LPs -> Nat]],
         cooldowns' \in [LPs -> [timestamp : Nat, shares : Nat]],
         cash' \in Nat, cash' >= reserveBalance,
         UNCHANGED <<loanVars, modelVars, now>>
  PROVE  PoolInv'
<1>1. /\ liquidityIndex' \in Nat /\ IndexSound' /\ currentBorrowRate' \in Nat
      /\ lastIndexUpdate' = now
  BY Accrues DEF PoolInv, TypeOK
<1>2. TypeOK'
  BY <1>1 DEF PoolInv, TypeOK, loanVars, modelVars
<1>3. LoansAddUp'
  BY LoansFrame DEF PoolInv, loanVars
<1>4. ReserveInCash' /\ ModelsSound'
  BY DEF PoolInv, ReserveInCash, Solvent, ModelsSound, loanVars, modelVars
<1>5. QED  BY <1>1, <1>2, <1>3, <1>4 DEF PoolInv

LEMMA MintStep ==
  ASSUME PoolInv, NEW a \in LPs, NEW x \in Nat, Mint(a, x)
  PROVE  balanceOf' \in [LPs -> Nat] /\ totalSupply' \in Nat /\ SharesAddUp'
<1>1. balanceOf \in [LPs -> Nat] /\ balanceOf[a] + x \in Nat /\ x \in Int
  BY DEF PoolInv, TypeOK
<1>2. balanceOf' = [balanceOf EXCEPT ![a] = balanceOf[a] + x] /\ totalSupply' = totalSupply + x
  BY <1>1 DEF Mint
<1>3. QED  BY <1>1, <1>2, ShareStep DEF PoolInv

LEMMA BurnStep ==
  ASSUME PoolInv, NEW a \in LPs, NEW x \in Nat, Burn(a, x)
  PROVE  balanceOf' \in [LPs -> Nat] /\ totalSupply' \in Nat /\ SharesAddUp'
<1>1. balanceOf \in [LPs -> Nat] /\ totalSupply \in Nat /\ -x \in Int
  BY DEF PoolInv, TypeOK
<1>2. balanceOf[a] + (-x) \in Nat /\ balanceOf[a] + (-x) = balanceOf[a] - x
  BY <1>1 DEF Burn
<1>3. balanceOf' = [balanceOf EXCEPT ![a] = balanceOf[a] + (-x)] /\ totalSupply' = totalSupply + (-x)
  BY <1>1, <1>2 DEF Burn
<1>4. QED  BY <1>1, <1>2, <1>3, ShareStep DEF PoolInv

LEMMA DepositStep ==
  ASSUME PoolInv, NEW assets \in ShareAmounts, NEW receiver \in LPs, deposit(assets, receiver)
  PROVE  PoolInv'
<1>1. convertToShares(assets) \in Nat
  BY QuotesType
<1>2. balanceOf' \in [LPs -> Nat] /\ totalSupply' \in Nat /\ SharesAddUp'
  BY <1>1, MintStep DEF deposit
<1>3. cash' \in Nat /\ cash' >= reserveBalance
  BY DEF deposit, PoolInv, TypeOK, ReserveInCash, Solvent
<1>4. QED  BY <1>2, <1>3, SharesOperation DEF deposit, PoolInv, TypeOK

LEMMA MintSharesStep ==
  ASSUME PoolInv, NEW shares \in ShareAmounts, NEW receiver \in LPs, mint(shares, receiver)
  PROVE  PoolInv'
<1>1. previewMint(shares) \in Nat
  BY QuotesType
<1>2. balanceOf' \in [LPs -> Nat] /\ totalSupply' \in Nat /\ SharesAddUp'
  BY MintStep DEF mint
<1>3. cash' \in Nat /\ cash' >= reserveBalance
  BY <1>1 DEF mint, PoolInv, TypeOK, ReserveInCash, Solvent
<1>4. QED  BY <1>2, <1>3, SharesOperation DEF mint, PoolInv, TypeOK

LEMMA AllowanceType ==
  ASSUME TypeOK, NEW owner \in LPs, NEW spender \in LPs, NEW shares \in Nat,
         SpendAllowance(owner, spender, shares)
  PROVE  allowance' \in [LPs -> [LPs -> Nat]]
<1>1. CASE UNCHANGED allowance
  BY <1>1 DEF TypeOK
<1>2. CASE ~UNCHANGED allowance
  <2>1. /\ allowance[owner][spender] >= shares
        /\ allowance' = [allowance EXCEPT ![owner][spender] = allowance[owner][spender] - shares]
    BY <1>2 DEF SpendAllowance
  <2>2. allowance[owner][spender] - shares \in Nat
    BY <2>1 DEF TypeOK
  <2>3. QED  BY <2>1, <2>2 DEF TypeOK
<1>3. QED  BY <1>1, <1>2

LEMMA TakeOutStep ==
  ASSUME PoolInv, NEW assets \in Nat, NEW shares \in Nat, NEW caller \in LPs, NEW owner \in LPs,
         TakeOut(assets, shares, caller, owner)
  PROVE  PoolInv'
<1>1. balanceOf' \in [LPs -> Nat] /\ totalSupply' \in Nat /\ SharesAddUp'
  BY BurnStep DEF TakeOut
<1>2. allowance' \in [LPs -> [LPs -> Nat]]
  BY AllowanceType DEF TakeOut, PoolInv
<1>3. cooldowns' \in [LPs -> [timestamp : Nat, shares : Nat]]
  BY DEF TakeOut, NoCooldown, PoolInv, TypeOK
<1>4. cash' \in Nat /\ cash' >= reserveBalance
  BY DEF TakeOut, availableLiquidity, IdleOf, PoolInv, TypeOK
<1>5. QED  BY <1>1, <1>2, <1>3, <1>4, SharesOperation DEF TakeOut

LEMMA CooldownStep ==
  ASSUME PoolInv, NEW lp \in LPs, cooldown(lp)
  PROVE  PoolInv'
<1>1. cooldowns' \in [LPs -> [timestamp : Nat, shares : Nat]]
  BY DEF cooldown, PoolInv, TypeOK
<1>2. SharesAddUp'
  BY SharesFrame DEF cooldown, PoolInv
<1>3. QED
  BY <1>1, <1>2, SharesOperation DEF cooldown, PoolInv, TypeOK, ReserveInCash, Solvent

LEMMA LPSteps == PoolInv /\ LPCall => PoolInv'
<1> SUFFICES ASSUME PoolInv, NEW lp \in LPs, NEW amount \in ShareAmounts, NEW caller \in LPs,
                    \/ deposit(amount, lp) \/ mint(amount, lp)
                    \/ withdraw(amount, caller, lp) \/ redeem(amount, caller, lp)
                    \/ cooldown(lp)
             PROVE  PoolInv'
  BY DEF LPCall
<1>1. amount \in Nat /\ previewWithdraw(amount) \in Nat /\ convertToAssets(amount) \in Nat
  BY QuotesType
<1>2. CASE withdraw(amount, caller, lp)
  BY <1>1, <1>2, TakeOutStep DEF withdraw
<1>3. CASE redeem(amount, caller, lp)
  BY <1>1, <1>3, TakeOutStep DEF redeem
<1>4. QED  BY <1>2, <1>3, DepositStep, MintSharesStep, CooldownStep

\* Moving shares, also to oneself, neither creates nor destroys any.
LEMMA TransferStep ==
  ASSUME PoolInv, NEW caller \in LPs, NEW from \in LPs, NEW to \in LPs, NEW amount \in ShareAmounts,
         transferFrom(caller, from, to, amount)
  PROVE  PoolInv'
<1> DEFINE before == balanceOf
           paid == [balanceOf EXCEPT ![from] = @ - amount]
           after == [paid EXCEPT ![to] = @ + amount]
<1>1. /\ before \in [LPs -> Nat] /\ amount \in Nat
      /\ before[from] >= amount /\ balanceOf' = after
  BY DEF transferFrom, Moved, PoolInv, TypeOK
<1>2. /\ paid \in [LPs -> Nat] /\ paid[from] = before[from] - amount
      /\ \A b \in LPs \ {from} : paid[b] = before[b]
  BY <1>1
<1> HIDE DEF paid
<1>3. /\ after \in [LPs -> Nat] /\ after[to] = paid[to] + amount
      /\ \A b \in LPs \ {to} : after[b] = paid[b]
  BY <1>1, <1>2
<1>4. totalSupply = Total(before) /\ Total(balanceOf)' = Total(after)
  BY <1>1 DEF PoolInv, SharesAddUp, Total, Points, Column
<1> HIDE DEF before, after
<1>5. Total(paid) = Total(before) - before[from] + paid[from]
  BY <1>1, <1>2, TotalUpdate
<1>6. Total(after) = Total(paid) - paid[to] + after[to]
  BY <1>2, <1>3, TotalUpdate
<1>7. Total(before) \in Nat /\ Total(paid) \in Nat /\ before[from] \in Nat /\ paid[to] \in Nat
  BY <1>1, <1>2, TotalType
<1>8. Total(after) = Total(before)
  BY <1>1, <1>2, <1>3, <1>5, <1>6, <1>7
<1>9. SharesAddUp'
  BY <1>4, <1>8 DEF SharesAddUp, transferFrom
<1>10. allowance' \in [LPs -> [LPs -> Nat]]
  BY <1>1, AllowanceType DEF transferFrom, PoolInv
<1>11. TypeOK'
  BY <1>1, <1>3, <1>10 DEF transferFrom, PoolInv, TypeOK, indexVars, loanVars, modelVars
<1>12. LoansAddUp'
  BY LoansFrame DEF transferFrom, PoolInv, loanVars
<1>13. ReserveInCash' /\ ModelsSound' /\ IndexSound'
  BY DEF transferFrom, PoolInv, ReserveInCash, Solvent, ModelsSound, IndexSound,
         indexVars, loanVars, modelVars
<1>14. QED  BY <1>9, <1>11, <1>12, <1>13 DEF PoolInv

LEMMA ApproveStep ==
  ASSUME PoolInv, NEW owner \in LPs, NEW spender \in LPs, NEW amount \in Approvals,
         approve(owner, spender, amount)
  PROVE  PoolInv'
<1>1. allowance' \in [LPs -> [LPs -> Nat]]
  BY DEF approve, PoolInv, TypeOK
<1>2. TypeOK'
  BY <1>1 DEF approve, PoolInv, TypeOK, indexVars, loanVars, modelVars
<1>3. SharesAddUp' /\ LoansAddUp'
  BY SharesFrame, LoansFrame DEF approve, PoolInv, loanVars
<1>4. ReserveInCash' /\ ModelsSound' /\ IndexSound'
  BY DEF approve, PoolInv, ReserveInCash, Solvent, ModelsSound, IndexSound,
         indexVars, loanVars, modelVars
<1>5. QED  BY <1>2, <1>3, <1>4 DEF PoolInv
-----------------------------------------------------------------------------
(* The protocol's operations on loans *)

\* A loan replaced by a consistent one, its change booked in the totals, keeps
\* the invariant as long as the reserve stays in cash.
LEMMA LoanOperation ==
  ASSUME PoolInv, NEW held \in Nat, Accrue(held), NEW o \in OrderIds, NEW loan \in Loans,
         ActiveIffOwing(loan), SetLoan(o, loan),
         MoveDebt(loan.scaledPrincipal - loans[o].scaledPrincipal,
                  loan.rawPrincipal - loans[o].rawPrincipal),
         reserveBalance' \in Nat, cash' \in Nat, cash' >= reserveBalance',
         UNCHANGED <<shareVars, modelVars, now>>
  PROVE  PoolInv'
<1>1. /\ liquidityIndex' \in Nat /\ IndexSound' /\ currentBorrowRate' \in Nat
      /\ lastIndexUpdate' = now
  BY Accrues
<1>2. /\ loans' \in [OrderIds -> Loans] /\ LoansAddUp'
      /\ totalScaledDebt' \in Nat /\ totalPrincipalOut' \in Nat
  BY LoanStep DEF PoolInv
<1>3. TypeOK'
  BY <1>1, <1>2 DEF PoolInv, TypeOK, shareVars, modelVars
<1>4. SharesAddUp'
  BY SharesFrame DEF PoolInv, shareVars
<1>5. ReserveInCash' /\ ModelsSound'
  BY DEF PoolInv, ReserveInCash, Solvent, ModelsSound, modelVars
<1>6. QED  BY <1>1, <1>2, <1>3, <1>4, <1>5 DEF PoolInv

LEMMA FundStep ==
  ASSUME PoolInv, NEW o \in OrderIds, NEW principal \in LoanAmounts, NEW borrower \in Borrowers,
         fundClaim(o, principal, borrower)
  PROVE  PoolInv'
<1> DEFINE scaled == Scaled(principal, CurrentIndex)
           loan == [scaledPrincipal |-> scaled, rawPrincipal |-> principal,
                    borrower |-> borrower, active |-> TRUE]
<1>1. CurrentIndex \in Nat \ {0} /\ principal \in Nat
  BY IndexGrows DEF PoolInv
<1>2. scaled \in Nat /\ scaled > 0 /\ principal > 0
  BY <1>1, OwedType DEF fundClaim
<1>3. SetLoan(o, loan) /\ MoveDebt(scaled, principal)
  BY DEF fundClaim
<1> HIDE DEF scaled
<1>4. loan \in Loans /\ ActiveIffOwing(loan)
  BY <1>1, <1>2 DEF Loans, ActiveIffOwing
<1>5. loans[o].scaledPrincipal = 0 /\ loans[o].rawPrincipal = 0
  BY DEF fundClaim, PoolInv, LoansAddUp
<1>6. MoveDebt(loan.scaledPrincipal - loans[o].scaledPrincipal,
               loan.rawPrincipal - loans[o].rawPrincipal)
  BY <1>1, <1>2, <1>3, <1>5
<1>7. reserveBalance' \in Nat /\ cash' \in Nat /\ cash' >= reserveBalance'
  BY <1>1 DEF fundClaim, availableLiquidity, IdleOf, PoolInv, TypeOK
<1> HIDE DEF loan
<1>8. QED
  BY <1>3, <1>4, <1>6, <1>7, LoanOperation DEF fundClaim, PoolInv, TypeOK, loan

LEMMA IncreaseStep ==
  ASSUME PoolInv, NEW o \in OrderIds, NEW increase \in LoanAmounts, increaseClaim(o, increase)
  PROVE  PoolInv'
<1> DEFINE scaled == Scaled(increase, CurrentIndex)
           old == loans[o]
           loan == [old EXCEPT !.scaledPrincipal = @ + scaled, !.rawPrincipal = @ + increase]
<1>1. CurrentIndex \in Nat \ {0} /\ increase \in Nat
  BY IndexGrows DEF PoolInv
<1>2. scaled \in Nat /\ scaled > 0 /\ increase > 0
  BY <1>1, OwedType DEF increaseClaim
<1>3. SetLoan(o, loan) /\ MoveDebt(scaled, increase)
  BY DEF increaseClaim
<1> HIDE DEF scaled
<1>4. old \in Loans /\ old.active /\ ActiveIffOwing(old)
  BY DEF increaseClaim, PoolInv, TypeOK, LoansAddUp, ActiveIffOwing
<1> HIDE DEF old
<1>5. loan \in Loans /\ ActiveIffOwing(loan)
  <2>1. /\ loan.scaledPrincipal = old.scaledPrincipal + scaled /\ loan.scaledPrincipal \in Nat
        /\ loan.rawPrincipal = old.rawPrincipal + increase /\ loan.rawPrincipal \in Nat
        /\ loan.active <=> old.active
    BY <1>1, <1>2, <1>4 DEF Loans
  <2>2. loan \in Loans
    BY <1>4, <2>1 DEF Loans
  <2>3. QED  BY <1>1, <1>2, <1>4, <2>1, <2>2 DEF Loans, ActiveIffOwing
<1>6. /\ loan.scaledPrincipal - old.scaledPrincipal = scaled
      /\ loan.rawPrincipal - old.rawPrincipal = increase
  BY <1>1, <1>2, <1>4 DEF Loans
<1>7. reserveBalance' \in Nat /\ cash' \in Nat /\ cash' >= reserveBalance'
  BY <1>1 DEF increaseClaim, availableLiquidity, IdleOf, PoolInv, TypeOK
<1> HIDE DEF loan
<1>8. QED
  BY <1>3, <1>5, <1>6, <1>7, LoanOperation DEF increaseClaim, PoolInv, TypeOK, old

\* A partial payment leaves scaled debt: rounding down never clears a loan.
LEMMA PartialReduction ==
  ASSUME NEW scaled \in Nat, NEW index \in Nat \ {0}, NEW amount \in Nat,
         amount < Owed(scaled, index)
  PROVE  Scaled(amount, index) \in Nat /\ Scaled(amount, index) < scaled
<1> DEFINE owed == Owed(scaled, index)
           cut == Scaled(amount, index)
<1>1. owed \in Nat /\ owed * RAY <= scaled * index
  BY MulDivBounds DEF Owed
<1>2. cut \in Nat /\ cut * index <= amount * RAY
  BY MulDivBounds DEF Scaled
<1> HIDE DEF owed, cut
<1>3. amount * RAY < owed * RAY
  BY <1>1 DEF owed
<1>4. cut * index < scaled * index
  BY <1>1, <1>2, <1>3
<1>5. cut < scaled
  <2>1. SUFFICES ASSUME scaled <= cut PROVE FALSE
    BY <1>2
  <2>2. scaled * index <= cut * index
    BY <1>2, <2>1
  <2>3. QED  BY <1>2, <1>4, <2>2
<1>6. QED  BY <1>2, <1>5 DEF cut

LEMMA RepaymentStep ==
  ASSUME PoolInv, NEW o \in OrderIds, NEW amount \in Nat, settleRepayment(o, amount)
  PROVE  PoolInv'
<1> DEFINE loan == loans[o]
           current == Owed(loan.scaledPrincipal, CurrentIndex)
           interest_paid == Smaller(amount, current - loan.rawPrincipal)
           principal_paid == amount - interest_paid
           reduction == ScaledReduction(loan, amount, current)
           share == MulDiv(interest_paid, rateModel.reserveFactor, RAY)
           settled == [loan EXCEPT !.scaledPrincipal = @ - reduction,
                                   !.rawPrincipal = @ - principal_paid,
                                   !.active = loan.rawPrincipal # principal_paid]
<1>1. /\ loan \in Loans /\ loan.scaledPrincipal \in Nat /\ loan.rawPrincipal \in Nat
      /\ loan.active /\ loan.scaledPrincipal > 0 /\ loan.rawPrincipal > 0
  BY DEF settleRepayment, PoolInv, TypeOK, LoansAddUp, Loans
<1>2. CurrentIndex \in Nat \ {0}
  BY IndexGrows DEF PoolInv
<1>3. current \in Nat /\ amount <= current /\ loan.rawPrincipal <= current
  BY <1>1, <1>2, OwedType DEF settleRepayment
<1>4. /\ reserveBalance' = reserveBalance + share
      /\ MoveDebt(-reduction, -principal_paid) /\ SetLoan(o, settled)
      /\ cash' = cash + amount /\ Accrue(cash + amount)
      /\ UNCHANGED <<shareVars, modelVars, now>>
  BY DEF settleRepayment
<1>5. reduction \in 0 .. loan.scaledPrincipal /\ (reduction = loan.scaledPrincipal <=> amount = current)
  <2>1. CASE amount = current
    BY <1>1, <2>1 DEF ScaledReduction
  <2>2. CASE amount < current
    <3>1. /\ Scaled(amount, CurrentIndex) \in Nat
          /\ Scaled(amount, CurrentIndex) < loan.scaledPrincipal
      BY <1>1, <1>2, <2>2, PartialReduction
    <3>2. reduction = Scaled(amount, CurrentIndex)
      BY <1>3, <2>2 DEF ScaledReduction
    <3> HIDE DEF reduction, current, loan
    <3>3. QED  BY <1>1, <1>3, <2>2, <3>1, <3>2
  <2>3. QED  BY <1>3, <2>1, <2>2
<1> HIDE DEF loan, current, reduction
<1>6. interest_paid \in 0 .. amount
  BY <1>1, <1>3 DEF Smaller
<1>7. /\ principal_paid \in 0 .. loan.rawPrincipal
      /\ principal_paid = loan.rawPrincipal <=> amount = current
  BY <1>1, <1>3 DEF Smaller
<1>8. share \in 0 .. interest_paid
  <2>1. rateModel.reserveFactor \in 0 .. RAY
    BY DEF PoolInv, TypeOK, ModelsSound, ValidModel, RateModels
  <2>2. QED  BY <1>6, <2>1, MulDivShare
<1> HIDE DEF interest_paid, principal_paid, share
<1>9. settled \in Loans /\ ActiveIffOwing(settled)
  <2>1. /\ settled.scaledPrincipal = loan.scaledPrincipal - reduction
        /\ settled.scaledPrincipal \in Nat
        /\ settled.rawPrincipal = loan.rawPrincipal - principal_paid
        /\ settled.rawPrincipal \in Nat
        /\ settled.active = (loan.rawPrincipal # principal_paid)
    BY <1>1, <1>5, <1>7 DEF Loans
  <2>2. settled \in Loans
    BY <1>1, <2>1 DEF Loans
  <2>3. settled.active <=> amount # current
    BY <1>7, <2>1
  <2>4. settled.active => settled.scaledPrincipal > 0 /\ settled.rawPrincipal > 0
    BY <1>1, <1>5, <1>7, <2>1, <2>3
  <2>5. ~settled.active => settled.scaledPrincipal = 0 /\ settled.rawPrincipal = 0
    BY <1>1, <1>5, <1>7, <2>1, <2>3
  <2>6. QED  BY <2>2, <2>4, <2>5 DEF ActiveIffOwing
<1>10. /\ settled.scaledPrincipal - loan.scaledPrincipal = -reduction
       /\ settled.rawPrincipal - loan.rawPrincipal = -principal_paid
  BY <1>1, <1>5, <1>7 DEF Loans
<1>11. /\ reserveBalance' \in Nat /\ cash' \in Nat /\ cash' >= reserveBalance'
       /\ cash + amount \in Nat
  BY <1>4, <1>6, <1>8 DEF PoolInv, TypeOK, ReserveInCash, Solvent
<1> HIDE DEF settled
<1>12. QED
  BY <1>4, <1>9, <1>10, <1>11, LoanOperation DEF loan

\* A repayment closes its loan exactly when it pays the whole debt, and touches
\* no other loan.
LEMMA RepaymentCloses ==
  ASSUME PoolInv, NEW o \in OrderIds, NEW amount \in Nat, settleRepayment(o, amount)
  PROVE  /\ loans[o].active /\ currentDebt(o) \in Nat
         /\ loans'[o].active <=> amount # currentDebt(o)
         /\ loans'[o].borrower = loans[o].borrower
         /\ \A q \in OrderIds \ {o} : loans'[q] = loans[q]
<1> DEFINE loan == loans[o]
           current == Owed(loan.scaledPrincipal, CurrentIndex)
           principal_paid == amount - Smaller(amount, current - loan.rawPrincipal)
<1>1. /\ loans \in [OrderIds -> Loans] /\ loan.active /\ loan.rawPrincipal \in Nat
      /\ loan.scaledPrincipal \in Nat /\ loan.rawPrincipal > 0
  BY DEF settleRepayment, PoolInv, TypeOK, LoansAddUp, Loans
<1>2. current \in Nat /\ current = currentDebt(o)
  BY <1>1, IndexGrows, OwedType DEF PoolInv, currentDebt
<1>3. /\ loans'[o].active <=> loan.rawPrincipal # principal_paid
      /\ loans'[o].borrower = loan.borrower
      /\ \A q \in OrderIds \ {o} : loans'[q] = loans[q]
      /\ amount <= current /\ loan.rawPrincipal <= current
  BY <1>1 DEF settleRepayment, SetLoan, Loans
<1> HIDE DEF loan, current
<1>4. loan.rawPrincipal # principal_paid <=> amount # current
  BY <1>1, <1>2, <1>3 DEF Smaller
<1>5. QED  BY <1>1, <1>2, <1>3, <1>4 DEF loan

LEMMA LiquidationStep ==
  ASSUME PoolInv, NEW o \in OrderIds, NEW recovered \in Nat, settleLiquidation(o, recovered)
  PROVE  PoolInv'
<1> DEFINE loan == loans[o]
           current == Owed(loan.scaledPrincipal, CurrentIndex)
           closed == [loan EXCEPT !.scaledPrincipal = 0, !.rawPrincipal = 0, !.active = FALSE]
<1>1. loan \in Loans /\ loan.scaledPrincipal \in Nat /\ loan.rawPrincipal \in Nat
  BY DEF PoolInv, TypeOK, Loans
<1>2. current \in Nat /\ recovered <= current
  BY <1>1, IndexGrows, OwedType DEF settleLiquidation, PoolInv
<1>3. /\ MoveDebt(-loan.scaledPrincipal, -loan.rawPrincipal) /\ SetLoan(o, closed)
      /\ reserveBalance' = reserveBalance - ReserveUsed(current - recovered)
      /\ cash' = cash + recovered /\ Accrue(cash + recovered)
      /\ UNCHANGED <<shareVars, modelVars, now>>
  BY DEF settleLiquidation
<1> HIDE DEF loan, current
<1>4. closed \in Loans /\ ActiveIffOwing(closed)
  BY <1>1 DEF Loans, ActiveIffOwing
<1>5. /\ closed.scaledPrincipal - loan.scaledPrincipal = -loan.scaledPrincipal
      /\ closed.rawPrincipal - loan.rawPrincipal = -loan.rawPrincipal
  BY <1>1 DEF Loans
<1>6. /\ reserveBalance' \in Nat /\ cash' \in Nat /\ cash' >= reserveBalance'
      /\ cash + recovered \in Nat
  BY <1>2, <1>3 DEF ReserveUsed, Smaller, PoolInv, TypeOK, ReserveInCash, Solvent
<1> HIDE DEF closed
<1>7. QED
  BY <1>3, <1>4, <1>5, <1>6, LoanOperation DEF loan

LEMMA DebtType ==
  ASSUME TypeOK, IndexSound, NEW o \in OrderIds
  PROVE  currentDebt(o) \in Nat
<1>1. loans[o].scaledPrincipal \in Nat
  BY DEF TypeOK, Loans
<1>2. QED  BY <1>1, IndexGrows, OwedType DEF currentDebt

LEMMA ClaimSteps == PoolInv /\ ClaimCall => PoolInv'
<1> SUFFICES ASSUME PoolInv, NEW o \in OrderIds, NEW amount \in LoanAmounts,
                    \/ \E b \in Borrowers : fundClaim(o, amount, b)
                    \/ increaseClaim(o, amount)
                    \/ settleRepayment(o, amount) \/ settleRepayment(o, currentDebt(o))
                    \/ settleLiquidation(o, amount) \/ settleLiquidation(o, currentDebt(o))
             PROVE  PoolInv'
  BY DEF ClaimCall
<1>1. amount \in Nat /\ currentDebt(o) \in Nat
  BY DebtType DEF PoolInv
<1>2. QED  BY <1>1, FundStep, IncreaseStep, RepaymentStep, LiquidationStep
-----------------------------------------------------------------------------
(* The owner, the clock, and the whole *)

LEMMA OwnerSteps == PoolInv /\ OwnerCall => PoolInv'
<1> SUFFICES ASSUME PoolInv, OwnerCall  PROVE PoolInv'
  OBVIOUS
<1>1. CASE apply_rate_model
  <2> DEFINE model == pendingRateModel.model
  <2>1. model \in RateModels /\ ValidModel(model) /\ cash \in Nat
    BY DEF PoolInv, TypeOK, ModelsSound
  <2>2. /\ liquidityIndex' \in Nat /\ IndexSound' /\ currentBorrowRate' \in Nat
        /\ lastIndexUpdate' = now
    BY <1>1, <2>1, AccrueStep DEF apply_rate_model
  <2>3. /\ rateModel' \in RateModels /\ ModelsSound'
        /\ pendingRateModel' \in [model : RateModels, executeAfter : Nat]
    BY <1>1, <2>1 DEF apply_rate_model, NoPendingModel, ModelsSound
  <2>4. TypeOK'
    BY <1>1, <2>2, <2>3 DEF apply_rate_model, PoolInv, TypeOK, shareVars, loanVars
  <2>5. SharesAddUp' /\ LoansAddUp' /\ ReserveInCash'
    BY <1>1, SharesFrame, LoansFrame DEF apply_rate_model, PoolInv, ReserveInCash, Solvent,
       shareVars, loanVars
  <2>6. QED  BY <2>2, <2>3, <2>4, <2>5 DEF PoolInv
<1>2. CASE \E m \in Models : set_rate_model(m)
  <2>1. PICK m \in Models : set_rate_model(m)
    BY <1>2
  <2>2. /\ pendingRateModel' = [model |-> m, executeAfter |-> now + ConfigDelay]
        /\ m \in RateModels /\ ValidModel(m)
    BY <2>1 DEF set_rate_model
  <2>3. pendingRateModel' \in [model : RateModels, executeAfter : Nat]
    BY <2>2 DEF PoolInv, TypeOK
  <2>4. TypeOK'
    BY <2>1, <2>3 DEF set_rate_model, PoolInv, TypeOK, shareVars, indexVars, loanVars
  <2>5. SharesAddUp' /\ LoansAddUp'
    BY <2>1, SharesFrame, LoansFrame DEF set_rate_model, PoolInv, shareVars, loanVars
  <2>6. ReserveInCash' /\ ModelsSound' /\ IndexSound'
    BY <2>1, <2>2 DEF set_rate_model, PoolInv, ReserveInCash, Solvent, ModelsSound, IndexSound,
       indexVars, loanVars
  <2>7. QED  BY <2>4, <2>5, <2>6 DEF PoolInv
<1>3. QED  BY <1>1, <1>2 DEF OwnerCall

LEMMA QuietStep ==
  ASSUME PoolInv, UNCHANGED poolVars, now' \in Nat, now' >= now
  PROVE  PoolInv'
<1>1. TypeOK'
  BY DEF PoolInv, TypeOK, poolVars, shareVars, indexVars, loanVars, modelVars
<1>2. SharesAddUp' /\ LoansAddUp'
  BY SharesFrame, LoansFrame DEF PoolInv, poolVars, shareVars, loanVars
<1>3. ReserveInCash' /\ ModelsSound' /\ IndexSound'
  BY DEF PoolInv, ReserveInCash, Solvent, ModelsSound, IndexSound,
     poolVars, indexVars, loanVars, modelVars
<1>4. QED  BY <1>1, <1>2, <1>3 DEF PoolInv

\* Debt tokens that reach the pool outside its own operations.
LEMMA ReceiptStep ==
  ASSUME PoolInv, NEW amount \in Nat, cash' = cash + amount,
         UNCHANGED <<shareVars, indexVars, loanVars, modelVars, now>>
  PROVE  PoolInv'
<1>1. cash' \in Nat /\ cash' >= reserveBalance
  BY DEF PoolInv, TypeOK, ReserveInCash, Solvent
<1>2. TypeOK'
  BY <1>1 DEF PoolInv, TypeOK, shareVars, indexVars, loanVars, modelVars
<1>3. SharesAddUp' /\ LoansAddUp'
  BY SharesFrame, LoansFrame DEF PoolInv, shareVars, loanVars
<1>4. ReserveInCash' /\ ModelsSound' /\ IndexSound'
  BY <1>1 DEF PoolInv, ReserveInCash, Solvent, ModelsSound, IndexSound,
     indexVars, loanVars, modelVars
<1>5. QED  BY <1>2, <1>3, <1>4 DEF PoolInv

LEMMA InitInvariant == Init => PoolInv
<1> SUFFICES ASSUME Init  PROVE PoolInv
  OBVIOUS
<1>1. CalculateRate(InitialModel, 0) \in Nat
  BY RateType
<1>2. TypeOK
  BY <1>1 DEF Init, TypeOK, Loans, NoLoan, NoPendingModel, NoCooldown
<1>3. SharesAddUp
  <2>1. balanceOf \in [LPs -> Nat] /\ \A a \in LPs : balanceOf[a] = 0
    BY DEF Init
  <2>2. QED  BY <2>1, TotalZero DEF Init, SharesAddUp
<1>4. LoansAddUp
  <2>1. \A o \in OrderIds : loans[o] = NoLoan
    BY DEF Init
  <2>2. /\ ScaledOf \in [OrderIds -> Nat] /\ \A o \in OrderIds : ScaledOf[o] = 0
        /\ RawOf \in [OrderIds -> Nat] /\ \A o \in OrderIds : RawOf[o] = 0
    BY <2>1 DEF ScaledOf, RawOf, NoLoan
  <2>3. Total(ScaledOf) = 0 /\ Total(RawOf) = 0
    BY <2>2, TotalZero
  <2>4. QED  BY <2>1, <2>3 DEF Init, LoansAddUp, ScaledOf, RawOf, NoLoan
<1>5. ReserveInCash /\ ModelsSound /\ IndexSound
  BY DEF Init, ReserveInCash, Solvent, ModelsSound, IndexSound, NoPendingModel
<1>6. QED  BY <1>2, <1>3, <1>4, <1>5 DEF PoolInv

LEMMA NextInvariant == PoolInv /\ [Next]_vars => PoolInv'
<1> SUFFICES ASSUME PoolInv, [Next]_vars  PROVE PoolInv'
  OBVIOUS
<1>1. CASE LPCall
  BY <1>1, LPSteps
<1>2. CASE TokenCall
  BY <1>2, TransferStep, ApproveStep DEF TokenCall
<1>3. CASE ClaimCall
  BY <1>3, ClaimSteps
<1>4. CASE OwnerCall
  BY <1>4, OwnerSteps
<1>5. CASE Tick \/ UNCHANGED vars
  BY <1>5, QuietStep DEF Tick, vars, PoolInv, TypeOK
<1>6. QED  BY <1>1, <1>2, <1>3, <1>4, <1>5 DEF Next

THEOREM PoolInvariant == Spec => []PoolInv
BY InitInvariant, NextInvariant, PTL DEF Spec

\* No checked subtraction of the pool ever underflows.
THEOREM TypeSafety == Spec => []TypeOK
<1>1. PoolInv => TypeOK  BY DEF PoolInv
<1>2. QED  BY <1>1, PoolInvariant, PTL

\* deposit, mint, withdraw, redeem and transfers keep totalSupply the sum of all
\* share balances.
THEOREM SharesAlwaysAddUp == Spec => []SharesAddUp
<1>1. PoolInv => SharesAddUp  BY DEF PoolInv
<1>2. QED  BY <1>1, PoolInvariant, PTL

\* fundClaim, increaseClaim and both settlements keep the pool-wide debts the sums
\* over the loans, and close a loan exactly when nothing is owed on it.
THEOREM LoansAlwaysAddUp == Spec => []LoansAddUp
<1>1. PoolInv => LoansAddUp  BY DEF PoolInv
<1>2. QED  BY <1>1, PoolInvariant, PTL

\* No lending, withdrawal or settlement takes the reserve out of the pool's cash,
\* so _idleLiquidity never underflows.
THEOREM ReserveAlwaysInCash == Spec => []ReserveInCash
<1>1. PoolInv => ReserveInCash  BY DEF PoolInv
<1>2. QED  BY <1>1, PoolInvariant, PTL
-----------------------------------------------------------------------------
(* What a step does to debts that it does not touch *)

Accrued == liquidityIndex' = CurrentIndex /\ lastIndexUpdate' = now /\ now' = now

\* An operation that accrues up to now or leaves the index alone does not move
\* the index as it is read from outside.
LEMMA SameMoment ==
  ASSUME PoolInv, PoolInv', Accrued \/ UNCHANGED <<indexVars, now>>
  PROVE  CurrentIndex \in Nat \ {0} /\ CurrentIndex' = CurrentIndex
<1>1. CurrentIndex \in Nat \ {0}
  BY IndexGrows DEF PoolInv
<1>2. CASE Accrued
  BY <1>1, <1>2, AccruedIndex DEF Accrued, PoolInv, TypeOK
<1>3. CASE UNCHANGED <<indexVars, now>>
  <2>1. CurrentIndex' = CurrentIndex
    BY <1>3 DEF CurrentIndex, indexVars
  <2>2. QED  BY <1>1, <2>1
<1>4. QED  BY <1>2, <1>3

\* Every operation does so, and the clock only raises the index.
LEMMA IndexStep ==
  ASSUME PoolInv, PoolInv', [Next]_vars
  PROVE  /\ CurrentIndex \in Nat \ {0} /\ CurrentIndex' \in Nat \ {0}
         /\ CurrentIndex' >= CurrentIndex
         /\ now' = now => CurrentIndex' = CurrentIndex
<1>1. CurrentIndex \in Nat \ {0}
  BY IndexGrows DEF PoolInv
<1>2. CASE Accrued
  BY <1>2, SameMoment DEF Accrued
<1>3. CASE UNCHANGED <<indexVars, now>>
  BY <1>3, SameMoment
<1>4. CASE Tick
  <2> DEFINE growth == MulDiv(currentBorrowRate, now - lastIndexUpdate, SecondsPerYear)
             later == MulDiv(currentBorrowRate, (now + 1) - lastIndexUpdate, SecondsPerYear)
  <2>1. /\ now - lastIndexUpdate \in Nat /\ (now + 1) - lastIndexUpdate \in Nat
        /\ now - lastIndexUpdate <= (now + 1) - lastIndexUpdate
        /\ currentBorrowRate \in Nat /\ liquidityIndex \in Nat
    BY DEF PoolInv, TypeOK
  <2>2. growth \in Nat /\ later \in Nat
    BY <2>1, MulDivBounds
  <2>3. growth <= later
    BY <2>1, MulDivMonotone
  <2>4. /\ now' = now + 1 /\ liquidityIndex' = liquidityIndex
        /\ currentBorrowRate' = currentBorrowRate /\ lastIndexUpdate' = lastIndexUpdate
    BY <1>4 DEF Tick, poolVars, indexVars
  <2>5. /\ CurrentIndex = MulDiv(liquidityIndex, RAY + growth, RAY)
        /\ CurrentIndex' = MulDiv(liquidityIndex, RAY + later, RAY)
    BY <2>4 DEF CurrentIndex
  <2> HIDE DEF growth, later
  <2>6. RAY + growth \in Nat /\ RAY + later \in Nat /\ RAY + growth <= RAY + later
    BY <2>2, <2>3
  <2>7. CurrentIndex' \in Nat /\ CurrentIndex' >= CurrentIndex
    BY <2>1, <2>5, <2>6, MulDivBounds, MulDivMonotone
  <2>8. now' # now
    BY <2>4 DEF PoolInv, TypeOK
  <2>9. QED  BY <1>1, <2>7, <2>8
<1>5. LPCall => Accrued
  BY DEF LPCall, deposit, mint, withdraw, redeem, TakeOut, cooldown, Accrue, AccrueWith, Accrued
<1>6. ClaimCall => Accrued
  <2> SUFFICES ASSUME NEW o \in OrderIds, NEW amount,
                      \/ \E b \in Borrowers : fundClaim(o, amount, b)
                      \/ increaseClaim(o, amount)
                      \/ settleRepayment(o, amount) \/ settleLiquidation(o, amount)
               PROVE  Accrued
    BY Zenon DEF ClaimCall
  <2>1. (\E b \in Borrowers : fundClaim(o, amount, b)) => Accrued
    BY DEF fundClaim, Accrue, AccrueWith, Accrued
  <2>2. increaseClaim(o, amount) => Accrued
    BY DEF increaseClaim, Accrue, AccrueWith, Accrued
  <2>3. settleRepayment(o, amount) => Accrued
    BY DEF settleRepayment, Accrue, AccrueWith, Accrued
  <2>4. settleLiquidation(o, amount) => Accrued
    BY DEF settleLiquidation, Accrue, AccrueWith, Accrued
  <2>5. QED  BY <2>1, <2>2, <2>3, <2>4
<1>7. OwnerCall => Accrued \/ UNCHANGED <<indexVars, now>>
  BY DEF OwnerCall, apply_rate_model, set_rate_model, AccrueWith, Accrued
<1>8. TokenCall => UNCHANGED <<indexVars, now>>
  BY DEF TokenCall, approve, transferFrom
<1>9. QED
  BY <1>2, <1>3, <1>4, <1>5, <1>6, <1>7, <1>8 DEF Next, vars, poolVars

\* Nobody's past interest changes: whichever operation updates the index and
\* whatever rate model the owner applies, an untouched loan owes the same at the
\* same moment, and never less later.
THEOREM AccrualAlwaysTransparent == Spec => AccrualIsTransparent
<1> DEFINE Transparent == \A o \in OrderIds :
             loans'[o] = loans[o] =>
               /\ currentDebt(o)' >= currentDebt(o)
               /\ now' = now => currentDebt(o)' = currentDebt(o)
<1>1. PoolInv /\ PoolInv' /\ [Next]_vars => Transparent
  <2> SUFFICES ASSUME PoolInv, PoolInv', [Next]_vars, NEW o \in OrderIds, loans'[o] = loans[o]
               PROVE  /\ currentDebt(o)' >= currentDebt(o)
                      /\ now' = now => currentDebt(o)' = currentDebt(o)
    OBVIOUS
  <2> DEFINE scaled == loans[o].scaledPrincipal
             then == IF loans[o].active THEN Owed(scaled, CurrentIndex') ELSE 0
  <2>1. /\ CurrentIndex \in Nat \ {0} /\ CurrentIndex' \in Nat \ {0}
        /\ CurrentIndex' >= CurrentIndex
        /\ now' = now => CurrentIndex' = CurrentIndex
    BY IndexStep
  <2>2. currentDebt(o)' = then
    BY DEF currentDebt, Owed
  <2>3. scaled \in Nat
    BY DEF PoolInv, TypeOK, Loans
  <2> HIDE DEF scaled
  <2>4. /\ Owed(scaled, CurrentIndex) \in Nat
        /\ Owed(scaled, CurrentIndex) <= Owed(scaled, CurrentIndex')
    <3>1. Owed(scaled, CurrentIndex) \in Nat
      BY <2>1, <2>3, OwedType
    <3>2. ASSUME NEW i \in Nat, NEW j \in Nat, i <= j
          PROVE  Owed(scaled, i) <= Owed(scaled, j)
      <4>1. scaled <= scaled
        BY <2>3
      <4>2. QED  BY <2>3, <3>2, <4>1, MulDivMonotone DEF Owed
    <3>3. QED  BY <2>1, <3>1, <3>2
  <2>5. currentDebt(o)' >= currentDebt(o)
    BY <2>2, <2>4 DEF currentDebt, scaled
  <2>6. now' = now => currentDebt(o)' = currentDebt(o)
    BY <2>1, <2>2 DEF currentDebt, scaled
  <2>7. QED  BY <2>5, <2>6
<1>2. QED
  BY <1>1, PoolInvariant, PTL DEF Spec, AccrualIsTransparent
-----------------------------------------------------------------------------
(* What a step does to the assets behind a share *)

\* While no loan and no time moves, totalAssets follows the cash and the reserve.
LEMMA AssetsStep ==
  ASSUME PoolInv, PoolInv', [Next]_vars, now' = now, loans' = loans
  PROVE  /\ totalAssets \in Nat /\ totalAssets' \in Nat
         /\ totalAssets' = totalAssets + (cash' - cash) - (reserveBalance' - reserveBalance)
<1> DEFINE owed == Owed(totalScaledDebt, CurrentIndex)
           held == cash'
           kept == reserveBalance'
<1>1. CurrentIndex' = CurrentIndex /\ CurrentIndex \in Nat \ {0}
  BY IndexStep
<1>2. totalScaledDebt' = totalScaledDebt
  BY DEF PoolInv, LoansAddUp
<1>3. owed \in Nat /\ owed' = owed
  BY <1>1, <1>2, OwedType DEF PoolInv, TypeOK, Owed
<1>4. /\ totalAssets = (cash - reserveBalance) + owed
      /\ totalAssets' = (held - kept) + owed
  BY <1>3 DEF totalAssets, TotalAssetsWith, IdleOf
<1>5. /\ cash \in Nat /\ reserveBalance \in Nat /\ cash >= reserveBalance
      /\ held \in Nat /\ kept \in Nat /\ held >= kept
  BY DEF PoolInv, TypeOK, ReserveInCash, Solvent
<1> HIDE DEF owed, held, kept
<1>6. totalAssets \in Nat /\ totalAssets' \in Nat
  BY <1>3, <1>4, <1>5
<1>7. totalAssets' = totalAssets + (held - cash) - (kept - reserveBalance)
  BY <1>3, <1>4, <1>5
<1>8. QED  BY <1>6, <1>7 DEF held, kept

\* The rounding of each quote, as a comparison of assets and shares at the price.
LEMMA QuotesRound ==
  ASSUME PoolInv, NEW x \in Nat, totalSupply > 0, totalAssets > 0
  PROVE  /\ convertToShares(x) * totalAssets <= x * totalSupply
         /\ convertToAssets(x) * totalSupply <= x * totalAssets
         /\ previewWithdraw(x) * totalAssets >= x * totalSupply
         /\ previewMint(x) * totalSupply >= x * totalAssets
<1> DEFINE A == totalAssets
<1>1. A \in Nat \ {0} /\ totalSupply \in Nat \ {0} /\ ~Unpriced
  BY QuotesType DEF PoolInv, TypeOK, Unpriced
<1>2. /\ convertToShares(x) = MulDiv(x, totalSupply, A)
      /\ convertToAssets(x) = MulDiv(x, A, totalSupply)
      /\ previewWithdraw(x) = MulDivUp(x, totalSupply, A)
      /\ previewMint(x) = MulDivUp(x, A, totalSupply)
  BY <1>1 DEF convertToShares, convertToAssets, previewWithdraw, previewMint
<1> HIDE DEF A
<1>3. /\ MulDiv(x, totalSupply, A) * A <= x * totalSupply
      /\ MulDiv(x, A, totalSupply) * totalSupply <= x * A
      /\ MulDivUp(x, totalSupply, A) * A >= x * totalSupply
      /\ MulDivUp(x, A, totalSupply) * totalSupply >= x * A
  BY <1>1, MulDivBounds, MulDivUpBounds
<1>4. QED  BY <1>2, <1>3 DEF A

\* Assets and shares that come in at no better than the price, and that leave at
\* no better than the price, keep it up.
LEMMA PriceOfEntry ==
  ASSUME NEW A \in Nat, NEW S \in Nat, NEW assets \in Nat, NEW shares \in Nat,
         shares * A <= assets * S
  PROVE  (A + assets) * S >= A * (S + shares)
<1>1. (A + assets) * S = A * S + assets * S /\ A * (S + shares) = A * S + shares * A
  OBVIOUS
<1>2. QED  BY <1>1

LEMMA PriceOfExit ==
  ASSUME NEW A \in Nat, NEW S \in Nat, NEW assets \in Nat, NEW shares \in Nat,
         assets * S <= shares * A
  PROVE  (A - assets) * S >= A * (S - shares)
<1>1. (A - assets) * S = A * S - assets * S /\ A * (S - shares) = A * S - shares * A
  OBVIOUS
<1>2. QED  BY <1>1

\* Deposits, mints, withdrawals and redemptions round in favour of the providers
\* who stay: the assets behind a share never fall while no loan and no time moves.
THEOREM SharePriceAlwaysHolds == Spec => SharePriceHolds
<1> DEFINE Holds == now' = now /\ loans' = loans /\ totalSupply > 0 =>
                      totalAssets' * totalSupply >= totalAssets * totalSupply'
<1>1. PoolInv /\ PoolInv' /\ [Next]_vars => Holds
  <2> SUFFICES ASSUME PoolInv, PoolInv', [Next]_vars,
                      now' = now, loans' = loans, totalSupply > 0
               PROVE  totalAssets' * totalSupply >= totalAssets * totalSupply'
    OBVIOUS
  <2> DEFINE A == totalAssets
             S == totalSupply
  <2>1. /\ A \in Nat /\ A' \in Nat /\ S \in Nat /\ S' \in Nat /\ S > 0
        /\ cash \in Nat /\ reserveBalance \in Nat
        /\ A' = A + (cash' - cash) - (reserveBalance' - reserveBalance)
    BY AssetsStep DEF PoolInv, TypeOK
  <2>2. CASE A = 0
    BY <2>1, <2>2
  <2>3. ASSUME A' >= A, S' = S  PROVE A' * S >= A * S'
    BY <2>1, <2>3
  <2>4. ASSUME A > 0, LPCall  PROVE A' * S >= A * S'
    <3>1. PICK lp \in LPs, amount \in ShareAmounts, caller \in LPs :
            \/ deposit(amount, lp) \/ mint(amount, lp)
            \/ withdraw(amount, caller, lp) \/ redeem(amount, caller, lp)
            \/ cooldown(lp)
      BY <2>4 DEF LPCall
    <3> DEFINE toShares == convertToShares(amount)
               toAssets == convertToAssets(amount)
               burnt == previewWithdraw(amount)
               paid == previewMint(amount)
    <3>2. /\ amount \in Nat /\ toShares \in Nat /\ toAssets \in Nat
          /\ burnt \in Nat /\ paid \in Nat
      BY QuotesType
    <3>3. /\ toShares * A <= amount * S /\ toAssets * S <= amount * A
          /\ amount * S <= burnt * A /\ amount * A <= paid * S
      BY <2>1, <2>4, <3>2, QuotesRound
    <3>4. CASE deposit(amount, lp)
      <4>1. cash' = cash + amount /\ S' = S + toShares /\ reserveBalance' = reserveBalance
        BY <3>4 DEF deposit, Mint, loanVars
      <4> HIDE DEF A, S, toShares
      <4>2. A' = A + amount
        BY <2>1, <3>2, <4>1
      <4>3. QED  BY <2>1, <3>2, <3>3, <4>1, <4>2, PriceOfEntry
    <3>5. CASE mint(amount, lp)
      <4>1. cash' = cash + paid /\ S' = S + amount /\ reserveBalance' = reserveBalance
        BY <3>5 DEF mint, Mint, loanVars
      <4> HIDE DEF A, S, paid
      <4>2. A' = A + paid
        BY <2>1, <3>2, <4>1
      <4>3. QED  BY <2>1, <3>2, <3>3, <4>1, <4>2, PriceOfEntry
    <3>6. CASE withdraw(amount, caller, lp)
      <4>1. cash' = cash - amount /\ S' = S - burnt /\ reserveBalance' = reserveBalance
        BY <3>6 DEF withdraw, TakeOut, Burn, loanVars
      <4> HIDE DEF A, S, burnt
      <4>2. A' = A - amount
        BY <2>1, <3>2, <4>1
      <4>3. QED  BY <2>1, <3>2, <3>3, <4>1, <4>2, PriceOfExit
    <3>7. CASE redeem(amount, caller, lp)
      <4>1. cash' = cash - toAssets /\ S' = S - amount /\ reserveBalance' = reserveBalance
        BY <3>7 DEF redeem, TakeOut, Burn, loanVars
      <4> HIDE DEF A, S, toAssets
      <4>2. A' = A - toAssets
        BY <2>1, <3>2, <4>1
      <4>3. QED  BY <2>1, <3>2, <3>3, <4>1, <4>2, PriceOfExit
    <3>8. CASE cooldown(lp)
      <4>1. cash' = cash /\ S' = S /\ reserveBalance' = reserveBalance
        BY <3>8 DEF cooldown, loanVars
      <4>2. QED  BY <2>1, <2>3, <4>1
    <3>9. QED  BY <3>1, <3>4, <3>5, <3>6, <3>7, <3>8
  <2>5. ASSUME ClaimCall  PROVE A' >= A /\ S' = S
    <3>1. PICK o \in OrderIds, amount \in Nat :
            \/ \E b \in Borrowers : fundClaim(o, amount, b)
            \/ increaseClaim(o, amount)
            \/ settleRepayment(o, amount) \/ settleLiquidation(o, amount)
      <4>1. \A o \in OrderIds : currentDebt(o) \in Nat
        BY DebtType DEF PoolInv
      <4>2. QED  BY <2>5, <4>1 DEF ClaimCall
    <3>2. loans \in [OrderIds -> Loans]
      BY DEF PoolInv, TypeOK
    <3>3. ~(\E b \in Borrowers : fundClaim(o, amount, b))
      BY <3>2 DEF fundClaim, SetLoan
    <3>4. ~increaseClaim(o, amount)
      <4>1. SUFFICES ASSUME increaseClaim(o, amount)  PROVE FALSE
        OBVIOUS
      <4>2. loans'[o].rawPrincipal = loans[o].rawPrincipal + amount /\ amount > 0
        BY <3>2, <4>1 DEF increaseClaim, SetLoan, Loans
      <4>3. QED  BY <3>2, <4>2 DEF Loans
    <3>5. ~settleLiquidation(o, amount)
      BY <3>2 DEF settleLiquidation, SetLoan, Loans
    <3>6. CASE settleRepayment(o, amount)
      <4> DEFINE interest == Smaller(amount, Owed(loans[o].scaledPrincipal, CurrentIndex)
                                               - loans[o].rawPrincipal)
                 share == MulDiv(interest, rateModel.reserveFactor, RAY)
      <4>1. /\ cash' = cash + amount /\ S' = S
            /\ reserveBalance' = reserveBalance + share
        BY <3>6 DEF settleRepayment, shareVars
      <4>2. interest \in 0 .. amount
        <5>1. Owed(loans[o].scaledPrincipal, CurrentIndex) \in Nat
          BY <3>2, IndexGrows, OwedType DEF PoolInv, Loans
        <5>2. Owed(loans[o].scaledPrincipal, CurrentIndex) >= loans[o].rawPrincipal
          BY <3>6 DEF settleRepayment
        <5>3. QED  BY <3>2, <5>1, <5>2 DEF Smaller, Loans
      <4>3. rateModel.reserveFactor \in 0 .. RAY
        BY DEF PoolInv, TypeOK, ModelsSound, ValidModel, RateModels
      <4> HIDE DEF interest
      <4>4. share \in 0 .. interest
        BY <4>2, <4>3, MulDivShare
      <4> HIDE DEF share, A, S
      <4>5. QED  BY <2>1, <4>1, <4>2, <4>4
    <3>7. QED  BY <3>1, <3>3, <3>4, <3>5, <3>6
  <2>6. ASSUME TokenCall \/ OwnerCall \/ UNCHANGED vars  PROVE A' >= A /\ S' = S
    <3>1. UNCHANGED <<totalSupply, cash, reserveBalance>>
      BY <2>6 DEF TokenCall, approve, transferFrom, OwnerCall, apply_rate_model, set_rate_model,
         vars, poolVars, shareVars, loanVars
    <3>2. QED  BY <2>1, <3>1
  <2>7. ~Tick
    BY DEF Tick, PoolInv, TypeOK
  <2>8. QED
    BY <2>1, <2>2, <2>3, <2>4, <2>5, <2>6, <2>7 DEF Next
<1>2. QED
  BY <1>1, PoolInvariant, PTL DEF Spec, SharePriceHolds
-----------------------------------------------------------------------------
(* What lending and settling do to the worth of the pool *)

Unit(index) == MulDivUp(index, 1, RAY)

\* A new scaled debt s beside the pool's others t is worth s's own debt, or one more.
LEMMA OwedSum ==
  ASSUME NEW t \in Nat, NEW s \in Nat, NEW index \in Nat \ {0}
  PROVE  /\ Owed(t, index) \in Nat /\ Owed(t + s, index) \in Nat /\ Owed(s, index) \in Nat
         /\ Owed(t + s, index) - (Owed(t, index) + Owed(s, index)) \in 0 .. 1
<1>1. t + s \in Nat
  OBVIOUS
<1>2. Owed(t, index) \in Nat /\ Owed(t + s, index) \in Nat /\ Owed(s, index) \in Nat
  BY <1>1, OwedType
<1>3. Owed(t + s, index) - (Owed(t, index) + Owed(s, index)) \in 0 .. 1
  BY MulDivSum DEF Owed
<1>4. QED  BY <1>2, <1>3

\* An amount x of cash is exchanged for its scaled debt at no more than one unit's loss.
LEMMA OwedExchange ==
  ASSUME NEW t \in Nat, NEW x \in Nat, NEW index \in Nat \ {0}
  PROVE  /\ Scaled(x, index) \in Nat /\ Unit(index) \in Nat
         /\ Owed(t, index) \in Nat /\ Owed(t + Scaled(x, index), index) \in Nat
         /\ Owed(t + Scaled(x, index), index) - (Owed(t, index) + x) \in -Unit(index) .. 1
<1> DEFINE s == Scaled(x, index)
           p == Owed(t, index)
           q == Owed(s, index)
           r == Owed(t + s, index)
           unit == Unit(index)
<1>1. s \in Nat
  BY OwedType
<1>2. x - q \in 0 .. unit
  BY MulDivBack DEF Owed, Scaled, Unit
<1>3. unit \in Nat
  BY MulDivUpBounds DEF Unit
<1> HIDE DEF s
<1>4. p \in Nat /\ q \in Nat /\ r \in Nat /\ r - (p + q) \in 0 .. 1
  BY <1>1, OwedSum
<1> HIDE DEF p, q, r, unit
<1>5. r - (p + x) \in -unit .. 1
  BY <1>2, <1>3, <1>4
<1>6. QED  BY <1>1, <1>3, <1>4, <1>5 DEF s, p, r, unit

\* Cash lent out against a new scaled debt.
LEMMA LendingWorth ==
  ASSUME NEW held \in Nat, NEW after \in Nat, NEW t \in Nat, NEW u \in Nat, NEW x \in Nat,
         NEW index \in Nat \ {0}, after = held - x, u = t + Scaled(x, index)
  PROVE  (after + Owed(u, index)) - (held + Owed(t, index)) \in -(1 + Unit(index)) .. 1 + Unit(index)
<1> DEFINE p == Owed(t, index)
           r == Owed(u, index)
           unit == Unit(index)
<1>1. unit \in Nat /\ p \in Nat /\ r \in Nat /\ r - (p + x) \in -unit .. 1
  BY OwedExchange
<1> HIDE DEF p, r, unit
<1>2. (after + r) - (held + p) \in -(1 + unit) .. 1 + unit
  BY <1>1
<1>3. QED  BY <1>2 DEF p, r, unit

\* Cash taken in against a part of the scaled debt, or against all of a loan's.
LEMMA SettlingWorth ==
  ASSUME NEW held \in Nat, NEW after \in Nat, NEW t \in Nat, NEW u \in Nat, NEW x \in Nat,
         NEW s \in Nat, NEW index \in Nat \ {0}, after = held + x, t = u + s,
         s = Scaled(x, index) \/ x = Owed(s, index)
  PROVE  (after + Owed(u, index)) - (held + Owed(t, index)) \in -(1 + Unit(index)) .. 1 + Unit(index)
<1> DEFINE p == Owed(u, index)
           q == Owed(s, index)
           r == Owed(t, index)
           unit == Unit(index)
<1>1. unit \in Nat
  BY MulDivUpBounds DEF Unit
<1>2. p \in Nat /\ q \in Nat /\ r \in Nat /\ r - (p + q) \in 0 .. 1
  BY OwedSum
<1>3. s = Scaled(x, index) => r - (p + x) \in -unit .. 1
  BY OwedExchange
<1> HIDE DEF p, r, unit
<1>4. CASE s = Scaled(x, index)
  <2>1. (after + p) - (held + r) \in -(1 + unit) .. 1 + unit
    BY <1>1, <1>2, <1>3, <1>4
  <2>2. QED  BY <2>1 DEF p, r, unit
<1>5. CASE x = q
  <2> HIDE DEF q
  <2>1. (after + p) - (held + r) \in -(1 + unit) .. 1 + unit
    BY <1>1, <1>2, <1>5
  <2>2. QED  BY <2>1 DEF p, r, unit
<1>6. QED  BY <1>4, <1>5

\* Every operation on a loan is an exchange of that kind, a liquidation if it
\* recovers the whole debt.
FairTrade(o, amount) ==
  \/ \E b \in Borrowers : fundClaim(o, amount, b)
  \/ increaseClaim(o, amount)
  \/ settleRepayment(o, amount)
  \/ settleLiquidation(o, amount) /\ amount = currentDebt(o)

LEMMA FairTradeKeepsWorth ==
  ASSUME PoolInv, PoolInv', CurrentIndex' = CurrentIndex, NEW o \in OrderIds, NEW amount \in Nat,
         FairTrade(o, amount)
  PROVE  Worth' - Worth \in -RoundingSlack .. RoundingSlack
<1> DEFINE after == cash'
           u == totalScaledDebt'
           I == CurrentIndex
           s == loans[o].scaledPrincipal
<1>1. /\ I \in Nat \ {0} /\ cash \in Nat /\ after \in Nat
      /\ totalScaledDebt \in Nat /\ u \in Nat /\ s \in Nat
  BY IndexGrows DEF PoolInv, TypeOK, Loans
<1>2. /\ Worth = cash + Owed(totalScaledDebt, I) /\ Worth' = after + Owed(u, I)
      /\ RoundingSlack = 1 + Unit(I)
  BY DEF Worth, Owed, RoundingSlack, Unit
<1>3. CASE (\E b \in Borrowers : fundClaim(o, amount, b)) \/ increaseClaim(o, amount)
  <2>1. after = cash - amount /\ u = totalScaledDebt + Scaled(amount, I)
    BY <1>3 DEF fundClaim, increaseClaim, MoveDebt
  <2> HIDE DEF after, u, I
  <2>2. QED  BY <1>1, <1>2, <2>1, LendingWorth
<1>4. CASE settleRepayment(o, amount)
  <2> DEFINE cut == IF amount = Owed(s, I) THEN s ELSE Scaled(amount, I)
  <2>1. after = cash + amount /\ u = totalScaledDebt - cut
    BY <1>4 DEF settleRepayment, MoveDebt, ScaledReduction
  <2>2. Scaled(amount, I) \in Nat
    BY <1>1, OwedType
  <2>3. cut \in Nat /\ (cut = Scaled(amount, I) \/ amount = Owed(cut, I))
    BY <1>1, <2>2
  <2> HIDE DEF after, u, I, cut
  <2>4. totalScaledDebt = u + cut
    BY <1>1, <2>1, <2>3
  <2>5. QED  BY <1>1, <1>2, <2>1, <2>3, <2>4, SettlingWorth
<1>5. CASE settleLiquidation(o, amount) /\ amount = currentDebt(o)
  <2>1. after = cash + amount /\ u = totalScaledDebt - s /\ amount = Owed(s, I)
    BY <1>5 DEF settleLiquidation, MoveDebt, currentDebt
  <2> HIDE DEF after, u, I, s
  <2>2. totalScaledDebt = u + s
    BY <1>1, <2>1
  <2>3. QED  BY <1>1, <1>2, <2>1, <2>2, SettlingWorth
<1>6. QED  BY <1>3, <1>4, <1>5 DEF FairTrade

\* A step that changes a loan exchanges cash for debt of the same worth, up to the
\* rounding of one loan, unless a liquidation recovers less than the debt.
THEOREM LendingAlwaysKeepsWorth == Spec => LendingKeepsWorth
<1> DEFINE Keeps == now' = now /\ loans' # loans =>
             \/ Worth' - Worth \in -RoundingSlack .. RoundingSlack
             \/ \E o \in OrderIds : /\ loans[o].active /\ ~loans'[o].active
                                    /\ cash' - cash < currentDebt(o)
<1>1. PoolInv /\ PoolInv' /\ [Next]_vars => Keeps
  <2> SUFFICES ASSUME PoolInv, PoolInv', [Next]_vars, now' = now, loans' # loans
               PROVE  \/ Worth' - Worth \in -RoundingSlack .. RoundingSlack
                      \/ \E o \in OrderIds : /\ loans[o].active /\ ~loans'[o].active
                                             /\ cash' - cash < currentDebt(o)
    OBVIOUS
  <2>1. CurrentIndex' = CurrentIndex /\ CurrentIndex \in Nat \ {0}
    BY IndexStep
  <2>2. PICK o \in OrderIds, amount \in Nat :
          \/ \E b \in Borrowers : fundClaim(o, amount, b)
          \/ increaseClaim(o, amount)
          \/ settleRepayment(o, amount) \/ settleLiquidation(o, amount)
    <3>1. ClaimCall
      BY DEF Next, LPCall, deposit, mint, withdraw, redeem, TakeOut, cooldown, TokenCall, approve,
         transferFrom, OwnerCall, apply_rate_model, set_rate_model, Tick, vars, poolVars, loanVars
    <3>2. \A o \in OrderIds : currentDebt(o) \in Nat
      BY DebtType DEF PoolInv
    <3>3. QED  BY <3>1, <3>2 DEF ClaimCall
  <2>3. CASE FairTrade(o, amount)
    BY <2>1, <2>3, FairTradeKeepsWorth
  <2>4. CASE settleLiquidation(o, amount) /\ amount # currentDebt(o)
    <3> DEFINE after == cash'
    <3>1. /\ after = cash + amount /\ amount <= Owed(loans[o].scaledPrincipal, CurrentIndex)
          /\ loans[o].active /\ ~loans'[o].active
      BY <2>4 DEF settleLiquidation, SetLoan, PoolInv, TypeOK, Loans
    <3>2. currentDebt(o) = Owed(loans[o].scaledPrincipal, CurrentIndex) /\ currentDebt(o) \in Nat
      BY <3>1, DebtType DEF currentDebt, PoolInv
    <3>3. cash \in Nat
      BY DEF PoolInv, TypeOK
    <3> HIDE DEF after
    <3>4. after - cash < currentDebt(o)
      BY <2>4, <3>1, <3>2, <3>3
    <3>5. cash' - cash < currentDebt(o)
      BY <3>4 DEF after
    <3>6. QED  BY <3>1, <3>5
  <2>5. QED  BY <2>2, <2>3, <2>4 DEF FairTrade
<1>2. QED
  BY <1>1, PoolInvariant, PTL DEF Spec, LendingKeepsWorth
-----------------------------------------------------------------------------
(* What a trade does to the debt of its own claim: at the same moment the debt *)
(* moves by the amount traded, up to the rounding of one loan, and never by    *)
(* more than what was lent                                                     *)

LEMMA DebtAfter ==
  ASSUME PoolInv, PoolInv', CurrentIndex' = CurrentIndex, NEW o \in OrderIds
  PROVE  /\ CurrentIndex \in Nat \ {0} /\ currentDebt(o) \in Nat /\ currentDebt(o)' \in Nat
         /\ loans \in [OrderIds -> Loans] /\ loans[o].scaledPrincipal \in Nat
         /\ loans[o].active => currentDebt(o) = Owed(loans[o].scaledPrincipal, CurrentIndex)
         /\ loans'[o].active => currentDebt(o)' = Owed(loans'[o].scaledPrincipal, CurrentIndex)
         /\ loans'[o] = loans[o] => currentDebt(o)' = currentDebt(o)
<1>1. CurrentIndex \in Nat \ {0}
  BY IndexGrows DEF PoolInv
<1>2. /\ loans \in [OrderIds -> Loans] /\ loans[o].scaledPrincipal \in Nat
      /\ loans'[o].scaledPrincipal \in Nat
  BY DEF PoolInv, TypeOK, Loans
<1>3. /\ currentDebt(o) = IF loans[o].active THEN Owed(loans[o].scaledPrincipal, CurrentIndex) ELSE 0
      /\ currentDebt(o)' = IF loans'[o].active THEN Owed(loans'[o].scaledPrincipal, CurrentIndex) ELSE 0
  BY DEF currentDebt, Owed, MulDiv
<1>4. QED  BY <1>1, <1>2, <1>3, OwedType

LEMMA FundedDebt ==
  ASSUME PoolInv, PoolInv', CurrentIndex' = CurrentIndex, NEW o \in OrderIds, NEW amount \in Nat,
         NEW borrower, fundClaim(o, amount, borrower)
  PROVE  /\ currentDebt(o)' <= amount /\ currentDebt(o)' >= amount - Unit(CurrentIndex)
         /\ \A q \in OrderIds \ {o} : loans'[q] = loans[q]
<1> DEFINE s == Scaled(amount, CurrentIndex)
<1>1. CurrentIndex \in Nat \ {0} /\ s \in Nat /\ Unit(CurrentIndex) \in Nat
  BY DebtAfter, OwedExchange
<1>2. /\ loans'[o].active /\ loans'[o].scaledPrincipal = s
      /\ \A q \in OrderIds \ {o} : loans'[q] = loans[q]
  BY DebtAfter DEF fundClaim, SetLoan
<1>3. currentDebt(o)' = Owed(s, CurrentIndex) /\ currentDebt(o)' \in Nat
  BY <1>2, DebtAfter
<1>4. amount - Owed(s, CurrentIndex) \in 0 .. Unit(CurrentIndex)
  BY <1>1, MulDivBack DEF Owed, Scaled, Unit
<1> HIDE DEF s
<1>5. QED  BY <1>1, <1>2, <1>3, <1>4

LEMMA IncreasedDebt ==
  ASSUME PoolInv, PoolInv', CurrentIndex' = CurrentIndex, NEW o \in OrderIds, NEW amount \in Nat,
         increaseClaim(o, amount)
  PROVE  /\ currentDebt(o)' <= currentDebt(o) + amount
         /\ currentDebt(o)' >= currentDebt(o) + amount - Unit(CurrentIndex)
         /\ \A q \in OrderIds \ {o} : loans'[q] = loans[q]
<1> DEFINE s == Scaled(amount, CurrentIndex)
           t == loans[o].scaledPrincipal
           before == currentDebt(o)
           after == currentDebt(o)'
<1>1. /\ CurrentIndex \in Nat \ {0} /\ t \in Nat /\ before \in Nat /\ after \in Nat
      /\ loans \in [OrderIds -> Loans]
  BY DebtAfter
<1>2. /\ loans[o].active /\ loans'[o].active /\ loans'[o].scaledPrincipal = t + s
      /\ \A q \in OrderIds \ {o} : loans'[q] = loans[q]
  BY <1>1 DEF increaseClaim, SetLoan, Loans
<1>3. before = Owed(t, CurrentIndex) /\ after = Owed(t + s, CurrentIndex)
  BY <1>2, DebtAfter
<1>4. Owed(t + s, CurrentIndex) <= Owed(t, CurrentIndex) + amount
  BY <1>1, MulDivAdd DEF Owed, Scaled
<1>5. /\ Owed(t + s, CurrentIndex) - (Owed(t, CurrentIndex) + amount) \in -Unit(CurrentIndex) .. 1
      /\ Unit(CurrentIndex) \in Nat
  BY <1>1, OwedExchange
<1> HIDE DEF s, t, before, after
<1>6. after <= before + amount /\ after >= before + amount - Unit(CurrentIndex)
  BY <1>1, <1>3, <1>4, <1>5
<1>7. QED  BY <1>2, <1>6 DEF before, after

LEMMA SettledDebt ==
  ASSUME PoolInv, PoolInv', CurrentIndex' = CurrentIndex, NEW o \in OrderIds, NEW amount \in Nat,
         settleRepayment(o, amount), amount # currentDebt(o)
  PROVE  /\ currentDebt(o)' <= currentDebt(o)
         /\ currentDebt(o)' - (currentDebt(o) - amount) \in -1 .. Unit(CurrentIndex)
         /\ \A q \in OrderIds \ {o} : loans'[q] = loans[q]
<1> DEFINE s == Scaled(amount, CurrentIndex)
           t == loans[o].scaledPrincipal
           before == currentDebt(o)
           after == currentDebt(o)'
<1>1. /\ CurrentIndex \in Nat \ {0} /\ t \in Nat /\ before \in Nat /\ after \in Nat
      /\ loans \in [OrderIds -> Loans]
  BY DebtAfter
<1>2. /\ loans[o].active /\ loans'[o].active
      /\ \A q \in OrderIds \ {o} : loans'[q] = loans[q]
  BY RepaymentCloses
<1>3. before = Owed(t, CurrentIndex) /\ amount <= before
  BY <1>2, DebtAfter DEF settleRepayment
<1>4. s \in Nat /\ s < t
  <2>1. amount < Owed(t, CurrentIndex)
    <3> HIDE DEF t
    <3>1. QED  BY <1>1, <1>3
  <2> HIDE DEF t
  <2>2. QED  BY <1>1, <2>1, PartialReduction
<1>5. loans'[o].scaledPrincipal = t - s
  <2>1. ScaledReduction(loans[o], amount, Owed(t, CurrentIndex)) = s
    BY <1>3 DEF ScaledReduction
  <2>2. QED  BY <1>1, <2>1 DEF settleRepayment, SetLoan, Loans
<1>6. after = Owed(t - s, CurrentIndex)
  BY <1>2, <1>5, DebtAfter
<1>7. PICK r \in Nat : r = t - s /\ t = r + s
  <2> HIDE DEF s, t
  <2>1. QED  BY <1>1, <1>4
<1>8. /\ Owed(r + s, CurrentIndex) - (Owed(r, CurrentIndex) + amount) \in -Unit(CurrentIndex) .. 1
      /\ Unit(CurrentIndex) \in Nat
  BY <1>1, OwedExchange
<1>9. Owed(r, CurrentIndex) <= Owed(t, CurrentIndex)
  <2> HIDE DEF s, t
  <2>1. QED  BY <1>1, <1>4, <1>7, MulDivMonotone DEF Owed
<1> HIDE DEF s, t, before, after
<1>10. after <= before /\ after - (before - amount) \in -1 .. Unit(CurrentIndex)
  BY <1>1, <1>3, <1>6, <1>7, <1>8, <1>9
<1>11. QED  BY <1>2, <1>10 DEF before, after

\* Time adds to every debt, and to what a unit of it is worth.
LEMMA TickDebt ==
  ASSUME PoolInv, PoolInv', Tick, NEW o \in OrderIds
  PROVE  /\ currentDebt(o) \in Nat /\ currentDebt(o)' \in Nat /\ currentDebt(o) <= currentDebt(o)'
         /\ Unit(CurrentIndex) \in Nat /\ Unit(CurrentIndex') \in Nat
         /\ Unit(CurrentIndex) <= Unit(CurrentIndex')
<1> DEFINE s == loans[o].scaledPrincipal
           here == CurrentIndex
           there == CurrentIndex'
<1>1. here \in Nat \ {0} /\ there \in Nat \ {0} /\ here <= there
  BY IndexStep DEF Next
<1>2. s \in Nat /\ loans'[o] = loans[o]
  BY DEF PoolInv, TypeOK, Loans, Tick, poolVars, loanVars
<1>3. /\ currentDebt(o) = IF loans[o].active THEN Owed(s, here) ELSE 0
      /\ currentDebt(o)' = IF loans[o].active THEN Owed(s, there) ELSE 0
  BY <1>2 DEF currentDebt, Owed, MulDiv
<1> HIDE DEF s, here, there
<1>4. Owed(s, here) \in Nat /\ Owed(s, there) \in Nat /\ Owed(s, here) <= Owed(s, there)
  BY <1>1, <1>2, OwedType, MulDivMonotone DEF Owed
<1>5. Unit(here) \in Nat /\ Unit(there) \in Nat /\ Unit(here) <= Unit(there)
  BY <1>1, MulDivUpBounds, MulDivUpMonotone DEF Unit
<1>6. /\ currentDebt(o) \in Nat /\ currentDebt(o)' \in Nat /\ currentDebt(o) <= currentDebt(o)'
  BY <1>3, <1>4
<1>7. QED  BY <1>5, <1>6 DEF here, there
=============================================================================
