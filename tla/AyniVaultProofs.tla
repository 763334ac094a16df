--------------------------- MODULE AyniVaultProofs ---------------------------
(***************************************************************************)
(* Invariants of AyniVault for every set of users, orders, amounts, router *)
(* answers, prices and parameter choices.                                  *)
(***************************************************************************)
EXTENDS AyniVault, AyniMathProofs

(* The inductive invariant.  TypeOK needs the sums (a total covers each of   *)
(* its terms, so repaying or withdrawing one of them does not underflow);    *)
(* the sums need the accrual deltas; that an account without a filled order  *)
(* has no debt needs that its active order and the orders' statuses agree.   *)
IInv == TypeOK /\ TotalsAreSums /\ CollateralBacked /\ ActiveOrders /\ DebtOnlyUnderFilledOrder

USE UsersAssumption, OrderAssumption, AmountAssumption, ClockAssumption, UnitAssumption

-----------------------------------------------------------------------------
(* Interest and accrual *)

LEMMA InterestType ==
  ASSUME TypeOK, NEW u \in Users
  PROVE  /\ Interest(u) \in Nat
         /\ positions[u].debt = 0 => Interest(u) = 0
<1> DEFINE debt == positions[u].debt
           rate == params["annual_interest_bps"]
           elapsed == now - positions[u].last_update
<1>1. debt \in Nat /\ rate \in Nat /\ elapsed \in Nat
  BY DEF TypeOK, Positions, ParamNames
<1> DEFINE weighted == debt * rate * elapsed
<1>2. weighted \in Nat /\ (debt = 0 => weighted = 0)
  <2> HIDE DEF debt, rate, elapsed
  <2>1. QED  BY <1>1
<1> HIDE DEF weighted
<1> DEFINE perYear == weighted \div SecondsPerYear
<1>3. perYear \in Nat /\ (weighted = 0 => perYear = 0)
  BY <1>2
<1> HIDE DEF perYear
<1>4. perYear \div BPS \in Nat /\ (perYear = 0 => perYear \div BPS = 0)
  BY <1>3 DEF BPS
<1>5. Interest(u) = perYear \div BPS
  BY DEF Interest, perYear, weighted
<1>6. QED
  BY <1>2, <1>3, <1>4, <1>5

\* _accrue moves the account and total_debt by the same amount, and leaves an
\* account without a filled order at zero.
LEMMA Accrual ==
  ASSUME TypeOK, DebtOnlyUnderFilledOrder, NEW u \in Users, NEW sync \in RouterAnswers
  PROVE  /\ AccruedDebt(u, sync) \in Nat
         /\ AccrualDelta(u, sync) \in Int
         /\ AccruedDebt(u, sync) = positions[u].debt + AccrualDelta(u, sync)
         /\ ~ActiveIs(u, "FILLED") => AccruedDebt(u, sync) = 0
<1>1. positions[u].debt \in Nat /\ sync.debt \in Nat
  BY DEF TypeOK, Positions
<1>2. QED
  BY <1>1, InterestType
     DEF AccruedDebt, AccrualDelta, Managed, DebtOnlyUnderFilledOrder
-----------------------------------------------------------------------------
(* Totals *)

LEMMA TotalsType ==
  ASSUME TypeOK
  PROVE  /\ DebtOf \in [Users -> Nat] /\ CollateralOf \in [Users -> Nat]
         /\ \A u \in Users : /\ DebtOf[u] = positions[u].debt
                             /\ CollateralOf[u] = positions[u].collateral
BY DEF TypeOK, Positions, DebtOf, CollateralOf

\* An account is rewritten and the totals move by the difference: the totals
\* stay sums, and stay natural numbers.
LEMMA BookStep ==
  ASSUME TypeOK, TotalsAreSums, NEW u \in Users, NEW c \in Nat, NEW d \in Nat,
         SetPosition(u, c, d),
         MoveTotals(c - positions[u].collateral, d - positions[u].debt)
  PROVE  /\ positions' \in [Users -> Positions]
         /\ positions'[u] = [collateral |-> c, debt |-> d, last_update |-> now]
         /\ \A v \in Users \ {u} : positions'[v] = positions[v]
         /\ \A v \in Users : positions'[v].last_update <= now
         /\ total_collateral' \in Nat /\ total_debt' \in Nat
         /\ TotalsAreSums'
<1>1. /\ positions' \in [Users -> Positions]
      /\ positions'[u] = [collateral |-> c, debt |-> d, last_update |-> now]
      /\ \A v \in Users \ {u} : positions'[v] = positions[v]
      /\ \A v \in Users : positions'[v].last_update <= now
  BY DEF SetPosition, TypeOK, Positions
<1>2. /\ DebtOf \in [Users -> Nat] /\ CollateralOf \in [Users -> Nat]
      /\ DebtOf[u] = positions[u].debt /\ CollateralOf[u] = positions[u].collateral
  BY TotalsType
<1>3. /\ DebtOf' \in [Users -> Nat] /\ CollateralOf' \in [Users -> Nat]
      /\ DebtOf'[u] = d /\ CollateralOf'[u] = c
      /\ \A v \in Users \ {u} : DebtOf'[v] = DebtOf[v] /\ CollateralOf'[v] = CollateralOf[v]
  BY <1>1 DEF DebtOf, CollateralOf, Positions
<1>4. Total(DebtOf') = Total(DebtOf) - DebtOf[u] + d
  BY <1>2, <1>3, TotalUpdate
<1>5. Total(CollateralOf') = Total(CollateralOf) - CollateralOf[u] + c
  BY <1>2, <1>3, TotalUpdate
<1>6. Total(DebtOf') \in Nat /\ Total(CollateralOf') \in Nat
  BY <1>3, TotalType
<1>7. Total(DebtOf)' = Total(DebtOf') /\ Total(CollateralOf)' = Total(CollateralOf')
  BY Zenon DEF Total, Points, Column
<1>8. total_debt' = Total(DebtOf') /\ total_collateral' = Total(CollateralOf')
  <2>1. total_debt' = total_debt + (d - DebtOf[u])
    BY <1>2 DEF MoveTotals
  <2>2. total_collateral' = total_collateral + (c - CollateralOf[u])
    BY <1>2 DEF MoveTotals
  <2>3. /\ total_debt \in Nat /\ total_collateral \in Nat
        /\ DebtOf[u] \in Nat /\ CollateralOf[u] \in Nat
        /\ total_debt = Total(DebtOf) /\ total_collateral = Total(CollateralOf)
    BY <1>2 DEF TypeOK, TotalsAreSums, TotalDebtIsSum, TotalCollateralIsSum
  <2>4. QED  BY <1>4, <1>5, <2>1, <2>2, <2>3
<1>9. QED
  BY <1>1, <1>6, <1>7, <1>8 DEF TotalsAreSums, TotalDebtIsSum, TotalCollateralIsSum
-----------------------------------------------------------------------------
(* Tokens *)

LEMMA CreditTotal ==
  ASSUME NEW w \in [Accounts -> Nat], NEW a \in Accounts, NEW x \in Int, w[a] + x \in Nat
  PROVE  /\ Credit(w, a, x) \in [Accounts -> Nat]
         /\ Credit(w, a, x)[a] = w[a] + x
         /\ \A b \in Accounts \ {a} : Credit(w, a, x)[b] = w[b]
         /\ Total(w) \in Nat
         /\ Total(Credit(w, a, x)) = Total(w) + x
<1>1. IsFiniteSet(Accounts)
  BY FS_Union DEF Accounts
<1>2. /\ Credit(w, a, x) \in [Accounts -> Nat]
      /\ Credit(w, a, x)[a] = w[a] + x
      /\ \A b \in Accounts \ {a} : Credit(w, a, x)[b] = w[b]
  BY DEF Credit
<1>3. Total(Credit(w, a, x)) = Total(w) - w[a] + Credit(w, a, x)[a]
  BY <1>1, <1>2, TotalUpdate
<1>4. Total(w) \in Nat
  BY <1>1, TotalType
<1>5. QED
  BY <1>2, <1>3, <1>4

\* What leaves the books leaves the vault and reaches the accounts.
LEMMA TokenStep ==
  ASSUME TypeOK, CollateralBacked, NEW x \in Int,
         vault_collateral' = vault_collateral - x,
         total_collateral' = total_collateral - x,
         total_collateral' \in Nat,
         Total(wallet') = Total(wallet) + x
  PROVE  CollateralBacked' /\ vault_collateral' \in Nat
<1>1. Total(wallet)' = Total(wallet')
  BY Zenon DEF Total, Points, Column
<1>2. Total(wallet) \in Nat
  BY FS_Union, TotalType DEF Accounts, TypeOK
<1>3. /\ vault_collateral' = total_collateral' /\ vault_collateral' \in Nat
      /\ vault_collateral' + Total(wallet') = vault_collateral + Total(wallet)
  BY <1>2 DEF TypeOK, CollateralBacked
<1>4. QED
  BY <1>1, <1>3 DEF CollateralBacked

\* A handler that moves no collateral keeps it backed.
LEMMA NoTokenStep ==
  ASSUME TypeOK, CollateralBacked,
         UNCHANGED <<wallet, vault_collateral, total_collateral>>
  PROVE  CollateralBacked'
<1>1. Total(wallet)' = Total(wallet)
  BY Zenon DEF Total, Points, Column
<1>2. QED
  BY <1>1 DEF CollateralBacked
-----------------------------------------------------------------------------
(* Orders *)

LEMMA LiveOrder ==
  ASSUME TypeOK, ActiveOrders, NEW o \in OrderIds,
         solver_orders[o].status \in {"OPEN", "FILLED"}
  PROVE  /\ solver_orders[o].borrower \in Users
         /\ active_solver_order[solver_orders[o].borrower] = o
         /\ o # NoOrder
         /\ \A u \in Users : active_solver_order[u] = o => u = solver_orders[o].borrower
BY DEF ActiveOrders

\* Only one account's collateral and debt move, under orders that do not.
LEMMA AccountStep ==
  ASSUME IInv, NEW u \in Users, NEW c \in Nat, NEW d \in Nat,
         SetPosition(u, c, d),
         MoveTotals(c - positions[u].collateral, d - positions[u].debt),
         ~ActiveIs(u, "FILLED") => d = 0,
         PayOut(u, positions[u].collateral - c),
         wallet[u] + (positions[u].collateral - c) \in Nat,
         UNCHANGED <<active_solver_order, solver_orders, vault_usdc, adminVars, envVars>>
  PROVE  IInv'
<1> DEFINE x == positions[u].collateral - c
<1>1. positions[u].collateral \in Nat /\ x \in Int
  BY DEF IInv, TypeOK, Positions
<1>2. /\ positions' \in [Users -> Positions]
      /\ positions'[u] = [collateral |-> c, debt |-> d, last_update |-> now]
      /\ \A v \in Users \ {u} : positions'[v] = positions[v]
      /\ \A v \in Users : positions'[v].last_update <= now
      /\ total_collateral' \in Nat /\ total_debt' \in Nat
      /\ TotalsAreSums'
  BY BookStep DEF IInv
<1>3. /\ wallet' \in [Accounts -> Nat]
      /\ Total(wallet') = Total(wallet) + x
  <2>1. wallet \in [Accounts -> Nat] /\ u \in Accounts
    BY DEF IInv, TypeOK, Accounts
  <2>2. wallet' = Credit(wallet, u, x)
    BY DEF PayOut
  <2>3. wallet[u] + x \in Nat
    OBVIOUS
  <2> HIDE DEF x
  <2>4. QED
    BY <1>1, <2>1, <2>2, <2>3, CreditTotal
<1>4. CollateralBacked' /\ vault_collateral' \in Nat
  <2>1. total_collateral' = total_collateral - x
    BY <1>1 DEF MoveTotals, IInv, TypeOK
  <2>2. vault_collateral' = vault_collateral - x
    BY DEF PayOut
  <2>3. QED  BY <1>1, <1>2, <1>3, <2>1, <2>2, TokenStep DEF IInv
<1>5. TypeOK'
  BY <1>2, <1>3, <1>4 DEF TypeOK, IInv, adminVars, envVars, Accounts
<1>6. ActiveOrders'
  BY DEF IInv, ActiveOrders
<1>7. DebtOnlyUnderFilledOrder'
  BY <1>2 DEF IInv, DebtOnlyUnderFilledOrder, ActiveIs
<1>8. QED
  BY <1>2, <1>4, <1>5, <1>6, <1>7 DEF IInv

\* An order becomes, or stays, its borrower's live order; only its debt moves.
LEMMA LockStep ==
  ASSUME IInv, NEW o \in OrderIds, NEW u \in Users, NEW r \in Orders, NEW d \in Nat,
         \/ active_solver_order[u] = NoOrder /\ solver_orders[o].status = "NONE"
         \/ active_solver_order[u] = o,
         r.borrower = u, r.status \in {"OPEN", "FILLED"}, d > 0 => r.status = "FILLED",
         SetPosition(u, positions[u].collateral, d),
         MoveTotals(0, d - positions[u].debt),
         SetOrder(o, r), SetActive(u, o),
         UNCHANGED <<tokenVars, adminVars, envVars>>
  PROVE  IInv'
<1> DEFINE c == positions[u].collateral
<1>1. c \in Nat /\ c - c = 0
  BY DEF IInv, TypeOK, Positions
<1>2. /\ positions' \in [Users -> Positions]
      /\ positions'[u] = [collateral |-> c, debt |-> d, last_update |-> now]
      /\ \A v \in Users \ {u} : positions'[v] = positions[v]
      /\ \A v \in Users : positions'[v].last_update <= now
      /\ total_collateral' \in Nat /\ total_debt' \in Nat
      /\ TotalsAreSums'
  BY <1>1, BookStep DEF IInv
<1>3. total_collateral' = total_collateral
  BY DEF MoveTotals, IInv, TypeOK
<1>4. CollateralBacked'
  BY <1>3, NoTokenStep DEF IInv, tokenVars
<1>5. /\ active_solver_order' \in [Users -> OrderIds \cup {NoOrder}]
      /\ active_solver_order'[u] = o
      /\ \A v \in Users \ {u} : active_solver_order'[v] = active_solver_order[v]
      /\ solver_orders' \in [OrderIds -> Orders]
      /\ solver_orders'[o] = r
      /\ \A q \in OrderIds \ {o} : solver_orders'[q] = solver_orders[q]
  BY DEF SetActive, SetOrder, IInv, TypeOK
<1>6. TypeOK'
  BY <1>2, <1>5 DEF IInv, TypeOK, tokenVars, adminVars, envVars, Accounts
<1>7. \A v \in Users \ {u} : active_solver_order[v] # o
  BY DEF IInv, ActiveOrders
<1>8. ActiveOrders'
  BY <1>5, <1>7 DEF IInv, TypeOK, ActiveOrders
<1>9. DebtOnlyUnderFilledOrder'
  BY <1>2, <1>5, <1>7 DEF IInv, TypeOK, DebtOnlyUnderFilledOrder, ActiveIs
<1>10. QED
  BY <1>2, <1>4, <1>6, <1>8, <1>9 DEF IInv

\* A filled order closes: its borrower is emptied and unlocked, and the
\* collateral reaches other accounts.
LEMMA CloseStep ==
  ASSUME IInv, NEW o \in OrderIds, NEW u \in Users, NEW s \in Closed,
         solver_orders[o].status = "FILLED", u = solver_orders[o].borrower,
         SetPosition(u, 0, 0),
         MoveTotals(0 - positions[u].collateral, 0 - positions[u].debt),
         SetOrder(o, [solver_orders[o] EXCEPT !.status = s]), SetActive(u, NoOrder),
         vault_collateral' = vault_collateral - positions[u].collateral,
         wallet' \in [Accounts -> Nat],
         Total(wallet') = Total(wallet) + positions[u].collateral,
         UNCHANGED <<vault_usdc, adminVars, envVars>>
  PROVE  IInv'
<1>1. /\ positions' \in [Users -> Positions]
      /\ positions'[u] = [collateral |-> 0, debt |-> 0, last_update |-> now]
      /\ \A v \in Users \ {u} : positions'[v] = positions[v]
      /\ \A v \in Users : positions'[v].last_update <= now
      /\ total_collateral' \in Nat /\ total_debt' \in Nat
      /\ TotalsAreSums'
  BY BookStep DEF IInv
<1>2. positions[u].collateral \in Int
  BY DEF IInv, TypeOK, Positions
<1>3. total_collateral' = total_collateral - positions[u].collateral
  BY <1>2 DEF MoveTotals, IInv, TypeOK
<1>4. CollateralBacked' /\ vault_collateral' \in Nat
  BY <1>1, <1>2, <1>3, TokenStep DEF IInv
<1>5. /\ active_solver_order' \in [Users -> OrderIds \cup {NoOrder}]
      /\ active_solver_order'[u] = NoOrder
      /\ \A v \in Users \ {u} : active_solver_order'[v] = active_solver_order[v]
      /\ solver_orders' \in [OrderIds -> Orders]
      /\ solver_orders'[o].status = s
      /\ \A q \in OrderIds \ {o} : solver_orders'[q] = solver_orders[q]
  BY DEF SetActive, SetOrder, IInv, TypeOK, Orders, Closed, Statuses
<1>6. TypeOK'
  BY <1>1, <1>4, <1>5 DEF IInv, TypeOK, adminVars, envVars, Accounts
<1>7. /\ active_solver_order[u] = o /\ o # NoOrder
      /\ \A v \in Users : active_solver_order[v] = o => v = u
  BY LiveOrder DEF IInv
<1>8. ActiveOrders'
  BY <1>5, <1>7 DEF IInv, TypeOK, ActiveOrders, Closed
<1>9. DebtOnlyUnderFilledOrder'
  BY <1>1, <1>5, <1>7 DEF IInv, TypeOK, DebtOnlyUnderFilledOrder, ActiveIs
<1>10. QED
  BY <1>1, <1>4, <1>6, <1>8, <1>9 DEF IInv

\* Books, tokens and orders stand still while the clock, the oracle or the
\* owner moves.
LEMMA QuietStep ==
  ASSUME IInv, UNCHANGED bookVars, UNCHANGED <<wallet, vault_collateral>>,
         vault_usdc' \in Nat, params' \in [ParamNames -> Nat],
         pending' \in [ParamNames -> Changes], paused' \in BOOLEAN,
         price' \in Nat, now' \in Nat, now <= now'
  PROVE  IInv'
<1>1. TypeOK'
  BY DEF IInv, TypeOK, bookVars, Accounts, Positions
<1>2. TotalsAreSums'
  <2>1. Total(DebtOf)' = Total(DebtOf) /\ Total(CollateralOf)' = Total(CollateralOf)
    BY Zenon DEF Total, Points, Column, DebtOf, CollateralOf, bookVars
  <2>2. QED  BY <2>1 DEF IInv, TotalsAreSums, TotalDebtIsSum, TotalCollateralIsSum, bookVars
<1>3. CollateralBacked'
  BY NoTokenStep DEF IInv, bookVars
<1>4. ActiveOrders' /\ DebtOnlyUnderFilledOrder'
  BY DEF IInv, ActiveOrders, DebtOnlyUnderFilledOrder, ActiveIs, bookVars
<1>5. QED
  BY <1>1, <1>2, <1>3, <1>4 DEF IInv
-----------------------------------------------------------------------------
(* One lemma per handler *)

LEMMA DepositStep ==
  ASSUME IInv, NEW user \in Users, NEW amount \in Amounts, NEW sync \in RouterAnswers,
         deposit_for(user, amount, sync)
  PROVE  IInv'
<1> DEFINE old == positions[user].collateral
           c == old + amount
           d == AccruedDebt(user, sync)
<1>1. /\ d \in Nat /\ d - positions[user].debt = AccrualDelta(user, sync)
      /\ ~ActiveIs(user, "FILLED") => d = 0
  BY Accrual DEF IInv, TypeOK, Positions
<1>2. c \in Nat /\ c - old = amount /\ old - c = -amount
  BY DEF IInv, TypeOK, Positions
<1>3. wallet[user] + (old - c) \in Nat
  <2>1. wallet[user] \in Nat /\ amount \in Nat /\ wallet[user] >= amount
    BY DEF deposit_for, IInv, TypeOK, Accounts
  <2>2. wallet[user] + (-amount) \in Nat
    BY <2>1
  <2>3. QED  BY <1>2, <2>2
<1>4. /\ SetPosition(user, c, d)
      /\ MoveTotals(c - old, d - positions[user].debt)
      /\ PayOut(user, old - c)
      /\ UNCHANGED <<active_solver_order, solver_orders, vault_usdc, adminVars, envVars>>
  BY <1>1, <1>2 DEF deposit_for
<1>5. QED
  BY <1>1, <1>2, <1>3, <1>4, AccountStep

LEMMA WithdrawStep ==
  ASSUME IInv, NEW user \in Users, NEW amount \in Amounts, NEW sync \in RouterAnswers,
         withdraw_for(user, amount, sync)
  PROVE  IInv'
<1> DEFINE old == positions[user].collateral
           c == old - amount
           d == AccruedDebt(user, sync)
<1>1. /\ d \in Nat /\ d - positions[user].debt = AccrualDelta(user, sync)
      /\ ~ActiveIs(user, "FILLED") => d = 0
  BY Accrual DEF IInv, TypeOK, Positions
<1>2. c \in Nat /\ c - old = -amount /\ old - c = amount
  BY DEF withdraw_for, WithdrawGuard, IInv, TypeOK, Positions
<1>3. wallet[user] + (old - c) \in Nat
  BY <1>2 DEF IInv, TypeOK, Accounts
<1>4. /\ SetPosition(user, c, d)
      /\ MoveTotals(c - old, d - positions[user].debt)
      /\ PayOut(user, old - c)
      /\ UNCHANGED <<active_solver_order, solver_orders, vault_usdc, adminVars, envVars>>
  BY <1>1, <1>2 DEF withdraw_for, WithdrawGuard
<1>5. QED
  BY <1>1, <1>2, <1>3, <1>4, AccountStep

LEMMA OpenStep ==
  ASSUME IInv, NEW o \in OrderIds, NEW user \in Users, NEW principal \in Nat,
         NEW debt_amount \in Nat, NEW expiry \in Nat, NEW fee \in FeeChoices,
         NEW sync \in RouterAnswers, solver_orders[o].status = "NONE",
         open_solver_borrow_for(o, user, principal, debt_amount, expiry, fee, sync)
  PROVE  IInv'
<1> DEFINE r == OpenedOrder(user, principal, debt_amount, expiry, fee)
           d == AccruedDebt(user, sync)
<1>1. d \in Nat /\ d - positions[user].debt = AccrualDelta(user, sync) /\ d = 0
  BY Accrual DEF open_solver_borrow_for, OpenGuard, IInv, TypeOK, Positions
<1>2. r \in Orders /\ r.borrower = user /\ r.status = "OPEN"
  BY DEF OpenedOrder, Orders, Statuses
<1>3. /\ active_solver_order[user] = NoOrder
      /\ SetPosition(user, positions[user].collateral, d)
      /\ MoveTotals(0, d - positions[user].debt)
      /\ SetOrder(o, r) /\ SetActive(user, o)
      /\ UNCHANGED <<tokenVars, adminVars, envVars>>
  BY <1>1 DEF open_solver_borrow_for, OpenGuard
<1>4. QED
  BY <1>1, <1>2, <1>3, LockStep

LEMMA CancelStep ==
  ASSUME IInv, NEW o \in OrderIds, NEW user \in Users, cancel_solver_borrow_for(o, user)
  PROVE  IInv'
<1>1. /\ solver_orders[o].borrower = user /\ solver_orders[o].status = "OPEN"
      /\ UNCHANGED <<positions, total_collateral, total_debt, tokenVars, adminVars, envVars>>
  BY DEF cancel_solver_borrow_for
<1>2. /\ active_solver_order[user] = o /\ o # NoOrder
      /\ \A v \in Users : active_solver_order[v] = o => v = user
  BY <1>1, LiveOrder DEF IInv
<1>3. /\ active_solver_order' \in [Users -> OrderIds \cup {NoOrder}]
      /\ active_solver_order'[user] = NoOrder
      /\ \A v \in Users \ {user} : active_solver_order'[v] = active_solver_order[v]
      /\ solver_orders' \in [OrderIds -> Orders]
      /\ solver_orders'[o].status = "CANCELLED"
      /\ \A q \in OrderIds \ {o} : solver_orders'[q] = solver_orders[q]
  BY DEF cancel_solver_borrow_for, SetActive, SetOrder, IInv, TypeOK, Orders, Statuses
<1>4. TypeOK'
  BY <1>1, <1>3 DEF IInv, TypeOK, tokenVars, adminVars, envVars, Accounts
<1>5. TotalsAreSums'
  <2>1. Total(DebtOf)' = Total(DebtOf) /\ Total(CollateralOf)' = Total(CollateralOf)
    BY <1>1, Zenon DEF Total, Points, Column, DebtOf, CollateralOf
  <2>2. QED  BY <1>1, <2>1 DEF IInv, TotalsAreSums, TotalDebtIsSum, TotalCollateralIsSum
<1>6. CollateralBacked'
  BY <1>1, NoTokenStep DEF IInv, tokenVars
<1>7. ActiveOrders'
  BY <1>2, <1>3 DEF IInv, TypeOK, ActiveOrders
<1>8. DebtOnlyUnderFilledOrder'
  BY <1>1, <1>2, <1>3 DEF IInv, TypeOK, DebtOnlyUnderFilledOrder, ActiveIs
<1>9. QED
  BY <1>4, <1>5, <1>6, <1>7, <1>8 DEF IInv

LEMMA FillStep ==
  ASSUME IInv, NEW o \in OrderIds, NEW debt_amount \in Nat, NEW sync \in RouterAnswers,
         mark_solver_borrow_filled(o, debt_amount, sync)
  PROVE  IInv'
<1> DEFINE user == solver_orders[o].borrower
           r == [solver_orders[o] EXCEPT !.status = "FILLED", !.filled_at = now]
<1>1. solver_orders[o].status = "OPEN"
  BY DEF mark_solver_borrow_filled, CoversFill
<1>2. user \in Users /\ active_solver_order[user] = o
  BY <1>1, LiveOrder DEF IInv
<1>3. AccruedDebt(user, sync) = positions[user].debt + AccrualDelta(user, sync)
  BY <1>2, Accrual DEF IInv
<1>4. AccrualDelta(user, sync) \in Int /\ positions[user].debt \in Nat
  BY <1>2, Accrual DEF IInv, TypeOK, Positions
<1>5. AccrualDelta(user, sync) + debt_amount = debt_amount - positions[user].debt
  BY <1>3, <1>4 DEF mark_solver_borrow_filled, CoversFill
<1>6. r \in Orders /\ r.borrower = user /\ r.status = "FILLED"
  <2>1. solver_orders[o] \in Orders /\ now \in Nat
    BY DEF IInv, TypeOK
  <2>2. QED  BY <2>1 DEF Orders, Statuses
<1>7. /\ SetPosition(user, positions[user].collateral, debt_amount)
      /\ MoveTotals(0, debt_amount - positions[user].debt)
      /\ SetOrder(o, r)
      /\ UNCHANGED <<active_solver_order, tokenVars, adminVars, envVars>>
  BY <1>5 DEF mark_solver_borrow_filled, CoversFill
<1>8. SetActive(user, o)
  BY <1>2, <1>7 DEF SetActive, IInv, TypeOK
<1>9. QED
  BY <1>2, <1>6, <1>7, <1>8, LockStep

LEMMA IncreaseStep ==
  ASSUME IInv, NEW o \in OrderIds, NEW user \in Users, NEW amount \in Amounts,
         NEW sync \in RouterAnswers, increase_solver_borrow_for(o, user, amount, sync)
  PROVE  IInv'
<1> DEFINE r == [solver_orders[o] EXCEPT !.principal = @ + amount, !.debt_amount = @ + amount]
           d == AccruedDebt(user, sync) + amount
<1>1. /\ d \in Nat
      /\ AccrualDelta(user, sync) + amount = d - positions[user].debt
  BY Accrual DEF IInv, TypeOK, Positions
<1>2. r \in Orders /\ r.borrower = user /\ r.status = "FILLED"
  <2>1. /\ solver_orders[o] \in Orders /\ amount \in Nat
        /\ solver_orders[o].borrower = user /\ solver_orders[o].status = "FILLED"
    BY DEF increase_solver_borrow_for, IInv, TypeOK
  <2>2. /\ solver_orders[o].principal + amount \in Nat
        /\ solver_orders[o].debt_amount + amount \in Nat
    BY <2>1 DEF Orders
  <2>3. ASSUME NEW x \in Nat, NEW y \in Nat
        PROVE  LET s == [solver_orders[o] EXCEPT !.principal = x, !.debt_amount = y]
               IN  s \in Orders /\ s.borrower = user /\ s.status = "FILLED"
    BY <2>1 DEF Orders
  <2>4. QED  BY <2>2, <2>3
<1>3. /\ SetPosition(user, positions[user].collateral, d)
      /\ MoveTotals(0, d - positions[user].debt)
      /\ SetOrder(o, r)
      /\ active_solver_order[user] = o
      /\ UNCHANGED <<active_solver_order, tokenVars, adminVars, envVars>>
  BY <1>1 DEF increase_solver_borrow_for
<1>4. SetActive(user, o)
  BY <1>3 DEF SetActive, IInv, TypeOK
<1>5. QED
  BY <1>1, <1>2, <1>3, <1>4, LockStep

LEMMA RepayStep ==
  ASSUME IInv, NEW o \in OrderIds, NEW user \in Users, NEW amount \in Amounts,
         NEW sync \in RouterAnswers, repay_claim_for(o, user, amount, sync)
  PROVE  IInv'
<1> DEFINE old == positions[user].collateral
           debt == AccruedDebt(user, sync)
           actual == RepaidAmount(user, amount, sync)
           left == debt - actual
<1>1. /\ debt \in Nat /\ positions[user].debt \in Nat /\ old \in Nat
      /\ debt = positions[user].debt + AccrualDelta(user, sync)
      /\ AccrualDelta(user, sync) \in Int
  BY Accrual DEF IInv, TypeOK, Positions
<1>2. actual \in Nat /\ left \in Nat
  <2>1. amount \in Nat
    OBVIOUS
  <2>2. \A x, y \in Nat : Smaller(x, y) \in Nat /\ y - Smaller(x, y) \in Nat
    BY DEF Smaller
  <2>3. QED  BY <1>1, <2>1, <2>2 DEF RepaidAmount
<1>3. AccrualDelta(user, sync) - actual = left - positions[user].debt
  BY <1>1, <1>2
<1>4. /\ solver_orders[o].borrower = user /\ solver_orders[o].status = "FILLED"
      /\ UNCHANGED <<vault_usdc, adminVars, envVars>>
  BY DEF repay_claim_for
<1>5. active_solver_order[user] = o /\ o # NoOrder /\ ActiveIs(user, "FILLED")
  BY <1>4, LiveOrder DEF IInv, ActiveIs
<1>6. CASE left = 0
  <2>1. /\ SetPosition(user, old - old, left)
        /\ MoveTotals(-old, AccrualDelta(user, sync) - actual)
        /\ SetOrder(o, [solver_orders[o] EXCEPT !.status = "REPAID"])
        /\ SetActive(user, NoOrder)
        /\ PayOut(user, old)
    BY <1>6 DEF repay_claim_for
  <2>2. old - old = 0 /\ -old = 0 - old
    BY <1>1
  <2>3. SetPosition(user, 0, 0) /\ MoveTotals(0 - old, 0 - positions[user].debt)
    BY <1>3, <1>6, <2>1, <2>2
  <2>4. wallet[user] + old \in Nat
    BY <1>1 DEF IInv, TypeOK, Accounts
  <2>5. wallet' = Credit(wallet, user, old) /\ vault_collateral' = vault_collateral - old
    BY <2>1 DEF PayOut
  <2>6. /\ wallet' \in [Accounts -> Nat]
        /\ Total(wallet') = Total(wallet) + old
    <3>1. wallet \in [Accounts -> Nat] /\ user \in Accounts /\ old \in Int
      BY <1>1 DEF IInv, TypeOK, Accounts
    <3>2. QED  BY <2>4, <2>5, <3>1, CreditTotal
  <2>7. "REPAID" \in Closed
    BY DEF Closed
  <2>8. QED
    BY <1>4, <2>1, <2>3, <2>5, <2>6, <2>7, CloseStep
<1>7. CASE left # 0
  <2>1. /\ SetPosition(user, old - 0, left)
        /\ MoveTotals(-0, AccrualDelta(user, sync) - actual)
        /\ PayOut(user, 0)
        /\ UNCHANGED <<active_solver_order, solver_orders>>
    BY <1>7 DEF repay_claim_for
  <2>2. old - 0 = old /\ -0 = old - old
    BY <1>1
  <2>3. /\ SetPosition(user, old, left)
        /\ MoveTotals(old - old, left - positions[user].debt)
        /\ PayOut(user, old - old)
    BY <1>3, <2>1, <2>2
  <2>4. wallet[user] + (old - old) \in Nat
    BY <1>1 DEF IInv, TypeOK, Accounts
  <2>5. QED
    BY <1>1, <1>2, <1>4, <1>5, <2>1, <2>3, <2>4, AccountStep
<1>8. QED
  BY <1>6, <1>7

\* What both liquidations establish about the seized account.
LEMMA Seizure ==
  ASSUME IInv, NEW o \in OrderIds, NEW sync \in RouterAnswers, SeizePosition(o, sync)
  PROVE  LET user == solver_orders[o].borrower
             old == positions[user].collateral
         IN  /\ user \in Users /\ old \in Nat
             /\ solver_orders[o].status = "FILLED"
             /\ SetPosition(user, 0, 0)
             /\ MoveTotals(0 - old, 0 - positions[user].debt)
             /\ SetOrder(o, [solver_orders[o] EXCEPT !.status = "LIQUIDATED"])
             /\ SetActive(user, NoOrder)
             /\ vault_collateral' = vault_collateral - old
             /\ UNCHANGED <<vault_usdc, adminVars, envVars>>
<1> DEFINE user == solver_orders[o].borrower
           old == positions[user].collateral
           debt == AccruedDebt(user, sync)
<1>1. solver_orders[o].status = "FILLED"
  BY DEF SeizePosition
<1>2. user \in Users
  BY <1>1, LiveOrder DEF IInv
<1>3. /\ debt = positions[user].debt + AccrualDelta(user, sync)
      /\ AccrualDelta(user, sync) \in Int /\ positions[user].debt \in Nat /\ old \in Nat
  BY <1>2, Accrual DEF IInv, TypeOK, Positions
<1>4. -old = 0 - old /\ AccrualDelta(user, sync) - debt = 0 - positions[user].debt
  BY <1>3
<1>5. MoveTotals(-old, AccrualDelta(user, sync) - debt)
  BY DEF SeizePosition
<1>6. MoveTotals(0 - old, 0 - positions[user].debt)
  BY <1>4, <1>5
<1>7. QED
  BY <1>1, <1>2, <1>3, <1>6 DEF SeizePosition

LEMMA LiquidateStep ==
  ASSUME IInv, NEW o \in OrderIds, NEW holder \in Recipients, NEW treasury \in Recipients,
         NEW sync \in RouterAnswers, liquidate_claim_for(o, holder, treasury, sync)
  PROVE  IInv'
<1> DEFINE user == solver_orders[o].borrower
           old == positions[user].collateral
           fee == ProtocolProceeds(o)
           once == Credit(wallet, treasury, fee)
<1>1. /\ SeizePosition(o, sync)
      /\ wallet' = Credit(once, holder, old - fee)
  BY DEF liquidate_claim_for
<1>2. user \in Users /\ old \in Nat
  BY <1>1, Seizure
<1>3. fee \in 0 .. old
  <2>1. solver_orders[o].protocol_fee_bps \in 0 .. BPS
    BY DEF IInv, TypeOK, Orders
  <2>2. BPS \in Nat \ {0}
    BY DEF BPS
  <2>3. QED  BY <1>2, <2>1, <2>2, MulDivShare DEF ProtocolProceeds
<1>4. /\ wallet \in [Accounts -> Nat]
      /\ holder \in Accounts /\ treasury \in Accounts
      /\ fee \in Nat /\ fee \in Int /\ old - fee \in Nat /\ old - fee \in Int
  BY <1>2, <1>3 DEF IInv, TypeOK, Accounts
<1>5. wallet[treasury] + fee \in Nat
  BY <1>4
<1>6. once \in [Accounts -> Nat] /\ Total(wallet) \in Nat /\ Total(once) = Total(wallet) + fee
  BY <1>4, <1>5, CreditTotal
<1>7. once[holder] + (old - fee) \in Nat
  BY <1>4, <1>6
<1>8. /\ wallet' \in [Accounts -> Nat]
      /\ Total(wallet') = Total(once) + (old - fee)
  <2> HIDE DEF once, fee, old
  <2>1. QED  BY <1>1, <1>4, <1>6, <1>7, CreditTotal
<1>9. Total(wallet') = Total(wallet) + old
  <2> HIDE DEF once, fee, old
  <2>1. QED  BY <1>2, <1>4, <1>6, <1>8
<1>10. "LIQUIDATED" \in Closed
  BY DEF Closed
<1>11. QED
  BY <1>1, <1>8, <1>9, <1>10, Seizure, CloseStep

LEMMA LiquidatePoolStep ==
  ASSUME IInv, NEW o \in OrderIds, NEW recipient \in Recipients,
         NEW sync \in RouterAnswers, liquidate_pool_claim_for(o, recipient, sync)
  PROVE  IInv'
<1> DEFINE user == solver_orders[o].borrower
           old == positions[user].collateral
<1>1. SeizePosition(o, sync) /\ wallet' = Credit(wallet, recipient, old)
  BY DEF liquidate_pool_claim_for
<1>2. user \in Users /\ old \in Nat
  BY <1>1, Seizure
<1>3. wallet \in [Accounts -> Nat] /\ recipient \in Accounts /\ old \in Int
  BY <1>2 DEF IInv, TypeOK, Accounts
<1>4. wallet[recipient] + old \in Nat
  BY <1>2, <1>3
<1>5. wallet' \in [Accounts -> Nat] /\ Total(wallet') = Total(wallet) + old
  BY <1>1, <1>3, <1>4, CreditTotal
<1>6. "LIQUIDATED" \in Closed
  BY DEF Closed
<1>7. QED
  BY <1>1, <1>5, <1>6, Seizure, CloseStep
-----------------------------------------------------------------------------
LEMMA QuietActions ==
  ASSUME IInv, OwnerCall \/ Tick \/ SetPrice \/ UNCHANGED vars
  PROVE  IInv'
<1> USE DEF bookVars, tokenVars, adminVars, envVars
<1>1. /\ vault_usdc \in Nat /\ params \in [ParamNames -> Nat]
      /\ pending \in [ParamNames -> Changes] /\ paused \in BOOLEAN
      /\ price \in Nat /\ now \in Nat
  BY DEF IInv, TypeOK
<1>2. ASSUME NEW choice \in ParamChoices, set_param(choice[1], choice[2])
      PROVE  IInv'
  <2>1. choice[1] \in ParamNames /\ choice[2] \in Nat
    OBVIOUS
  <2>2. pending' \in [ParamNames -> Changes]
    BY <1>1, <1>2, <2>1 DEF set_param, Changes
  <2>3. QED  BY <1>1, <1>2, <2>2, QuietStep DEF set_param
<1>3. ASSUME NEW p \in ParamNames, apply_param(p)
      PROVE  IInv'
  <2>1. pending' \in [ParamNames -> Changes] /\ params' \in [ParamNames -> Nat]
    BY <1>1, <1>3 DEF apply_param, Changes, NoChange
  <2>2. QED  BY <1>1, <1>3, <2>1, QuietStep DEF apply_param
<1>4. ASSUME pause \/ unpause
      PROVE  IInv'
  <2>1. /\ UNCHANGED <<bookVars, tokenVars, params, pending, envVars>>
        /\ paused' \in BOOLEAN
    BY <1>4 DEF pause, unpause
  <2>2. now <= now' /\ now' \in Nat /\ price' \in Nat /\ vault_usdc' \in Nat
    BY <1>1, <2>1
  <2>3. QED  BY <1>1, <2>1, <2>2, QuietStep
<1>5. ASSUME NEW amount \in Amounts, recover_usdc(amount)
      PROVE  IInv'
  <2>1. vault_usdc' \in Nat
    BY <1>1, <1>5 DEF recover_usdc
  <2>2. QED  BY <1>1, <1>5, <2>1, QuietStep DEF recover_usdc
<1>6. ASSUME Tick \/ SetPrice
      PROVE  IInv'
  <2>1. UNCHANGED <<bookVars, tokenVars, adminVars>>
    BY <1>6 DEF Tick, SetPrice
  <2>2. now' \in Nat /\ now <= now' /\ price' \in Nat
    <3>1. CASE Tick  BY <1>1, <3>1 DEF Tick
    <3>2. CASE SetPrice  BY <1>1, <3>2 DEF SetPrice
    <3>3. QED  BY <1>6, <3>1, <3>2
  <2>3. QED  BY <1>1, <2>1, <2>2, QuietStep
<1>7. CASE UNCHANGED vars
  BY <1>1, <1>7, QuietStep DEF vars
<1>8. QED
  BY <1>2, <1>3, <1>4, <1>5, <1>6, <1>7 DEF OwnerCall

LEMMA InitInvariant == Init => IInv
<1> SUFFICES ASSUME Init PROVE IInv
  OBVIOUS
<1>1. TypeOK
  <2>1. DefaultParams \in [ParamNames -> Nat]
    BY DEF DefaultParams, ParamNames, DefaultMinCollateral
  <2>2. /\ positions \in [Users -> Positions]
        /\ \A u \in Users : positions[u].last_update <= now
    BY DEF Init, Positions
  <2>3. solver_orders \in [OrderIds -> Orders]
    <3>1. EmptyOrder \in Orders
      BY DEF EmptyOrder, Orders, Statuses, BPS
    <3>2. QED  BY <3>1 DEF Init
  <2>4. pending \in [ParamNames -> Changes]
    BY DEF Init, Changes, NoChange
  <2>5. wallet \in [Accounts -> Nat]
    BY DEF Init
  <2>6. /\ active_solver_order \in [Users -> OrderIds \cup {NoOrder}]
        /\ total_collateral \in Nat /\ total_debt \in Nat /\ paused \in BOOLEAN
        /\ vault_collateral \in Nat /\ vault_usdc \in Nat /\ price \in Nat /\ now \in Nat
    BY DEF Init
  <2>7. QED
    BY <2>1, <2>2, <2>3, <2>4, <2>5, <2>6 DEF Init, TypeOK
<1>2. TotalsAreSums
  BY <1>1, TotalsType, TotalZero DEF Init, TotalsAreSums, TotalDebtIsSum, TotalCollateralIsSum
<1>3. CollateralBacked
  <2>1. Points(wallet) = Users \X (1 .. InitialWallet)
    BY DEF Init, Points, Column, Accounts
  <2>2. IsFiniteSet(1 .. InitialWallet) /\ Cardinality(1 .. InitialWallet) = InitialWallet
    BY FS_Interval
  <2>3. Cardinality(Users \X (1 .. InitialWallet))
          = Cardinality(Users) * Cardinality(1 .. InitialWallet)
    BY <2>2, FS_Product, Zenon
  <2>4. Total(wallet) = Cardinality(Users) * InitialWallet
    BY <2>1, <2>2, <2>3 DEF Total
  <2>5. Total(wallet) \in Nat
    BY <1>1, FS_Union, TotalType DEF TypeOK, Accounts
  <2>6. vault_collateral + Total(wallet) = Total(wallet)
    BY <2>5 DEF Init
  <2>7. QED  BY <2>4, <2>6 DEF Init, CollateralBacked
<1>4. ActiveOrders /\ DebtOnlyUnderFilledOrder
  BY DEF Init, ActiveOrders, DebtOnlyUnderFilledOrder, EmptyOrder
<1>5. QED
  BY <1>1, <1>2, <1>3, <1>4 DEF IInv

LEMMA NextInvariant == IInv /\ [Next]_vars => IInv'
<1> SUFFICES ASSUME IInv, [Next]_vars PROVE IInv'
  OBVIOUS
<1>1. CASE UserCall
  BY <1>1, DepositStep, WithdrawStep DEF UserCall
<1>2. ASSUME OpenCall PROVE IInv'
  <2>1. PICK o \in OrderIds, user \in Users, principal \in Amounts, fee \in FeeChoices,
             window \in BorrowWindows, sync \in RouterAnswers :
          /\ solver_orders[o].status = "NONE"
          /\ open_solver_borrow_for(o, user, principal, principal + MulDiv(principal, fee, BPS),
                                    now + window, fee, sync)
    BY <1>2 DEF OpenCall
  <2>2. principal \in Nat /\ fee \in 0 .. BPS /\ BPS \in Nat \ {0} /\ now + window \in Nat
    <3>1. now \in Nat /\ window \in Nat /\ principal \in Nat /\ fee \in 0 .. BPS
      BY DEF IInv, TypeOK
    <3>2. now + window \in Nat
      BY <3>1
    <3>3. BPS \in Nat \ {0}
      BY DEF BPS
    <3>4. QED
      BY <3>1, <3>2, <3>3
  <2>3. principal + MulDiv(principal, fee, BPS) \in Nat
    BY <2>2, MulDivShare
  <2>4. QED  BY <2>1, <2>2, <2>3, OpenStep
<1>3. ASSUME OrderCall PROVE IInv'
  <2>1. PICK o \in OrderIds, user \in Users, amount \in Amounts, sync \in RouterAnswers :
          \/ cancel_solver_borrow_for(o, user)
          \/ mark_solver_borrow_filled(o, solver_orders[o].debt_amount, sync)
          \/ mark_solver_borrow_filled(o, amount, sync)
          \/ increase_solver_borrow_for(o, user, amount, sync)
          \/ repay_claim_for(o, user, amount, sync)
    BY <1>3 DEF OrderCall
  <2>2. amount \in Nat /\ solver_orders[o].debt_amount \in Nat
    BY DEF IInv, TypeOK, Orders
  <2>3. QED  BY <2>1, <2>2, CancelStep, FillStep, IncreaseStep, RepayStep
<1>4. CASE LiquidationCall
  BY <1>4, LiquidateStep, LiquidatePoolStep DEF LiquidationCall
<1>5. CASE OwnerCall \/ Tick \/ SetPrice \/ UNCHANGED vars
  BY <1>5, QuietActions
<1>6. QED
  BY <1>1, <1>2, <1>3, <1>4, <1>5 DEF Next
-----------------------------------------------------------------------------
\* The inductive invariant holds in every reachable state.
THEOREM Invariance == Spec => []IInv
BY InitInvariant, NextInvariant, PTL DEF Spec

\* No subtraction of the vault underflows and every variable keeps its type
\* (the checked subtractions of AyniVaultCore.sol's totals never revert).
THEOREM TypeCorrect == Spec => []TypeOK
<1>1. IInv => TypeOK  BY DEF IInv
<1>2. QED  BY <1>1, Invariance, PTL

\* total_debt and total_collateral are the sums of the users' positions,
\* though every handler moves them by increments of its own.
THEOREM BooksAreSums == Spec => []TotalsAreSums
<1>1. IInv => TotalsAreSums  BY DEF IInv
<1>2. QED  BY <1>1, Invariance, PTL

\* The vault can always pay out all the collateral it has on its books, and
\* the splits of a liquidation neither create nor lose a token.
THEOREM CollateralIsBacked == Spec => []CollateralBacked
<1>1. IInv => CollateralBacked  BY DEF IInv
<1>2. QED  BY <1>1, Invariance, PTL

\* An account is locked by exactly its one live order, and owes nothing when
\* no filled order stands behind the debt.
THEOREM DebtFollowsOrders == Spec => []OrdersAgree
<1>1. IInv => OrdersAgree  BY DEF IInv, OrdersAgree
<1>2. QED  BY <1>1, Invariance, PTL

\* Through any interleaving of the timelocked changes of both ratios, the LTV
\* stays below the liquidation threshold.
THEOREM RatiosStayOrdered == Spec => []RatiosOrdered
<1>1. Init => RatiosOrdered
  BY DEF Init, RatiosOrdered, DefaultParams, ParamNames
<1>2. TypeOK /\ RatiosOrdered /\ [Next]_vars => RatiosOrdered'
  <2> SUFFICES ASSUME TypeOK, RatiosOrdered, [Next]_vars PROVE RatiosOrdered'
    OBVIOUS
  <2>1. CASE UNCHANGED params
    BY <2>1 DEF RatiosOrdered
  <2>2. ASSUME NEW p \in ParamNames, apply_param(p) PROVE RatiosOrdered'
    <3>1. /\ AppliableValue(p, pending[p].value)
          /\ params' = [params EXCEPT ![p] = pending[p].value]
      BY <2>2 DEF apply_param
    <3>2. params \in [ParamNames -> Nat] /\ {"max_ltv", "liq_threshold"} \subseteq ParamNames
      BY DEF TypeOK, ParamNames
    <3>3. CASE p = "max_ltv"
      BY <3>1, <3>2, <3>3 DEF AppliableValue, RatiosOrdered
    <3>4. CASE p = "liq_threshold"
      BY <3>1, <3>2, <3>4 DEF AppliableValue, RatiosOrdered
    <3>5. CASE p # "max_ltv" /\ p # "liq_threshold"
      BY <3>1, <3>2, <3>5 DEF RatiosOrdered
    <3>6. QED  BY <3>3, <3>4, <3>5
  <2>3. UNCHANGED params \/ \E p \in ParamNames : apply_param(p)
    <3> USE DEF bookVars, tokenVars, adminVars, envVars
    <3>1. CASE UserCall
      BY <3>1 DEF UserCall, deposit_for, withdraw_for
    <3>2. CASE OpenCall
      BY <3>2 DEF OpenCall, open_solver_borrow_for
    <3>3. CASE OrderCall
      BY <3>3 DEF OrderCall, cancel_solver_borrow_for, mark_solver_borrow_filled,
                  increase_solver_borrow_for, repay_claim_for
    <3>4. CASE LiquidationCall
      BY <3>4 DEF LiquidationCall, liquidate_claim_for, liquidate_pool_claim_for, SeizePosition
    <3>5. CASE OwnerCall
      BY <3>5 DEF OwnerCall, set_param, pause, unpause, recover_usdc
    <3>6. CASE Tick \/ SetPrice \/ UNCHANGED vars
      BY <3>6 DEF Tick, SetPrice, vars
    <3>7. QED  BY <3>1, <3>2, <3>3, <3>4, <3>5, <3>6 DEF Next
  <2>4. QED  BY <2>1, <2>2, <2>3
<1>3. QED
  BY <1>1, <1>2, TypeCorrect, PTL DEF Spec
-----------------------------------------------------------------------------
(* Action properties: what no step does to an account *)

LEMMA DebtlessIsHealthy == \A c : Healthy(c, 0)
BY DEF Healthy

\* A handler that sets one account leaves every other as it was.
LEMMA OneAccount ==
  ASSUME TypeOK, NEW u \in Users, NEW v \in Users, NEW c, NEW d, SetPosition(u, c, d)
  PROVE  /\ v = u => positions'[v].collateral = c /\ positions'[v].debt = d
         /\ v # u => positions'[v] = positions[v]
BY DEF TypeOK, SetPosition

\* A handler that sets one order leaves every other as it was.
LEMMA OneOrder ==
  ASSUME TypeOK, NEW o \in OrderIds, NEW q \in OrderIds, NEW r, SetOrder(o, r)
  PROVE  solver_orders'[q] = IF q = o THEN r ELSE solver_orders[q]
BY DEF TypeOK, SetOrder

LEMMA DepositLeaves ==
  ASSUME IInv, NEW v \in Users, NEW u \in Users, NEW amount \in Amounts,
         NEW sync \in RouterAnswers, deposit_for(u, amount, sync)
  PROVE  ~ (positions'[v].collateral < positions[v].collateral)
<1>1. SetPosition(u, positions[u].collateral + amount, AccruedDebt(u, sync))
  BY DEF deposit_for
<1>2. positions[v].collateral \in Nat /\ positions[u].collateral \in Nat /\ amount \in Nat
  BY DEF IInv, TypeOK, Positions
<1>3. QED  BY <1>1, <1>2, OneAccount DEF IInv

LEMMA RepayLeaves ==
  ASSUME IInv, NEW v \in Users, NEW o \in OrderIds, NEW u \in Users, NEW amount \in Amounts,
         NEW sync \in RouterAnswers, repay_claim_for(o, u, amount, sync),
         positions'[v].collateral < positions[v].collateral
  PROVE  Healthy(positions'[v].collateral, positions'[v].debt) /\ ~ActiveIs(v, "OPEN")
<1> DEFINE old == positions[u].collateral
           left == AccruedDebt(u, sync) - RepaidAmount(u, amount, sync)
<1>1. SetPosition(u, old - (IF left = 0 THEN old ELSE 0), left)
  BY DEF repay_claim_for
<1>2. old \in Nat /\ positions[v].collateral \in Nat
  BY DEF IInv, TypeOK, Positions
<1>3. v = u /\ left = 0
  BY <1>1, <1>2, OneAccount DEF IInv
<1>4. positions'[v].debt = 0
  BY <1>1, <1>3, OneAccount DEF IInv
<1>5. solver_orders[o].borrower = u /\ solver_orders[o].status = "FILLED"
  BY DEF repay_claim_for
<1>6. active_solver_order[u] = o
  BY <1>5, LiveOrder DEF IInv
<1>7. QED  BY <1>3, <1>4, <1>5, <1>6, DebtlessIsHealthy DEF ActiveIs

LEMMA SeizeLeaves ==
  ASSUME IInv, NEW v \in Users, NEW o \in OrderIds, NEW sync \in RouterAnswers,
         SeizePosition(o, sync), positions'[v].collateral < positions[v].collateral
  PROVE  Healthy(positions'[v].collateral, positions'[v].debt) /\ ~ActiveIs(v, "OPEN")
<1> DEFINE u == solver_orders[o].borrower
<1>1. SetPosition(u, 0, 0) /\ solver_orders[o].status = "FILLED"
  BY DEF SeizePosition
<1>2. u \in Users /\ active_solver_order[u] = o
  BY <1>1, LiveOrder DEF IInv
<1>3. positions[v].collateral \in Nat
  BY DEF IInv, TypeOK, Positions
<1>4. v = u /\ positions'[v].debt = 0
  BY <1>1, <1>2, <1>3, OneAccount DEF IInv
<1>5. QED  BY <1>1, <1>2, <1>4, DebtlessIsHealthy DEF ActiveIs

\* The calls that open, fill, grow or cancel an order take no collateral.
LEMMA OrderKeepsCollateral ==
  ASSUME IInv, NEW v \in Users, NEW u \in Users, NEW d,
         SetPosition(u, positions[u].collateral, d)
  PROVE  ~ (positions'[v].collateral < positions[v].collateral)
<1>1. positions[v].collateral \in Nat
  BY DEF IInv, TypeOK, Positions
<1>2. positions'[v].collateral = positions[v].collateral
  BY OneAccount DEF IInv
<1>3. QED  BY <1>1, <1>2

LEMMA UnmovedKeepsCollateral ==
  ASSUME IInv, NEW v \in Users, UNCHANGED positions
  PROVE  ~ (positions'[v].collateral < positions[v].collateral)
BY DEF IInv, TypeOK, Positions

\* Whatever the router answers and whichever handler runs, collateral leaves
\* only an account that is healthy afterwards and whose order no filler awaits.
THEOREM CollateralIsSafe == Spec => CollateralLeavesSafely
<1> DEFINE Safe == \A u \in Users :
             positions'[u].collateral < positions[u].collateral =>
               /\ Healthy(positions'[u].collateral, positions'[u].debt)
               /\ ~ActiveIs(u, "OPEN")
<1>1. IInv /\ [Next]_vars => Safe
  <2> SUFFICES ASSUME IInv, [Next]_vars, NEW v \in Users,
                      positions'[v].collateral < positions[v].collateral
               PROVE  Healthy(positions'[v].collateral, positions'[v].debt) /\ ~ActiveIs(v, "OPEN")
    OBVIOUS
  <2>1. CASE UserCall
    <3>1. PICK user \in Users, amount \in Amounts, sync \in RouterAnswers :
            withdraw_for(user, amount, sync)
      BY <2>1, DepositLeaves DEF UserCall
    <3> DEFINE left == positions[user].collateral - amount
               debt == AccruedDebt(user, sync)
    <3>2. SetPosition(user, left, debt) /\ Healthy(left, debt) /\ ~ActiveIs(user, "OPEN")
      BY <3>1 DEF withdraw_for, WithdrawGuard
    <3>3. positions[v].collateral \in Nat
      BY DEF IInv, TypeOK, Positions
    <3>4. v = user /\ positions'[v].collateral = left /\ positions'[v].debt = debt
      BY <3>2, <3>3, OneAccount DEF IInv
    <3>5. QED  BY <3>2, <3>4
  <2>2. CASE OpenCall
    BY <2>2, OrderKeepsCollateral DEF OpenCall, open_solver_borrow_for
  <2>3. CASE OrderCall
    <3>1. PICK o \in OrderIds, user \in Users, amount \in Amounts, sync \in RouterAnswers :
            \/ cancel_solver_borrow_for(o, user)
            \/ mark_solver_borrow_filled(o, solver_orders[o].debt_amount, sync)
            \/ mark_solver_borrow_filled(o, amount, sync)
            \/ increase_solver_borrow_for(o, user, amount, sync)
            \/ repay_claim_for(o, user, amount, sync)
      BY <2>3 DEF OrderCall
    <3>2. ~cancel_solver_borrow_for(o, user)
      BY UnmovedKeepsCollateral DEF cancel_solver_borrow_for
    <3>3. ASSUME NEW d, mark_solver_borrow_filled(o, d, sync)
          PROVE  FALSE
      <4>1. solver_orders[o].borrower \in Users
        BY <3>3, LiveOrder DEF IInv, mark_solver_borrow_filled
      <4>2. QED  BY <3>3, <4>1, OrderKeepsCollateral DEF mark_solver_borrow_filled
    <3>4. ~increase_solver_borrow_for(o, user, amount, sync)
      BY OrderKeepsCollateral DEF increase_solver_borrow_for
    <3>5. QED  BY <3>1, <3>2, <3>3, <3>4, RepayLeaves
  <2>4. CASE LiquidationCall
    BY <2>4, SeizeLeaves DEF LiquidationCall, liquidate_claim_for, liquidate_pool_claim_for
  <2>5. CASE OwnerCall \/ Tick \/ SetPrice \/ UNCHANGED vars
    <3>1. UNCHANGED positions
      BY <2>5 DEF OwnerCall, set_param, apply_param, pause, unpause, recover_usdc, Tick, SetPrice,
                  vars, bookVars
    <3>2. QED  BY <3>1, UnmovedKeepsCollateral
  <2>6. QED
    BY <2>1, <2>2, <2>3, <2>4, <2>5 DEF Next
<1>2. QED
  BY <1>1, Invariance, PTL DEF Spec, CollateralLeavesSafely

-----------------------------------------------------------------------------
(* Filling an order *)

LEMMA UnmovedFillsNone ==
  ASSUME NEW q \in OrderIds, UNCHANGED solver_orders
  PROVE  ~ (solver_orders[q].status # "FILLED" /\ solver_orders'[q].status = "FILLED")
OBVIOUS

\* A handler that leaves its one order in a status other than FILLED fills none.
LEMMA OtherStatusFillsNone ==
  ASSUME IInv, NEW q \in OrderIds, NEW o \in OrderIds, NEW r, SetOrder(o, r),
         r.status = "FILLED" => solver_orders[o].status = "FILLED"
  PROVE  ~ (solver_orders[q].status # "FILLED" /\ solver_orders'[q].status = "FILLED")
BY OneOrder DEF IInv

LEMMA FillCovers ==
  ASSUME IInv, NEW o \in OrderIds, NEW d \in Nat, NEW sync \in RouterAnswers,
         mark_solver_borrow_filled(o, d, sync), NEW q \in OrderIds,
         solver_orders[q].status # "FILLED", solver_orders'[q].status = "FILLED"
  PROVE  LET u == solver_orders[q].borrower
         IN  /\ positions'[u].debt >= solver_orders'[q].principal
             /\ Healthy(positions'[u].collateral, positions'[u].debt)
<1> DEFINE order == solver_orders[o]
           user == order.borrower
           filled == [order EXCEPT !.status = "FILLED", !.filled_at = now]
<1>1. /\ order.status = "OPEN"
      /\ SetOrder(o, filled)
      /\ SetPosition(user, positions[user].collateral, d)
      /\ CoversFill(user, order.principal, d)
  BY DEF mark_solver_borrow_filled
<1>2. user \in Users /\ order \in Orders
  BY <1>1, LiveOrder DEF IInv, TypeOK
<1>3. q = o /\ solver_orders'[q] = filled
  BY <1>1, OneOrder DEF IInv
<1>4. solver_orders'[q].principal = order.principal
  BY <1>2, <1>3 DEF Orders
<1>5. positions'[user].collateral = positions[user].collateral /\ positions'[user].debt = d
  BY <1>1, <1>2, OneAccount DEF IInv
<1>6. QED  BY <1>1, <1>3, <1>4, <1>5 DEF CoversFill

\* The step that hands an account to a filler, whichever of the two fill calls
\* it is and whatever debt the second one names, leaves the account owing at
\* least the principal and healthy at the price of that moment.
THEOREM FillsAreCovered == Spec => FillIsCovered
<1> DEFINE Covered == \A o \in OrderIds :
             solver_orders[o].status # "FILLED" /\ solver_orders'[o].status = "FILLED" =>
               LET u == solver_orders[o].borrower
               IN  /\ positions'[u].debt >= solver_orders'[o].principal
                   /\ Healthy(positions'[u].collateral, positions'[u].debt)
<1>1. IInv /\ [Next]_vars => Covered
  <2> SUFFICES ASSUME IInv, [Next]_vars, NEW q \in OrderIds,
                      solver_orders[q].status # "FILLED", solver_orders'[q].status = "FILLED"
               PROVE  LET u == solver_orders[q].borrower
                      IN  /\ positions'[u].debt >= solver_orders'[q].principal
                          /\ Healthy(positions'[u].collateral, positions'[u].debt)
    OBVIOUS
  <2>1. ~UserCall
    BY UnmovedFillsNone DEF UserCall, deposit_for, withdraw_for
  <2>2. ~OpenCall
    <3>1. ASSUME NEW o \in OrderIds, NEW user \in Users, NEW principal, NEW debt, NEW expiry,
                 NEW fee, NEW sync \in RouterAnswers,
                 open_solver_borrow_for(o, user, principal, debt, expiry, fee, sync)
          PROVE  FALSE
      <4> DEFINE order == OpenedOrder(user, principal, debt, expiry, fee)
      <4>1. SetOrder(o, order)
        BY <3>1 DEF open_solver_borrow_for
      <4>2. order.status = "OPEN"
        BY DEF OpenedOrder
      <4> HIDE DEF order
      <4>3. QED  BY <4>1, <4>2, OtherStatusFillsNone
    <3>2. QED  BY <3>1 DEF OpenCall
  <2>3. CASE OrderCall
    <3>1. PICK o \in OrderIds, user \in Users, amount \in Amounts, sync \in RouterAnswers :
            \/ cancel_solver_borrow_for(o, user)
            \/ mark_solver_borrow_filled(o, solver_orders[o].debt_amount, sync)
            \/ mark_solver_borrow_filled(o, amount, sync)
            \/ increase_solver_borrow_for(o, user, amount, sync)
            \/ repay_claim_for(o, user, amount, sync)
      BY <2>3 DEF OrderCall
    <3>2. solver_orders[o] \in Orders /\ solver_orders[o].debt_amount \in Nat /\ amount \in Nat
      BY DEF IInv, TypeOK, Orders
    <3>3. ~cancel_solver_borrow_for(o, user)
      BY <3>2, OtherStatusFillsNone DEF cancel_solver_borrow_for, Orders
    <3>4. ~increase_solver_borrow_for(o, user, amount, sync)
      BY OtherStatusFillsNone DEF increase_solver_borrow_for
    <3>5. ~repay_claim_for(o, user, amount, sync)
      BY OtherStatusFillsNone, UnmovedFillsNone DEF repay_claim_for
    <3>6. QED  BY <3>1, <3>2, <3>3, <3>4, <3>5, FillCovers
  <2>4. ~LiquidationCall
    <3>1. ASSUME NEW o \in OrderIds, NEW sync \in RouterAnswers, SeizePosition(o, sync)
          PROVE  FALSE
      BY <3>1, OtherStatusFillsNone DEF SeizePosition
    <3>2. QED
      BY <3>1 DEF LiquidationCall, liquidate_claim_for, liquidate_pool_claim_for
  <2>5. ~(OwnerCall \/ Tick \/ SetPrice \/ UNCHANGED vars)
    BY UnmovedFillsNone DEF OwnerCall, set_param, apply_param, pause, unpause, recover_usdc,
                            Tick, SetPrice, vars, bookVars
  <2>6. QED
    BY <2>1, <2>2, <2>3, <2>4, <2>5 DEF Next
<1>2. QED
  BY <1>1, Invariance, PTL DEF Spec, FillIsCovered

=============================================================================
