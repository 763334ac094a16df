\* Two providers who deposit, approve, transfer and leave around one loan.
SPECIFICATION Spec
CONSTANTS
  LPs = {lp1, lp2}
  OrderIds = {o1}
  Borrowers = {b1}
  NoUser = NoUser
  RAY = 10
  SecondsPerYear = 1
  ConfigDelay = 1
  CooldownPeriod = 1
  WithdrawWindow = 0
  InitialModel <- MCModel
  Models <- MCNoModels
  ShareAmounts = {4}
  LoanAmounts = {8}
  Approvals = {4, 99}
  Unlimited = 99
  MaxShares = 8
  MaxTime = 2
INVARIANTS
  SharesAddUp
PROPERTIES
  SharePriceHolds
SYMMETRY MCSymmetry
CHECK_DEADLOCK FALSE
