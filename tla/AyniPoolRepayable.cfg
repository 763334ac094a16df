\* A second loan taken once the index has left RAY.
SPECIFICATION Spec
CONSTANTS
  LPs = {lp1}
  OrderIds = {o1}
  Borrowers = {b1}
  NoUser = NoUser
  RAY = 10
  SecondsPerYear = 1
  ConfigDelay = 1
  CooldownPeriod = 1
  WithdrawWindow = 1
  InitialModel <- MCModel
  Models <- MCNoModels
  ShareAmounts = {11}
  LoanAmounts = {3}
  Approvals = {}
  Unlimited = 99
  MaxShares = 11
  MaxTime = 3
INVARIANTS
  DebtCoversPrincipal
SYMMETRY MCSymmetry
CHECK_DEADLOCK FALSE
