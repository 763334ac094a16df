\* One provider, two loans whose interest compounds over three periods, the last at a steeper rate.
SPECIFICATION Spec
CONSTANTS
  LPs = {lp1}
  OrderIds = {o1, o2}
  Borrowers = {b1}
  NoUser = NoUser
  RAY = 10
  SecondsPerYear = 1
  ConfigDelay = 2
  CooldownPeriod = 3
  WithdrawWindow = 0
  InitialModel <- MCModel
  Models <- MCModels
  ShareAmounts = {11}
  LoanAmounts = {5}
  Approvals = {}
  Unlimited = 99
  MaxShares = 11
  MaxTime = 3
INVARIANTS
  TypeOK
  LoansAddUp
  ReserveInCash
PROPERTIES
  AccrualIsTransparent
  LendingKeepsWorth
SYMMETRY MCSymmetry
CHECK_DEADLOCK FALSE
