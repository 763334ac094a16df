\* A pool claim whose vault-side interest runs ahead of the pool's.
SPECIFICATION Spec
CONSTANTS
  Users = {u1}
  Solvers = {s1}
  Owner = Owner
  Settler = Settler
  ThisPool = ThisPool
  AnotherPool = AnotherPool
  Pools = {ThisPool}
  Settlers = {}
  NoUser = NoUser
  NoOrder = NoOrder
  MaxNonce = 1
  FillWindow = 2
  Amounts = {200, 255}
  BorrowWindows = {}
  InitialWallet = 255
  MaxPrincipal = 400
  FeeChoices = {}
  ParamChoices <- MCNoParamChoices
  Prices = {1, 2}
  CollateralUnit = 1
  DebtUnit = 1
  OracleUnit = 1
  SeedAmounts = {300}
  ShareAmounts = {300}
  MaxShares = 300
  RAY = 100
  CooldownPeriod = 1
  WithdrawWindow = 1
  InitialModel <- MCCheapModel
  Models <- MCNoModels
  Unlimited = 9999
  SecondsPerYear = 1
  ConfigDelay = 1
  MaxTime = 3
PROPERTIES
  OnlyUnhealthyIsLiquidated
CHECK_DEADLOCK FALSE
