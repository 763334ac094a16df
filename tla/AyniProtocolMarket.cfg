\* Two borrowers share a pool; rate model and interest are rescheduled.
SPECIFICATION Spec
CONSTANTS
  Users = {u1, u2}
  Solvers = {s1}
  Owner = Owner
  Settler = Settler
  ThisPool = ThisPool
  AnotherPool = AnotherPool
  Pools = {ThisPool}
  Settlers = {}
  NoUser = NoUser
  NoOrder = NoOrder
  MaxNonce = 1
  FillWindow = 2
  Amounts = {200}
  BorrowWindows = {}
  InitialWallet = 200
  MaxPrincipal = 400
  FeeChoices = {}
  ParamChoices <- MCParamChoices
  Prices = {1, 2}
  CollateralUnit = 1
  DebtUnit = 1
  OracleUnit = 1
  SeedAmounts = {300}
  ShareAmounts = {}
  MaxShares = 300
  RAY = 100
  CooldownPeriod = 1
  WithdrawWindow = 1
  InitialModel <- MCModel
  Models <- MCModels
  Unlimited = 9999
  SecondsPerYear = 1
  ConfigDelay = 1
  MaxTime = 3
INVARIANTS
  DebtsAgree
PROPERTIES
  LendersKeepWorth
SYMMETRY MCSymmetry
CHECK_DEADLOCK FALSE
