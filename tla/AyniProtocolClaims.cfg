\* One borrower, two orders, the pool and two solvers who fill and trade claims.
SPECIFICATION Spec
CONSTANTS
  Users = {u1}
  Solvers = {s1, s2}
  Owner = Owner
  Settler = Settler
  ThisPool = ThisPool
  AnotherPool = AnotherPool
  Pools = {ThisPool, AnotherPool}
  Settlers = {Settler}
  NoUser = NoUser
  NoOrder = NoOrder
  MaxNonce = 2
  FillWindow = 1
  Amounts = {200}
  BorrowWindows = {1}
  InitialWallet = 400
  MaxPrincipal = 400
  FeeChoices = {}
  ParamChoices <- MCNoParamChoices
  Prices = {0, 1, 2}
  CollateralUnit = 1
  DebtUnit = 1
  OracleUnit = 1
  SeedAmounts = {300}
  ShareAmounts = {300}
  MaxShares = 300
  RAY = 100
  CooldownPeriod = 1
  WithdrawWindow = 1
  InitialModel <- MCModel
  Models <- MCNoModels
  Unlimited = 9999
  SecondsPerYear = 1
  ConfigDelay = 1
  MaxTime = 2
INVARIANTS
  TypeOK
  StatusMirror
  HolderIffFilled
  LoansAreClaims
PROPERTIES
  HealthKept
  ImplementsLedger
SYMMETRY MCSymmetry
CHECK_DEADLOCK FALSE
