\* Two borrowers, two orders: simple or pool interest, price moves, both ratios rescheduled.
SPECIFICATION Spec
CONSTANTS
  Users = {u1, u2}
  Recipients = {receiver}
  OrderIds = {o1, o2}
  NoOrder = NoOrder
  NoUser = NoUser
  InitialWallet = 10
  StrayUsdc = 10
  Amounts = {10}
  FeeChoices = {2500}
  RouterAnswers <- MCRouterAnswers
  ParamChoices <- MCRatioChoices
  Prices = {1, 2}
  MaxTime = 2
  MaxPrincipal = 20
  BorrowWindows = {1}
  ConfigDelay = 1
  SecondsPerYear = 1
  CollateralUnit = 1
  DebtUnit = 1
  OracleUnit = 1
INVARIANTS
  TypeOK
  TotalsAreSums
  CollateralBacked
  OrdersAgree
  RatiosOrdered
PROPERTIES
  CollateralLeavesSafely
  FillIsCovered
SYMMETRY MCSymmetry
CHECK_DEADLOCK FALSE
