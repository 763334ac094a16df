\* One claim that is opened, filled and repaid in part.
SPECIFICATION Spec
CONSTANTS
  Claims = {c1}
  Borrower <- MCBorrower
  Traders = {s1}
  Pools = {p1}
  Nobody = Nobody
  MaxBlocks = 3
  NoOrder = NoOrder
  BatchSize = 2
  Lookback = 5
  StartBlock = 0
  ChannelSize = 2
  WsChannelSize = 1
  HasSolverKey = FALSE
  MaxCrashes = 0
INVARIANT IntentsReflectChain
CHECK_DEADLOCK FALSE
