\* Two claims, batches of two blocks, channels of one message, a crash; no cursor is configured.
SPECIFICATION Spec
CONSTANTS
  Claims = {c1, c2}
  Borrower <- MCBorrower
  Traders = {s1}
  Pools = {}
  Nobody = Nobody
  MaxBlocks = 3
  NoOrder = NoOrder
  BatchSize = 2
  Lookback = 2
  StartBlock = 0
  ChannelSize = 1
  WsChannelSize = 1
  HasSolverKey = TRUE
  MaxCrashes = 1
INVARIANTS
  TypeOK
  MirrorsLog
  SavedWasSent
PROPERTIES
  EventuallyHandled
  StaysSubscribed
CHECK_DEADLOCK FALSE
