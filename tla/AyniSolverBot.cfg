\* Two claims, money for one until more arrives, a crash and another filler.
SPECIFICATION Spec
CONSTANTS
  Claims = {c1, c2}
  Borrower <- MCBorrower
  Traders = {bot, s1}
  Pools = {p1}
  Nobody = Nobody
  MaxBlocks = 4
  Bot = bot
  Usdc = {c1, c2}
  Principal <- MCPrincipal
  InitialUsdc = 2
  MinUsdc = 1
  MaxUsdc = 4
  MaxBlockRange = 2
  Lookback = 1
  StartBlock = 1
  MaxCrashes = 1
INVARIANTS
  TypeOK
  PaysOncePerClaim
  NoOrderMissed
PROPERTY EveryOrderConsidered
CHECK_DEADLOCK FALSE
