\* One borrower, one market whose vault may be replaced, four administrative calls.
SPECIFICATION Spec
CONSTANTS
  Markets = {usdc}
  Users = {u}
  Filler = filler
  Owner = owner
  Admins = {admin}
  Protocol = protocol
  OtherProtocol = protocol2
  ThisFactory = factory
  OtherFactory = factory2
  ThisRegistry = registry
  OtherRegistry = registry2
  Blueprints = {bp1, bp2}
  FirstBlueprint = bp1
  Salts = {salt}
  NoOne = NoOne
  InitialNative = 1
  Amounts = {1}
  Approvals = {9}
  Unlimited = 9
  MaxVaults = 2
  MaxNonce = 2
  MaxAdminCalls = 4
INVARIANTS
  TypeOK
  OneVaultPerMarket
  TokensBacked
PROPERTIES
  LeaversLeave
CHECK_DEADLOCK FALSE
