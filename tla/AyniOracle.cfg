\* The helper's feed and a foreign one over four days; the staleness allowed is lowered from two to one.
SPECIFICATION Spec
CONSTANTS
  Feeds = {manual, foreign}
  ManualFeed = manual
  FirstFeed = manual
  FeedDecimals <- MCFeedDecimals
  Signer = signer
  Accounts = {signer, other}
  MarketPrice <- MCMarketPrice
  PriceUnit = 10
  InitialStaleness = 2
  Staleness = {1}
  ConfigDelay = 1
  SendWindow = 1
  Unset = Unset
  Together <- MCTogether
  MaxTime = 4
INVARIANTS
  TypeOK
  FallbackWasTheMarket
  PriceTracksMarket
PROPERTIES
  AnnouncedBeforeUse
CHECK_DEADLOCK FALSE
