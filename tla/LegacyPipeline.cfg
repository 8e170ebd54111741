SPECIFICATION FairLegacySpec
CONSTANTS
  MaxArrivals = 3
  Rank <- MC_Rank
  highWaterMark = 2
  TIP_PERCENT = 25
  MIN_TIP_LAMPORTS = 10000
  Ideas <- MC_Ideas
  SolValues = {24999, 25001}
  MaxResults = 1
INVARIANTS
  NoneWaitsBesideAnItem
  LandingLeavesTheMargin
  QuotedPriceKeepsItsShare
  EveryTimerFindsItsTrade
  LegacyRowIsFaithful
PROPERTIES
  ImplementsLossyQueue
  EveryBundleLogged
