CONSTANTS
  SOL = SOL
  USDC = USDC
  BONK = BONK
  Mint = {SOL, USDC, BONK}
  BaseMint = {SOL, USDC}
  Market <- MC_Market
  Simulations <- MC_Simulations
  feeRateBps = 1000
  Gains = {0, 1, 2}
  ARB_CALCULATION_NUM_STEPS = 2
  MAX_ARB_CALCULATION_TIME_MS = 1
  SOLEND_FLASHLOAN_FEE_BPS = 30
  NoTrade = NoTrade
  NoIdea = NoIdea
  Pending = Pending
SPECIFICATION FairSpec
INVARIANTS
  RoutesAreTheCircles
  QuotesKeepTheirRoute
PROPERTIES
  EstimatesAreCautious
  YieldsTheBest
  EverySearchEnds
