SPECIFICATION FairSpec
CONSTANTS
  TIP_PERCENT = 25
  MIN_TIP_LAMPORTS = 10000
  MAX_SAFE_INTEGER = 2000000
  SIMULATION_MODE = FALSE
  BundleIds = {b1, b2}
  TradeSizes <- MC_TradeSizes
  OutAmounts <- MC_OutAmounts
  SwapAnswers <- MC_SwapAnswers
  UsdcValue = 3
  MaxSends = 2
  MaxResults = 1
INVARIANTS
  CostsCovered
  LoanRepaid
  NoRecordForgotten
  RowIsFaithful
PROPERTIES
  EveryTradeLogged
