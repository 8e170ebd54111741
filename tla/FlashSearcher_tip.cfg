SPECIFICATION Spec
CONSTANTS
  TIP_PERCENT = 25
  MIN_TIP_LAMPORTS = 10000
  MAX_SAFE_INTEGER = 2000000
  SIMULATION_MODE = FALSE
  BundleIds = {b1}
  TradeSizes <- MC_TradeSizes
  OutAmounts <- MC_OutAmounts
  SwapAnswers <- MC_SwapAnswers
  UsdcValue = 3
  MaxSends = 1
  MaxResults = 0
INVARIANT TipIsShareOfProfitInSol
