SPECIFICATION LegacySpec
\* TIP_PERCENT is that of .env.docker.example, which leaves MIN_TIP_LAMPORTS at its
\* default.
CONSTANTS
  MaxArrivals = 1
  Rank <- MC_Rank
  highWaterMark = 2
  TIP_PERCENT = 50
  MIN_TIP_LAMPORTS = 10000
  Ideas <- MC_Ideas
  SolValues = {24999, 25001}
  MaxResults = 1
INVARIANT
  QuotedPricePays
