SPECIFICATION FairPipelineSpec
CONSTANTS
  MaxTxns = 4
  MAX_PENDING_SIMULATIONS = 1
  Updates <- MC_Updates
  MempoolMark = 1
  SimulationsMark = 1
  MaxTrades = 2
INVARIANTS
  InOrderOnce
  PendingIsInFlight
  NoLostWakeup
PROPERTIES
  OnlyEarlierOvertake
  NoBackPressure
