SPECIFICATION FairSpec
CONSTANTS
  MaxRequests = 5
  capacity = 2
  RPC_MAX_BATCH_SIZE = 3
INVARIANTS
  NoOvertaking
  EachRequestOnce
  OwnAnswer
PROPERTY EveryRequestSettled
