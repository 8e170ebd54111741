SPECIFICATION Spec
CONSTANTS
  MaxRequests = 4
  capacity = 2
  RPC_MAX_BATCH_SIZE = 2
INVARIANT RateLimited
