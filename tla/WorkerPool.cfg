CONSTANTS
  c1 = c1
  c2 = c2
  b1 = b1
  b2 = b2
  NoTask = NoTask
  Size = 1
  Calls = {c1, c2}
  Broadcasts = {b1, b2}
SPECIFICATION FairSpec
INVARIANTS
  ResultOfOwnTask
  OneTaskPerWorker
  WorkConserving
PROPERTIES
  ImplementsService
  BroadcastServed
  PriorityServed
