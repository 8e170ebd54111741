CONSTANTS
  w1 = w1
  w2 = w2
  a1 = a1
  a2 = a2
  p1 = p1
  p2 = p2
  Workers = {w1, w2}
  Pools <- TwoPools
  Accounts = {a1, a2}
  AccountsOf <- TwoPoolsAccounts
  Rejected <- SomeRejected
  Closed <- SomeClosed
  MaxVersion = 3
SPECIFICATION FairSpec
INVARIANTS
  ReplicasAgree
  InitializedIsComplete
  QuotesFollowAccounts
PROPERTIES
  OnlyReseedGoesBack
  UpdatesReachWorkers
