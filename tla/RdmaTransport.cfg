CONSTANTS
  Peers = {p1, p2}
  PendingMod = 4
  MaxCompletions = 1
  MaxPosts = 3
SPECIFICATION FairSpec
INVARIANTS TypeOK ExactlyOnceInOrder CompletionFollowsDelivery PendingExact FlushComplete
PROPERTIES WritesDelivered FlushReturns
