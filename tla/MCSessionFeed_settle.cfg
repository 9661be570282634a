SPECIFICATION FairSpec
CONSTANTS
  Page = {p1, p2}
  Turn = {t1}
  NoTurn = NoTurn
  MaxProgress = 1
  QueueLimit = 4
  FeedLimit = 1
  IdleTicks = 2
  MaxFaults = 0
  MaxLost = 1
INVARIANTS
  SubscriptionsAreRead
PROPERTIES
  PagesSettle
