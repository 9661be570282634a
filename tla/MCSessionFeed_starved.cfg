SPECIFICATION FairSpec
CONSTANTS
  Page = {p1}
  Turn = {t1}
  NoTurn = NoTurn
  MaxProgress = 1
  QueueLimit = 4
  FeedLimit = 1
  IdleTicks = 2
  MaxFaults = 1
  MaxLost = 0
PROPERTIES
  PagesSettle
