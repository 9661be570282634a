SPECIFICATION Spec
CONSTANTS
  Page = {p1, p2}
  Turn = {t1, t2}
  NoTurn = NoTurn
  MaxProgress = 1
  QueueLimit = 1
  FeedLimit = 1
  IdleTicks = 0
  MaxFaults = 1
  MaxLost = 1
SYMMETRY FeedSymmetry
INVARIANTS
  TypeOK
  ExactlyOnce
  ReadersWillHear
