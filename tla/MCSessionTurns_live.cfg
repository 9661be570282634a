SPECIFICATION FairSpec
CONSTANTS
  Turn = {t1}
  NoTurn = NoTurn
  QueueLimit = 2
  MaxFaults = 1
  MaxCrashes = 1
  MaxRes = 0
PROPERTIES
  TurnsSettle
  OrderlyCancelsAnswered
