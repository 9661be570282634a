SPECIFICATION Spec
CONSTANTS
  Turn = {t1, t2, t3}
  NoTurn = NoTurn
  QueueLimit = 1
  MaxFaults = 0
  MaxCrashes = 0
  MaxRes = 1
SYMMETRY TurnSymmetry
INVARIANTS
  OneTurnAtATime
CHECK_DEADLOCK FALSE
