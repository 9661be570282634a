SPECIFICATION Spec
CONSTANTS
  Turn = {t1, t2}
  NoTurn = NoTurn
  QueueLimit = 1
  MaxFaults = 1
  MaxCrashes = 1
  MaxRes = 0
SYMMETRY TurnSymmetry
INVARIANTS
  TypeOK
  ClaimMatchesTurns
  StreamingTurnOwnsSession
  AckedTurnIsDurable
  RepliedStatusIsFinal
  FailedReplyIsHonest
  PendingCancelHasRuntime
PROPERTIES
  TerminalIsFinal
  RestartSettlesTurns
  ImplementsContract
  NoEventAfterTerminal
  BeginReadsSettledHistory
CHECK_DEADLOCK FALSE
