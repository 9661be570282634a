SPECIFICATION Spec
CONSTANTS
  Call = {c1, c2}
  NoCall = NoCall
  MaxCalls = 2
  MaxMessages = 3
  MaxAttempts = 2
  WireLimit = 5
  MaxFaults = 1
  StrangerMessage = {1, 2}
  MaxSeq = 1
INVARIANTS
  TypeOK
  HistoryIsPaired
  AgentSparesSession
  StoredIsConversation
PROPERTIES
  AgentIsUnderstood
  StreamSparesSession
CHECK_DEADLOCK FALSE
SYMMETRY CallSymmetry
