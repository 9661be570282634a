SPECIFICATION FairSpec
CONSTANTS
  Session = {s1, s2}
  Request = {r1, r2, r3}
  None = None
  Stop = Stop
  MaxManagers = 3
INVARIANTS
  TypeOK
  SessionsHaveOneOwner
  NothingIsStranded
PROPERTIES
  RequestsEnd
CHECK_DEADLOCK FALSE
