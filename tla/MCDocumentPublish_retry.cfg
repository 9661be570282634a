SPECIFICATION Spec
CONSTANTS
  File = {a, b}
  Absent = Absent
  MaxRequests = 3
  MaxFiles = 3
  MaxFaults = 1
  MaxTimeouts = 0
  MaxReads = 0
SYMMETRY FileSymmetry
INVARIANTS
  RetriesSucceed
CHECK_DEADLOCK FALSE
