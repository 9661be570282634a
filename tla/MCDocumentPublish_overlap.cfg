SPECIFICATION Spec
CONSTANTS
  File = {a, b}
  Absent = Absent
  MaxRequests = 2
  MaxFiles = 3
  MaxFaults = 0
  MaxTimeouts = 1
  MaxReads = 0
SYMMETRY FileSymmetry
PROPERTIES
  StoredRowsAreFull
CHECK_DEADLOCK FALSE
