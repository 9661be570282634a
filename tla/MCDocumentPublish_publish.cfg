SPECIFICATION Spec
CONSTANTS
  File = {a, b}
  Absent = Absent
  MaxRequests = 3
  MaxFiles = 3
  MaxFaults = 1
  MaxTimeouts = 1
  MaxReads = 1
SYMMETRY FileSymmetry
INVARIANTS
  TypeOK
  SettledBucketIsOnePublication
  RefusalsHaveCause
  IndexCitesItsArchive
PROPERTIES
  ImplementsLibrary
CONSTRAINT Serial
CHECK_DEADLOCK FALSE
