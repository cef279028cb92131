SPECIFICATION Spec
CONSTANTS
  Tasks = {t1, t2}
  Workers = {w1}
  Digests = {a, b}
  NoDigest = none
  Valid = {a, b}
  MaxRelease = 1
  HardLinks = FALSE
  FilesLost = TRUE
  LegacyCallers = TRUE
  MaxRevision = 2
  MaxReviews = 2
  MaxFaults = 1
SYMMETRY SymmetryOfDigests
INVARIANTS StoredWasApproved QueuedDesignHasJob
CHECK_DEADLOCK FALSE
