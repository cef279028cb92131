SPECIFICATION FairSpec
CONSTANTS
  Tasks = {t1}
  Workers = {w1, w2}
  Digests = {a, b}
  NoDigest = none
  Valid = {a}
  MaxRelease = 2
  HardLinks = TRUE
  FilesLost = FALSE
  LegacyCallers = FALSE
  MaxRevision = 2
  MaxReviews = 2
  MaxFaults = 1
INVARIANTS TypeOK ArtifactMatchesRecord
PROPERTIES QueuedIsSettled
CHECK_DEADLOCK FALSE
