SPECIFICATION FairSpec
CONSTANTS
  b1 = b1
  b2 = b2
  Bootstraps = {b1, b2}
  Requests = {u1}
  NoTask = NoTask
  Count = 2
  PerLanguage = 1
  Releases = {1, 2}
  ReleaseOf <- TwoReleases
  Earlier = {1}
INVARIANTS TypeOK FilesAgree OneRelease CreatedOnce
PROPERTIES EditsKept AllEnd
CHECK_DEADLOCK FALSE
