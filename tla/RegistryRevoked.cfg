SPECIFICATION Spec
CONSTANTS
  Tasks = {t1, t2}
  Versions = {v1}
  Channels = {stable}
  Unpublished = unpublished
  NoVersion = none
  MaxRelease = 1
  FilesFaulty = FALSE
  MaxReviews = 3
SYMMETRY Symmetry
INVARIANTS RevokedStaysBlocked
CHECK_DEADLOCK FALSE
