SPECIFICATION Spec
CONSTANTS
  Tasks = {t1, t2}
  Versions = {v1, v2}
  Channels = {pilot, stable}
  Unpublished = unpublished
  NoVersion = none
  MaxRelease = 2
  FilesFaulty = TRUE
  MaxReviews = 2
SYMMETRY Symmetry
INVARIANTS TypeOK ChannelStaysServed DeliveredWasApproved AuditTells
CHECK_DEADLOCK FALSE
