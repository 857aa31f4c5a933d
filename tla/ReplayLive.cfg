SPECIFICATION FairSpec
CONSTANTS
  MaxAlerts = 2
  MaxSessions = 2
  Inside = {1, 2}
  Capacity = 1
  MaxRead = 2
  Limit = 2
  Margin = 1
  Window = 2
  Overlap = 1
  Tolerance = 0
  Skew = 0
  InOrder = TRUE
  Gaps = FALSE
  Settled = TRUE
  Deaf = {1}
  Lingering = {}
PROPERTY StoredArrives
CHECK_DEADLOCK FALSE
