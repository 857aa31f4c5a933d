SPECIFICATION Spec
CONSTANTS
  MaxAlerts = 2
  MaxSessions = 2
  Inside = {1, 2}
  Capacity = 2
  MaxRead = 2
  Limit = 2
  Margin = 1
  Window = 2
  Overlap = 1
  Tolerance = 0
  Skew = 0
  InOrder = TRUE
  Gaps = FALSE
  Settled = FALSE
  Deaf = {}
  Lingering = {}
INVARIANT NothingLost
CHECK_DEADLOCK FALSE
