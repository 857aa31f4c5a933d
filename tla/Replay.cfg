SPECIFICATION Spec
CONSTANTS
  MaxAlerts = 2
  MaxSessions = 2
  Inside = {1, 2}
  Capacity = 1
  MaxRead = 2
  Limit = 1
  Margin = 1
  Window = 1
  Overlap = 2
  Tolerance = 0
  Skew = 1
  InOrder = TRUE
  Gaps = FALSE
  Settled = TRUE
  Deaf = {}
  Lingering = {1}
INVARIANTS TypeOK NothingSkipped AcksAreKept
PROPERTY CursorNeverRewinds
CHECK_DEADLOCK FALSE
