SPECIFICATION MCSpec
CONSTANTS
  w1 = w1
  w2 = w2
  s1 = s1
  s2 = s2
  s3 = s3
  d1 = d1
  Workers = {w1, w2}
  MaxSessions = 3
  Shards = {s1, s2, s3}
  Owner <- MCOwner
  MaxSockets = 1
  Capacity = 1
  Dashboards = {d1}
INVARIANTS NewestIsVisible CountsAddUp DashboardAccounts
PROPERTY StaleGoesAway
CHECK_DEADLOCK FALSE
