SPECIFICATION Spec
CONSTANTS
  p1 = p1
  p2 = p2
  p3 = p3
  s1 = s1
  s2 = s2
  w1 = w1
  w2 = w2
  Places = {p1, p2, p3}
  Shards = {s1, s2}
  ShardOf <- MCShardOf
  Workers = {w1,w2}
  Owned <- MCOwned
  MaxRequests = 4
  MaxAttempts = 2
  Serial = TRUE
INVARIANTS TypeOK TicketsAdmitOnce RevokedIsOut RecordIsCurrent SessionsFollow
PROPERTY DeletedStaysDeleted
CHECK_DEADLOCK FALSE
