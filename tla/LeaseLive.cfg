SPECIFICATION FairSpec
CONSTANTS
  w1 = w1
  w2 = w2
  s1 = s1
  s2 = s2
  Workers = {w1}
  Shards = {s1, s2}
  Prefixes <- MCAlone
  TTL = 3
  Crashable = {w1}
  Punctual = FALSE
  DataLoss = TRUE
  MaxLate = 1
  MaxOrphans = 1
PROPERTIES DeadOwnerExpires LostIsReclaimed
