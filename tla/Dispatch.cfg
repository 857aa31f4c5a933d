SPECIFICATION FairSpec
CONSTANTS
  s1 = s1
  s2 = s2
  s3 = s3
  Shards = {s1, s2}
  MaxAlerts = 2
  Parallel = 1
  BatchSize = 1
  MaxBatches = 1
INVARIANTS TypeOK AnswerIsHonest StoredIsKnown DetailsAgree
PROPERTIES DispatchEnds OldGoesAway
