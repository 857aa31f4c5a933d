SPECIFICATION Spec
CONSTANTS
  w1 = w1
  w2 = w2
  s1 = s1
  s2 = s2
  Workers = {w1, w2}
  Shards = {s1, s2}
  Prefixes <- MCOverlap
  TTL = 3
  Crashable = {w1, w2}
  Punctual = TRUE
  DataLoss = FALSE
  MaxLate = 0
  MaxOrphans = 1
INVARIANTS TypeOK RenewedIsHeld EndsWithNothing HealthyIsHeld BelieveApart
PROPERTY RegistryKeepsItsPromise
