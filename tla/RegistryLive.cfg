CONSTANTS
  d1 = d1
  d2 = d2
  s1 = s1
  s2 = s2
  in = in
  out = out
  t1 = t1
  t2 = t2
  Devices = {d1}
  Shards = {s1, s2}
  Locations = {in}
  Areas <- MCTwoAreas
  Threads = {t1}
  Capacity = 1
  MaxConn = 2
  Deaf = {1}
SPECIFICATION FairSpec
PROPERTIES
  UnregisteredEnds
  SessionsCleanUp
CHECK_DEADLOCK FALSE
