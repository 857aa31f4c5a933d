CONSTANTS
  d1 = d1
  d2 = d2
  s1 = s1
  s2 = s2
  in = in
  out = out
  t1 = t1
  t2 = t2
  Devices = {d1}
  Shards = {s1, s2}
  Locations = {in}
  Areas <- MCAreas
  Threads = {t1, t2}
  Capacity = 1
  MaxConn = 2
  Deaf = {}
SYMMETRY MCSymmetry
SPECIFICATION Spec
INVARIANT AlwaysIndexed
CHECK_DEADLOCK FALSE
