SPECIFICATION Spec
CONSTANTS
  Procs = {p1, p2}
  x1 = x1
  x2 = x2
  s1 = s1
  s2 = s2
  Paths = {x1, x2}
  Oids = {o1}
  Levels = {0, 1}
  Shards = {s1, s2}
  ShardOf <- MCShardOf
  Txns = {t1, t2}
  None = None
INVARIANTS PendingMeansTracked
CHECK_DEADLOCK FALSE
