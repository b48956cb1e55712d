SPECIFICATION Spec
CONSTANTS
  p1 = p1
  p2 = p2
  x1 = x1
  x2 = x2
  f = f
  s1 = s1
  s2 = s2
  Procs = {p1, p2}
  Paths = {x1, x2}
  Oids = {o1}
  Levels = {0, 1}
  Shards = {f, s1, s2}
  ShardOf <- MCShardOf
  LevelOf <- MCLevelOf
  Targets = {0, 1}
  DepthsOf <- MCDepthsOf
  KindsOf <- MCKindsOf
  GitMoves = 2
  None = None
INVARIANTS TypeOK MirrorMatchesCatalog ProofHonest AdmittedRowsCurrent MirrorFresh
PROPERTY EditKeepsOthers
