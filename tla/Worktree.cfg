SPECIFICATION Spec
CONSTANTS
  a = a
  b = b
  v1 = v1
  v2 = v2
  mine = mine
  Order <- MCOrder
  Oids = {v1, v2, mine}
  SizeOf <- MCSizeOf
  Commits <- MCCommits
  UserBytes <- MCUserBytes
  None = None
  Absent = Absent
  Commands = {"sync", "add", "rm", "mv", "repair"}
  Policies = {"validate", "rematerialize", "trust"}
  MergeWindow = 2
  DirtyWindow = 1
  BatchSize = 2
  Selections <- MCSelections
  MaxCommands = 3
  MaxEdits = 1
  MaxCheckouts = 1
  MaxFaults = 2
INVARIANTS TypeOK ProofsHonest CleanSyncReconciles
PROPERTIES LocalBytesKept TrustRestored LedgerNeverAhead
CHECK_DEADLOCK FALSE
