SPECIFICATION Spec
CONSTANTS
  a = a
  b = b
  v1 = v1
  v2 = v2
  mine = mine
  Order <- MCOrder
  Oids = {v1, v2, mine}
  SizeOf <- MCSizeOf
  Commits <- MCCommits
  UserBytes <- MCUserBytes
  None = None
  Absent = Absent
  Commands = {"sync"}
  Policies = {"validate"}
  MergeWindow = 2
  DirtyWindow = 1
  BatchSize = 2
  Selections <- MCSelections
  MaxCommands = 3
  MaxEdits = 1
  MaxCheckouts = 1
  MaxFaults = 1
INVARIANTS WantedBytesNeverConflict
CHECK_DEADLOCK FALSE
