SPECIFICATION Spec
CONSTANTS
  p = p
  q = q
  s1 = s1
  s2 = s2
  tracked = tracked
  foreign = foreign
  other = other
  Paths = {p, q}
  Oids = {tracked, foreign}
  NoOid = NoOid
  Slots = {s1, s2}
  Flat = Flat
  Repos = {other}
  Window = 1
  MaxEdits = 0
  MaxReshapes = 1
  SlotOf <- MCSlotOf
  StartRows <- MCOneRow
  Past <- MCPast
  Hidden <- MCPast
  RepoOids <- MCRepoOids
INVARIANTS UntouchedKept
CHECK_DEADLOCK FALSE
