SPECIFICATION Spec
CONSTANTS
  p1 = p1
  p2 = p2
  Procs = {p1, p2}
  NoProc = NoProc
  None = None
  Root = Root
  a = a
  b = b
  both = both
  one = one
  empty = empty
  m = m
  t1 = t1
  t2 = t2
  Names = {m}
  Content <- MCContent
  Kinds = {"mount", "add"}
  Targets = {t1, t2}
  Leaves = {a, b}
  Versions = {one}
  Window = 1
  MaxEdits = 0
  MaxFaults = 2
INVARIANTS OwnsTarget
