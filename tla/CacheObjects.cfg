SPECIFICATION Spec
CONSTANTS
  c1 = c1
  a = a
  Clients = {c1}
  Oids = {a}
  Junk = Junk
  Absent = Absent
  Special = Special
  None = None
  Window = 1
  MaxWrites = 3
  MaxEdits = 1
  MaxActs = 1
INVARIANTS ProofHonest ObjectsMatchNames AnswersCurrent
