SPECIFICATION Spec
CONSTANTS
  Proc = {p1}
  a = a
  gate = gate
  b = b
  c = c
  undo = undo
  x = x
  v1 = v1
  v2 = v2
  Name = {a, gate, b}
  Version = {v1, v2}
  Book <- GateBook
INVARIANTS RunsReviewedFile
CHECK_DEADLOCK FALSE
