SPECIFICATION Spec
CONSTANTS
  Proc = {p1, p2}
  a = a
  gate = gate
  b = b
  c = c
  undo = undo
  x = x
  v1 = v1
  v2 = v2
  Name = {gate, b, x}
  Version = {v1, v2}
  Book <- PairBook
SYMMETRY Operators
INVARIANTS GateNeedsApproval WaitingIsAnswerable
CHECK_DEADLOCK FALSE
