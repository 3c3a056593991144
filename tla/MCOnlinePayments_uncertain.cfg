CONSTANTS
  p1 = p1
  p2 = p2
  w1 = w1
  w2 = w2
  v1 = v1
  Payment = {p1}
  Worker = {w1}
  Visitor = {v1}
  Events = {"succeeded"}
  MaxFaults = 1
SPECIFICATION Spec
INVARIANTS
  UncertainIsFlagged
