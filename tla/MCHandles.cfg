SPECIFICATION MCSpec
CONSTANTS
  Processes = {p1, p2}
  Pipes = {c1, c2}
  Values = {v1, v2, v3, v4}
  Names = {n1, n2}
  Numbers = {n1, n2, n3}
  MaxQueue = 1
  Null = Null
  Dead = Dead
  None = None
SYMMETRY Symmetry
INVARIANTS HandlesOwnedOnce HandlesDesignate
CHECK_DEADLOCK FALSE
