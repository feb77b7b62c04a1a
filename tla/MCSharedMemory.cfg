SPECIFICATION MCSpec
CONSTANTS
  Processes = {p1, p2}
  Receiver = p2
  Handles = {h1, h2, h3}
  Numbers = {n1, n2}
  Addresses = {a1, a2}
  Objects = {o1, o2}
  Data = {d1, d2}
  BadFd = BadFd
  None = None
SYMMETRY Symmetry
INVARIANTS RegionsOwnedOnce RegionsArrive
CHECK_DEADLOCK FALSE
