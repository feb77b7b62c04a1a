SPECIFICATION MCSpec
CONSTANTS
  MaxOpen = 4
  Processes = {p1, p2}
  Pipes = {c1, c2}
  Values = {v1, v2, v3, v4}
  Fds = {f1, f2, f3}
  MaxQueue = 1
  BadFd = BadFd
  None = None
SYMMETRY Symmetry
INVARIANTS OwnedOnce RightEnd EndExact OneReceiver
CHECK_DEADLOCK FALSE
