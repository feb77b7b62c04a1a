SPECIFICATION MCSpec
CONSTANTS
  Clients = {c1, c2}
  Routes = {r1, r2}
  MaxMessages = 2
  Events = 2
  WakeupCapacity = 1
SYMMETRY Symmetry
INVARIANTS RouteFollowsWakeup StreamInOrder EndIsEnd HandlersInOrder
CHECK_DEADLOCK FALSE
