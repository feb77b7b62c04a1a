SPECIFICATION MCFairSpec
CONSTANTS
  Clients = {c1, c2}
  Routes = {r1, r2}
  MaxMessages = 1
  Events = 2
  WakeupCapacity = 1
  HandlersCall = FALSE
  Callers = {c1}
INVARIANTS UnwrapsHold MessageFollowsWakeup ShutdownIsLast
PROPERTIES ClientCallsReturn StuckOnlyOnItself
CHECK_DEADLOCK FALSE
