SPECIFICATION Spec
CONSTANTS
  Senders = {s1}
  MaxMessages = 2
  Pieces = 2
  Big = {FALSE}
  Modes = {"Blocking", "Nonblocking", "Timeout"}
  Transfers = {}
  Crashes = FALSE
INVARIANT CancelIsBenign
CHECK_DEADLOCK FALSE
