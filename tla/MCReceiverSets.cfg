SPECIFICATION MCSpec
CONSTANTS
  Channels = {c1, c2}
  Senders = {s1, s2}
  Fds = {3, 4}
  MaxMessages = 2
  Events = 2
  Embedding = {FALSE}
  Ports = {c1, c2, c3}
  WindowsMessages = 2
  MacMessages = 2
  MacSizes = {1, 2}
INVARIANTS EntriesOwnReceivers ReportsFaithful SetsReportInOrder SetsOwnReceivers
SYMMETRY Symmetry
CHECK_DEADLOCK FALSE
