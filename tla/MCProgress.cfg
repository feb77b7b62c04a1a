SPECIFICATION ProgressSpec
CONSTANTS
  Channels = {c1, c2}
  Senders = {s1}
  Fds = {3, 4}
  MaxMessages = 1
  Events = 1
  Embedding = {FALSE}
  Ports = {3, 4}
  WindowsMessages = 2
  MacMessages = 1
  MacSizes = {2, 3}
  Clients = {k1, k2, k3}
  Servers = {v1, v2}
  None = None
INVARIANT ServersKeepStreams
PROPERTIES SetsReport ClientsServed
CHECK_DEADLOCK FALSE
