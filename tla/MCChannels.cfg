SPECIFICATION MCSpec
CONSTANTS
  Senders = {s1, s2}
  MaxMessages = 2
  Pieces = 2
  Big = {TRUE, FALSE}
  Modes = {"Blocking", "Nonblocking", "Timeout"}
  Transfers = {"consume", "send"}
  Crashes = TRUE
  Handles = {h1, h2}
  FirstHandle = h1
  Chans = {c1, c2}
  None = None
SYMMETRY Symmetry
INVARIANTS
  BufferOwned
  NothingLost
  ClosedAtEnd
  ChannelsEndOnce
  ValuesArrive
PROPERTIES
  ImplementsIpcChannel
  ChannelsImplementIpcChannel
CHECK_DEADLOCK FALSE
