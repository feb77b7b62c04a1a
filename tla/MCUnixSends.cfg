SPECIFICATION MCSpec
CONSTANTS
  SYSTEM_SENDBUF_SIZE = 4608
  Senders = {s1, s2}
  Messages <- AllSizes
  MaxSends = 2
  SocketCapacity = 2
  MAX_FDS_IN_CMSG = 3
SYMMETRY Symmetry
INVARIANTS Reassembly EofIsFinal DedicatedChannelFound
PROPERTIES RetryIsSmaller ImplementsIpcChannel
CHECK_DEADLOCK FALSE
