SPECIFICATION FairSpec
CONSTANTS
  SYSTEM_SENDBUF_SIZE = 4608
  Senders = {s1}
  Messages <- LongMessage
  MaxSends = 1
  SocketCapacity = 1
  MAX_FDS_IN_CMSG = 3
PROPERTY SendReturns
CHECK_DEADLOCK FALSE
