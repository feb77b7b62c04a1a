SPECIFICATION MCFairSpec
CONSTANTS
  SYSTEM_SENDBUF_SIZE = 4608
  Senders = {s1, s2}
  Messages <- TwoSizes
  MaxSends = 1
  SocketCapacity = 1
  MAX_FDS_IN_CMSG = 3
  FirstSender = s1
  None = None
  Routes = {r1, r2}
 
PROPERTIES CallsReturn EverythingReceived StreamProgress
CHECK_DEADLOCK FALSE
