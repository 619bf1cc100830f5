\* One SYN, three bytes of the guest and two of the other host, one mishap.
CONSTANTS
  c1 = c1
  c2 = c2
  Conn = {c1}
  NoConn = NoConn
  W <- MCW
  Isns <- MCIsnLate
  ChunkSize = 1
  MaxGuest = 3
  MaxHost = 2
  MaxMishaps = 1
  MaxQueue = 1
SPECIFICATION FairSpec
INVARIANTS
  HostStream
  GuestStream
  SocketsReachable
PROPERTIES
  ConnectEnds
  HostDelivered
  BothEndsClose
CHECK_DEADLOCK FALSE
