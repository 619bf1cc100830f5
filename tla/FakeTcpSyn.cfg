\* The guest may repeat its SYN, which makes a second connection.
CONSTANTS
  c1 = c1
  c2 = c2
  Conn <- MCConn
  NoConn = NoConn
  W <- MCW
  Isns = {0}
  ChunkSize = 1
  MaxGuest = 1
  MaxHost = 1
  MaxMishaps = 1
  MaxQueue = 1
SYMMETRY MCSymmetry
SPECIFICATION Spec
INVARIANTS
  TypeOK
  FinIsLast
CHECK_DEADLOCK FALSE
