\* Two servers for ann and every size a client may ask for: the limits.
CONSTANTS
  root = root
  ann = ann
  Users <- MCUsers
  RamInputs <- MCRamInputs
  MaxNow = 3
  MaxRecords = 3
  MaxRequests = 1
  MaxFaults = 0
  MinRam = 2
  DefaultRam = 1
  LimitServers = 2
  LimitRam = 4
  OneCreatePerMs = TRUE
SPECIFICATION Spec
CHECK_DEADLOCK FALSE
INVARIANTS
  TypeOK
  ServerLimit
  RunningAsRecorded
PROPERTIES
  UsersKeepRamLimit
