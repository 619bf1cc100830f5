\* The administrator's handlers against the owner's requests.
CONSTANTS
  root = root
  ann = ann
  Users <- MCUsers
  RamInputs <- MCRamInputs
  LimitInputs <- MCLimitInputs
  MaxNow = 1
  MaxRecords = 1
  MaxRequests = 1
  MaxFaults = 1
  MinRam = 2
  DefaultRam = 1
  LimitServers = 1
  LimitRam = 4
  OneCreatePerMs = TRUE
  AdminAuthFirst = TRUE
SPECIFICATION AdminSpec
CHECK_DEADLOCK FALSE
INVARIANTS
  SuspendedServerStopped
PROPERTIES
  SuspendedRunsByTransferOnly
  OnlyStaleTokenRemovesLastAdmin
