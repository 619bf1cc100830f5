\* The administrator's routes as server.js mounts them.
CONSTANTS
  root = root
  ann = ann
  Users <- MCUsers
  RamInputs <- MCRamInputs
  LimitInputs <- MCLimitInputs
  MaxNow = 1
  MaxRecords = 1
  MaxRequests = 1
  MaxFaults = 0
  MinRam = 2
  DefaultRam = 1
  LimitServers = 1
  LimitRam = 4
  OneCreatePerMs = TRUE
  AdminAuthFirst = FALSE
SPECIFICATION AdminSpec
CHECK_DEADLOCK FALSE
INVARIANTS
  AdminsNotRefused
