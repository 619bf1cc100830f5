\* A start between the two halves of a deletion.
CONSTANTS
  root = root
  ann = ann
  Users <- MCUsers
  RamInputs <- MCOneSize
  MaxNow = 1
  MaxRecords = 1
  MaxRequests = 1
  MaxFaults = 0
  MinRam = 2
  DefaultRam = 1
  LimitServers = 1
  LimitRam = 4
  OneCreatePerMs = TRUE
SPECIFICATION Spec
CHECK_DEADLOCK FALSE
INVARIANTS
  NoOrphanVM
