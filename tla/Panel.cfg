\* No two creations in one millisecond: what the panel does for one server.
CONSTANTS
  root = root
  ann = ann
  Users <- MCUsers
  RamInputs <- MCOneSize
  MaxNow = 2
  MaxRecords = 2
  MaxRequests = 2
  MaxFaults = 1
  MinRam = 2
  DefaultRam = 1
  LimitServers = 1
  LimitRam = 4
  OneCreatePerMs = TRUE
SPECIFICATION FairSpec
CHECK_DEADLOCK FALSE
INVARIANTS
  CompleteMeansUsable
  NoStaleProgress
PROPERTIES
  DeletesOnlyItsOwner
  FilesPersist
  CreationEnds
  DeletionEnds
