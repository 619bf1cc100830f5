CONSTANTS
  r1 = r1
  r2 = r2
  p1 = p1
  p2 = p2
  None = None
  Torn = Torn
  Req <- MCReq
  Package <- MCPackage
  Format <- MCFormat
  Limit = {2, 3}
  DefaultLimit = 2
  Size = {2}
  MaxFiles = 1
  MaxExcess = 1
  MaxStarts = 3
  MaxFaults = 2

CHECK_DEADLOCK FALSE

SPECIFICATION Spec

SYMMETRY MCSymmetry

INVARIANTS
  ListedIsUnpacked
  InstalledStaysListed
  LimitsSaved

PROPERTIES
  QuotaKept
