\* One save or close that fails or one change with the file manager, restarts at any
\* moment.  Of two descriptors one can be reused while the other stays in use.
CONSTANTS
  fid = fid
  newfid = newfid
  Fids <- MCFids
  Paths <- MCPaths
  Unpacked <- MCUnpacked
  d1 = d1
  d2 = d2
  NotOpen = NotOpen
  Descriptors <- MCDescriptors
  MaxMishaps = 1
SYMMETRY MCSymmetry
SPECIFICATION Spec
CONSTRAINT MCBound
INVARIANTS
  TypeOK
  MetadataFollows
  CacheSaved
  DescriptorsHeld
PROPERTIES
  MetadataStays
