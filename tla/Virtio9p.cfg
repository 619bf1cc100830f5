CONSTANTS
  Size = 2
  IdxMod = 4
  Tag <- MCTag
  t1 = t1
  t2 = t2
  t3 = t3
  None = None

SPECIFICATION FairSpec

INVARIANTS
  TypeOK
  ReplyAnnounced

PROPERTIES
  Implements
  RequestsEnd
