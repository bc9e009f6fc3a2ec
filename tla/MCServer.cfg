SPECIFICATION ServerSpec
CONSTANTS
  Requests = {r1, r2}
  Limit = 1
  Window = 1
  MaxTime = 2
  Nil = Nil
  Capacity = 1
  MaxSnapshots = 4
SYMMETRY Symmetry
INVARIANTS
  TypeOK
  NoWindowAboveLimit
  RefusedOnlyWhenFull
  FeedIsFresh
  WindowsEnd
  AuditFollowsChain
PROPERTIES
  NoSnapshotSkipped
